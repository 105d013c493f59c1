-------------------- MODULE HttpConnectionManagerOrderProofs --------------------
(***************************************************************************)
(* What HttpConnectionManager promises about the order of its answers: no  *)
(* panic, each parser its own answer, nobody forgotten, the queues in      *)
(* step; and that it implements HttpSubmissions.  Each action keeps the    *)
(* invariant Ordered of HttpConnectionManagerProofs, and moves the line of *)
(* HttpSubmissions as one of its actions, or not at all.                   *)
(***************************************************************************)
EXTENDS HttpConnectionManagerProofs

-----------------------------------------------------------------------------
(* The first request starts                                                *)

\* The first request on a connection that carries nothing starts.
Begins(c, x, s) ==
  /\ c.state = "EConnected"
  /\ c.curReq \in Tx /\ c.curResp = c.curReq /\ c.pendReq = c.pendResp /\ ~c.excess
  /\ IsInjective(c.pendResp) /\ c.curResp \notin ToSet(c.pendResp)
  /\ Alone(c)
  /\ \A t \in Awaits(c) : Waiting(x[t])
  /\ \A t \in ToSet(c.pendResp) : x[t].comp = "idle"
  /\ x[c.curReq].comp = "start"
  /\ \A t \in Tx \ Awaits(c) : Off(x[t]) /\ Silent(x[t])
  /\ Still(s) /\ ~s.hup
  /\ First(c) => ~PendingWrite(c)

\* Nothing in the buffer and nothing on the network is nothing on its way.
LEMMA NoneJoined == ASSUME NEW b, NEW n, b = <<>>, n = <<>> PROVE b \o n = <<>>
<1>1. b \in Seq(Tx) /\ n \in Seq(Tx)  BY NoneIn
<1> QED BY <1>1, ConcatEmptySeq

\* A connection on which the first request begins is in use.
LEMMA BeginsRun ==
  ASSUME NEW c, NEW x, NEW s, Typed(c, x, s), Begins(c, x, s)
  PROVE  Run(c, x, s, None)
<1> DEFINE q == c.curReq
           p == c.pendResp
<1>1. q \in Tx /\ q # None /\ c.curResp = q /\ q \notin ToSet(p) /\ None \notin Tx /\ c.pendReq = p
      /\ p \in Seq(Tx) /\ ToSet(p) \subseteq Tx
  <2>1. p \in Seq(Tx)  BY Types
  <2>2. ToSet(p) \subseteq Tx  BY <2>1, SomeIn
  <2> QED BY <2>1, <2>2, Types DEF Begins
<1>2. \A t : t \in Awaits(c) <=> t = q \/ t \in ToSet(p)  BY <1>1 DEF Awaits
<1>3. /\ Waiting(x[q]) /\ x[q].comp = "start"
      /\ \A t \in ToSet(p) : Waiting(x[t]) /\ x[t].comp = "idle"
      /\ \A t \in Tx : t # q => Silent(x[t])
      /\ \A t \in Tx \ Awaits(c) : Off(x[t])
  BY <1>1, <1>2 DEF Begins, Silent
<1>4. Still(s) /\ ~s.hup /\ ~c.excess /\ c.state = "EConnected" /\ Alone(c)
  BY DEF Begins
<1>5. s.buf \o s.net = <<>>  BY <1>4, NoneJoined DEF Still
<1> HIDE DEF q, p
<1>6. Queues(c, None)  BY <1>1, <1>2, <1>4 DEF Begins, Queues, q, p
<1>7. Mode(c, None)  BY <1>1, <1>2 DEF Begins, Mode, q, p
<1>8. Parsers(c, x, None)
  <2>1. Current(x[c.curResp], None)  BY <1>1, <1>3 DEF Current, Waiting
  <2> QED BY <1>1, <1>3, <2>1 DEF Parsers, p
<1>9. Composers(c, x, s)
  <2>1. s.writer = None /\ \A t \in Tx : x[t].comp \notin OfBody /\ x[t].comp \notin Writing
    <3>1. \A t \in Tx : x[t].comp \in {"idle", "sent", "start"}  BY <1>3 DEF Silent
    <3> QED BY <1>4, <3>1 DEF Still, OfBody, Writing
  <2>2. \A t \in Tx : s.writer # t  BY <1>1, <2>1
  <2>3. x[c.curReq].comp \in Working /\ x[c.curReq].comp \in {"start", "headers"} /\ ~x[c.curReq].hdr
    BY <1>3 DEF Working, Waiting, q
  <2>4. \A t \in Tx : t # c.curReq => Silent(x[t])  BY <1>3 DEF q
  <2>5. \A t \in ToSet(c.pendReq) : x[t].comp = "idle"  BY <1>1, <1>3
  <2> QED BY <2>1, <2>2, <2>3, <2>4, <2>5 DEF Composers
<1>10. Wire(c, x, s)
  <2>1. s.wire = <<>> /\ s.sent = {}  BY <1>4 DEF Still
  <2>2. ToSet(s.wire) = {} /\ IsInjective(s.wire)  BY <2>1, NoneIn
  <2>3. \A t \in Tx : Given(t, x[t]) \/ x[t].comp = "start"
    <3>1. \A t \in Tx : x[t].comp \in {"idle", "sent", "start"}  BY <1>3 DEF Silent
    <3> QED BY <3>1 DEF Given
  <2> QED BY <1>4, <2>1, <2>2, <2>3 DEF Wire
<1>11. Answers(c, x, s)
  <2>1. Starting(c, x) = One(q) /\ Headless(c, x) = One(q)
    BY <1>1, <1>3 DEF Starting, Headless, One, Waiting, q
  <2>2. HeadsIn(s.buf \o s.net) = None0 /\ s.wire = None0  BY <1>4, <1>5, NoHeads DEF Still, None0
  <2>3. Line(None0, None0, One(q), p) = Cat(One(q), p)
    <3>1. None0 \in Seq(Tx) /\ One(q) \in Seq(Tx)  BY <1>1, CatNone, OneType
    <3>2. Line(None0, None0, One(q), p) = Cat(None0, Cat(None0, Cat(One(q), p)))
      BY <1>1, <3>1, Regroup
    <3>3. Cat(One(q), p) \in Seq(Tx)  BY <1>1, <3>1, CatType
    <3> QED BY <3>2, <3>3, CatNone
  <2> QED BY <1>1, <2>1, <2>2, <2>3, AnswersLine DEF p
<1>12. Pieces(c, x, s)
  <2>1. ~Midway(c, x)  BY <1>1, <1>3 DEF Midway, Waiting
  <2>2. Parts(<<>>, FALSE, c.curResp)
    <3>1. DOMAIN <<>> = {}  OBVIOUS
    <3> QED BY <3>1 DEF Parts
  <2>3. s.buf = <<>> /\ s.net = <<>>  BY <1>4 DEF Still
  <2>4. ToSet(s.buf) = {} /\ ToSet(s.net) = {}  BY <2>3, NoneIn
  <2>5. Midway(c, x) = FALSE
    <3>1. Midway(c, x) \in BOOLEAN  BY DEF Midway
    <3> QED BY <2>1, <3>1
  <2>6. Parts(s.buf \o s.net, Midway(c, x), c.curResp)  BY <1>5, <2>2, <2>5
  <2> QED BY <2>1, <2>4, <2>6 DEF Pieces
<1>13. Token(c, x, s, None)  BY <1>1, <1>3, <1>4 DEF Token, Still, Waiting
<1> QED BY <1>4, <1>6, <1>7, <1>8, <1>9, <1>10, <1>11, <1>12, <1>13 DEF Run, Loose

\* StartRequest, when the first request on the connection is there.
Ready(w) ==
  /\ w.cm.state = "EConnected"
  /\ w.cm.curReq \in Tx /\ w.cm.curResp = w.cm.curReq /\ w.cm.pendReq = w.cm.pendResp /\ ~w.cm.excess
  /\ IsInjective(w.cm.pendResp) /\ w.cm.curResp \notin ToSet(w.cm.pendResp)
  /\ Alone(w.cm)
  /\ \A t \in Awaits(w.cm) : Waiting(w.tx[t]) /\ w.tx[t].comp = "idle"
  /\ \A t \in Tx \ Awaits(w.cm) : Off(w.tx[t]) /\ Silent(w.tx[t])
  /\ First(w.cm) => ~PendingWrite(w.cm)

\* StartRequest starts the composer of the current request and changes nothing else.
LEMMA StartIs ==
  ASSUME NEW w \in World, w.cm.curReq \in Tx, w.tx[w.cm.curReq].comp = "idle"
  PROVE  LET v == StartRequest(w) IN
         /\ v \in World /\ v.cm = w.cm /\ v.sock = w.sock /\ v.panic = w.panic
         /\ \A u \in Tx : u # w.cm.curReq => v.tx[u] = w.tx[u]
         /\ v.tx[w.cm.curReq].comp = "start" /\ Alike(w.tx[w.cm.curReq], v.tx[w.cm.curReq])
<1>1. PICK q \in Tx : q = w.cm.curReq /\ q # None  BY ConstantsAssumption
<1> DEFINE z == Composer(w, q, "start")
<1>2. StartRequest(w) = z  BY <1>1 DEF StartRequest, Composer
<1>3. "start" \in ComposerStates  BY DEF ComposerStates
<1>4. /\ z \in World /\ z.cm = w.cm /\ z.sock = w.sock /\ z.panic = w.panic
      /\ \A u \in Tx : u # q => z.tx[u] = w.tx[u]
      /\ z.tx[q].comp = "start" /\ Alike(w.tx[q], z.tx[q])
  BY <1>3, ComposerIs
<1> HIDE DEF z
<1> QED BY <1>1, <1>2, <1>4

\* StartRequest on a fresh connection puts it in use.
LEMMA ReadyStarts ==
  ASSUME NEW w \in World, Sound(w), Ready(w), NEW s \in Socket, Still(s), ~s.hup
  PROVE  LET v == StartRequest(w) IN Sound(v) /\ Run(v.cm, v.tx, s, None) /\ v.sock = w.sock /\ v \in World
<1> DEFINE q == w.cm.curReq
           v == StartRequest(w)
<1>1. q \in Tx /\ q \in Awaits(w.cm) /\ w.tx[q].comp = "idle"
  <2>1. q \in Tx /\ w.cm.curResp = q  BY DEF Ready
  <2>2. q \in Awaits(w.cm)  BY <2>1, ConstantsAssumption DEF Awaits
  <2> QED BY <2>1, <2>2 DEF Ready
<1>2. /\ v \in World /\ v.cm = w.cm /\ v.sock = w.sock /\ v.panic = w.panic
      /\ \A u \in Tx : u # q => v.tx[u] = w.tx[u]
      /\ v.tx[q].comp = "start" /\ Alike(w.tx[q], v.tx[q])
  BY <1>1, StartIs
<1> HIDE DEF v, q
<1>3. Sound(v)
  <2>1. \A t \in Tx : Tame(w.tx[t], v.tx[t])
    <3> SUFFICES ASSUME NEW t \in Tx PROVE Tame(w.tx[t], v.tx[t])  OBVIOUS
    <3> QED BY <1>2 DEF Tame, Alike
  <2>2. "EDiscardSndDataCnf" \notin v.cm.flags  BY <1>2 DEF Sound
  <2> QED BY <1>2, <2>1, <2>2, TameSound
<1>4. Begins(v.cm, v.tx, s)
  <2>1. w.cm.curReq = q  BY DEF q
  <2>2. ToSet(w.cm.pendResp) \subseteq Awaits(w.cm) /\ q \notin ToSet(w.cm.pendResp)
    BY <2>1 DEF Awaits, Ready
  <2>3. Awaits(w.cm) \subseteq Tx
    <3>1. w.cm.pendResp \in Seq(Tx) /\ w.cm.curResp \in Tx  BY <2>1, <1>1 DEF World, Manager, Ready
    <3>2. ToSet(w.cm.pendResp) \subseteq Tx  BY <3>1, SomeIn
    <3> QED BY <3>1, <3>2 DEF Awaits
  <2>4. \A t \in Awaits(w.cm) : Waiting(v.tx[t])
    <3> SUFFICES ASSUME NEW t \in Awaits(w.cm) PROVE Waiting(v.tx[t])  OBVIOUS
    <3>1. t \in Tx /\ Waiting(w.tx[t])  BY <2>3 DEF Ready
    <3> QED BY <1>2, <3>1 DEF Waiting, Alike
  <2>5. \A t \in ToSet(w.cm.pendResp) : v.tx[t].comp = "idle"  BY <1>2, <2>2, <2>3 DEF Ready
  <2>6. \A t \in Tx \ Awaits(w.cm) : Off(v.tx[t]) /\ Silent(v.tx[t])  BY <1>1, <1>2 DEF Ready
  <2> QED BY <1>2, <2>1, <2>4, <2>5, <2>6 DEF Begins, Ready
<1>5. Typed(v.cm, v.tx, s)  BY <1>2 DEF Typed, World
<1>6. Run(v.cm, v.tx, s, None)  BY <1>4, <1>5, BeginsRun
<1> QED BY <1>2, <1>3, <1>6 DEF v

-----------------------------------------------------------------------------
(* The connection is made                                                  *)

\* The members of the manager that the queues are.
SameQueues(c, d) ==
  /\ d.curReq = c.curReq /\ d.curResp = c.curResp /\ d.pendReq = c.pendReq /\ d.pendResp = c.pendResp
  /\ d.excess = c.excess /\ d.nonPersistent = c.nonPersistent /\ d.flags = c.flags

\* A connection that has been made is ready for the first request.
LEMMA MakeReady ==
  ASSUME NEW c, NEW x, NEW s, Make(c, x, s), NEW v, SameQueues(c, v.cm), v.cm.state = "EConnected", v.tx = x
  PROVE  Ready(v)
<1>1. Awaits(v.cm) = Awaits(c) /\ Alone(v.cm)  BY DEF SameQueues, Awaits, Alone, Make
<1> QED BY <1>1 DEF Make, Ready, SameQueues, PendingWrite

\* A connection stays being made through its steps while the queues stay the same.
LEMMA MakeMoves ==
  ASSUME NEW c, NEW x, NEW s, Make(c, x, s), NEW d, NEW z, SameQueues(c, d), d.state \in Making,
         Still(z), ~z.hup
  PROVE  Make(d, x, z)
<1>1. Awaits(d) = Awaits(c) /\ Alone(d)  BY DEF SameQueues, Awaits, Alone, Make
<1> QED BY <1>1 DEF Make, SameQueues, PendingWrite

\* StartRequest, when the connection has just been made.
LEMMA MakeStarts ==
  ASSUME NEW c, NEW x, NEW s, Make(c, x, s), NEW v \in World, Sound(v), SameQueues(c, v.cm), v.tx = x,
         v.cm.state = "EConnected", Still(v.sock), ~v.sock.hup
  PROVE  Sorted(StartRequest(v))
<1>1. Ready(v)  BY MakeReady
<1>2. v.sock \in Socket  BY DEF World
<1> DEFINE u == StartRequest(v)
           e == v.sock
<1>3. e \in Socket /\ Still(e) /\ ~e.hup  BY <1>2
<1> HIDE DEF e
<1>4. Sound(u) /\ Run(u.cm, u.tx, e, None) /\ u.sock = v.sock  BY <1>1, <1>3, ReadyStarts
<1> HIDE DEF u
<1>5. Run(u.cm, u.tx, u.sock, None)  BY <1>4 DEF e
<1>6. None \in Tx \cup {None}  OBVIOUS
<1>7. Sorted(u)  BY <1>4, <1>5, <1>6, RunSorted
<1> QED BY <1>7 DEF u

\* ConnectionMadeL.
LEMMA ConnectedIs ==
  ASSUME NEW w \in World
  PROVE  LET w1 == [w EXCEPT !.cm.connector = FALSE, !.sock = [ClosedSocket EXCEPT !.open = TRUE]]
             u  == UpgradeConnectionL(w1)
             v  == [w1 EXCEPT !.cm.state = "EConnected"]
         IN  /\ u \in World /\ u.cm.state = "EUpgrading" /\ u.tx = w.tx /\ u.panic = w.panic
             /\ SameQueues(w.cm, u.cm) /\ Still(u.sock) /\ ~u.sock.hup
             /\ v \in World /\ v.cm.state = "EConnected" /\ v.tx = w.tx /\ v.panic = w.panic
             /\ SameQueues(w.cm, v.cm) /\ Still(v.sock) /\ ~v.sock.hup
<1> DEFINE s == [ClosedSocket EXCEPT !.open = TRUE]
           w1 == [w EXCEPT !.cm.connector = FALSE, !.sock = s]
           u  == UpgradeConnectionL(w1)
           v  == [w1 EXCEPT !.cm.state = "EConnected"]
<1>1. s \in Socket  BY ClosedType
<1>2. Still(s) /\ ~s.hup  BY DEF Still, ClosedSocket
<1> HIDE DEF s
<1>3. w1.cm = [w.cm EXCEPT !.connector = FALSE] /\ w1.tx = w.tx /\ w1.sock = s /\ w1.panic = w.panic
  BY DEF World
<1>4. w1 \in World
  BY <1>1 DEF World, Manager
<1> HIDE DEF w1
<1>5. SameQueues(w.cm, w1.cm)  BY <1>3, <1>4 DEF SameQueues, World, Manager
<1>6. u \in World /\ u.cm.state = "EUpgrading" /\ u.tx = w1.tx /\ u.panic = w1.panic /\ u.sock = w1.sock
      /\ SameQueues(w1.cm, u.cm)
  BY <1>4 DEF UpgradeConnectionL, World, Manager, States, SameQueues
<1>7. v \in World /\ v.cm.state = "EConnected" /\ v.tx = w1.tx /\ v.panic = w1.panic /\ v.sock = w1.sock
      /\ SameQueues(w1.cm, v.cm)
  BY <1>4 DEF World, Manager, States, SameQueues
<1> HIDE DEF u, v
<1>8. SameQueues(w.cm, u.cm) /\ SameQueues(w.cm, v.cm)  BY <1>5, <1>6, <1>7 DEF SameQueues
<1> QED BY <1>2, <1>3, <1>4, <1>6, <1>7, <1>8 DEF u, v, w1, s

\* What is sound stays so when neither flags nor transactions change.
LEMMA SameSound ==
  ASSUME NEW w, Sound(w), NEW v, v.panic = w.panic, v.cm.flags = w.cm.flags, v.tx = w.tx PROVE Sound(v)
  BY DEF Sound

\* ConnectionMade.
LEMMA ConnectionMadeOrder == ASSUME Ordered(world), Good(world)', ConnectionMade PROVE Ordered(world)'
<1>1. Becomes(ConnectionMadeL(world)) /\ cm.state = "EConnecting"  BY OrderedIs DEF ConnectionMade
<1>2. /\ world \in World /\ Sound(world) /\ Fit(cm, tx, sock) /\ Typed(cm, tx, sock)
      /\ world.cm = cm /\ world.tx = tx /\ world.sock = sock /\ world.panic = panic
  BY OrderedIs
<1>3. Make(cm, tx, sock)  BY <1>1, <1>2 DEF Fit, Rest, Resting, Run, Loose
<1>4. world.cm.curReq # None  BY <1>2, <1>3, ConstantsAssumption DEF Make
<1> DEFINE w1 == [world EXCEPT !.cm.connector = FALSE, !.sock = [ClosedSocket EXCEPT !.open = TRUE]]
           u  == UpgradeConnectionL(w1)
           v  == [w1 EXCEPT !.cm.state = "EConnected"]
<1>5. ConnectionMadeL(world) = IF world.cm.secure THEN u ELSE StartRequest(v)
  BY <1>4, Zenon DEF ConnectionMadeL
<1>6. /\ u \in World /\ u.cm.state = "EUpgrading" /\ u.tx = tx /\ u.panic = panic
      /\ SameQueues(cm, u.cm) /\ Still(u.sock) /\ ~u.sock.hup
      /\ v \in World /\ v.cm.state = "EConnected" /\ v.tx = tx /\ v.panic = panic
      /\ SameQueues(cm, v.cm) /\ Still(v.sock) /\ ~v.sock.hup
  BY <1>2, ConnectedIs
<1> HIDE DEF u, v
<1>7. Sound(u) /\ Sound(v)  BY <1>2, <1>6, SameSound DEF SameQueues
<1>8. Sorted(u)
  <2>1. Make(u.cm, tx, u.sock)  BY <1>3, <1>6, MakeMoves DEF Making
  <2> QED BY <1>6, <1>7, <2>1, MakeSorted
<1>9. Sorted(StartRequest(v))  BY <1>3, <1>6, <1>7, MakeStarts
<1> DEFINE z == ConnectionMadeL(world)
<1>10. Sorted(z) /\ Becomes(z)  BY <1>1, <1>5, <1>8, <1>9
<1> HIDE DEF z
<1> QED BY <1>10, BecomesOrdered

\* SecureClientCnf.
LEMMA SecureClientCnfOrder == ASSUME Ordered(world), Good(world)', SecureClientCnf PROVE Ordered(world)'
<1> DEFINE v == [world EXCEPT !.cm.secureRetry = FALSE, !.cm.state = "EConnected"]
<1>1. Becomes(StartRequest(v)) /\ cm.state = "EUpgrading"  BY DEF SecureClientCnf
<1>2. /\ world \in World /\ Sound(world) /\ Fit(cm, tx, sock) /\ Typed(cm, tx, sock)
      /\ world.cm = cm /\ world.tx = tx /\ world.sock = sock /\ world.panic = panic
  BY OrderedIs
<1>3. Make(cm, tx, sock)  BY <1>1, <1>2 DEF Fit, Rest, Resting, Run, Loose
<1>4. v \in World /\ v.cm.state = "EConnected" /\ v.tx = tx /\ v.panic = panic /\ v.sock = sock
      /\ SameQueues(cm, v.cm)
  BY <1>2 DEF World, Manager, States, SameQueues
<1> HIDE DEF v
<1>5. Sound(v)  BY <1>2, <1>4, SameSound DEF SameQueues
<1>6. Still(v.sock) /\ ~v.sock.hup  BY <1>3, <1>4 DEF Make
<1>7. Sorted(StartRequest(v))  BY <1>3, <1>4, <1>5, <1>6, MakeStarts
<1> DEFINE z == StartRequest(v)
<1>8. Sorted(z) /\ Becomes(z)  BY <1>1, <1>7
<1> HIDE DEF z
<1> QED BY <1>8, BecomesOrdered

-----------------------------------------------------------------------------
(* The request that is being sent                                          *)

SameStreams(s, z) ==
  z.buf = s.buf /\ z.net = s.net /\ z.wire = s.wire /\ z.hup = s.hup /\ z.reader = s.reader
SamePlaces(c, d) ==
  /\ d.state = c.state /\ d.curResp = c.curResp /\ d.pendResp = c.pendResp
  /\ d.excess = c.excess /\ d.nonPersistent = c.nonPersistent /\ (First(d) <=> First(c))
SameButComposer(x, y) == \A u \in Tx : Alike(x[u], y[u])
Others(x, y, q) == \A u \in Tx : u # q => y[u] = x[u]

\* What only depends on the parsers.
LEMMA ParsersSame ==
  ASSUME NEW c, NEW x, NEW s, Typed(c, x, s), NEW h \in Tx \cup {None}, Run(c, x, s, h),
         NEW d, NEW y, d.curResp = c.curResp, d.pendResp = c.pendResp, SameButComposer(x, y),
         c.curResp # None /\ Silent(x[c.curResp]) => Silent(y[c.curResp]),
         h # None => Silent(y[h])
  PROVE  /\ Parsers(d, y, h) /\ (h # None => Held(y[h]))
         /\ Headless(d, y) = Headless(c, x) /\ (Midway(d, y) <=> Midway(c, x))
         /\ Awaits(d) = Awaits(c)
<1>1. c.curResp \in Tx \cup {None} /\ ToSet(c.pendResp) \subseteq Tx
  <2>1. c.pendResp \in Seq(Tx) /\ c.curResp \in Tx \cup {None}  BY Types
  <2> QED BY <2>1, SomeIn
<1>2. Parsers(c, x, h) /\ (h # None => Held(x[h]))  BY DEF Run, Loose
<1>3. Awaits(d) = Awaits(c)  BY DEF Awaits
<1>4. \A t \in ToSet(d.pendResp) : Waiting(y[t])
  <2> SUFFICES ASSUME NEW t \in ToSet(c.pendResp) PROVE Waiting(y[t])  OBVIOUS
  <2>1. t \in Tx /\ Waiting(x[t]) /\ Alike(x[t], y[t])  BY <1>1, <1>2 DEF Parsers, SameButComposer
  <2> QED BY <2>1 DEF Waiting, Alike
<1>5. d.curResp # None => Current(y[d.curResp], h)
  <2> SUFFICES ASSUME c.curResp # None PROVE Current(y[c.curResp], h)  OBVIOUS
  <2>1. PICK r \in Tx : r = c.curResp  BY <1>1
  <2>2. Current(x[r], h) /\ Alike(x[r], y[r]) /\ (Silent(x[r]) => Silent(y[r]))
    BY <1>2, <2>1 DEF Parsers, SameButComposer
  <2>3. Current(y[r], h)  BY <2>2 DEF Current, Alike
  <2> QED BY <2>1, <2>3
<1>6. \A t \in Tx \ Awaits(d) : t # h => Off(y[t])
  <2> SUFFICES ASSUME NEW t \in Tx \ Awaits(c), t # h PROVE Off(y[t])  BY <1>3
  <2>1. Off(x[t]) /\ Alike(x[t], y[t])  BY <1>2 DEF Parsers, SameButComposer
  <2> QED BY <2>1 DEF Off, Alike
<1>7. h # None => Held(y[h])
  <2> SUFFICES ASSUME h # None PROVE Held(y[h])  OBVIOUS
  <2>1. h \in Tx /\ Held(x[h]) /\ Alike(x[h], y[h])  BY <1>2 DEF SameButComposer
  <2> QED BY <2>1 DEF Held, Alike
<1>8. c.curResp # None => y[c.curResp].hdr = x[c.curResp].hdr /\ y[c.curResp].parse = x[c.curResp].parse
  BY <1>1 DEF SameButComposer, Alike
<1>9. Headless(d, y) = Headless(c, x) /\ (Midway(d, y) <=> Midway(c, x))  BY <1>8 DEF Headless, Midway
<1>10. Parsers(d, y, h)  BY <1>4, <1>5, <1>6 DEF Parsers
<1> QED BY <1>3, <1>7, <1>9, <1>10

\* The buffer stays where it is while only composers move.
LEMMA TokenSame ==
  ASSUME NEW c, NEW x, NEW s, Typed(c, x, s), NEW h, Token(c, x, s, h),
         NEW d, NEW y, NEW z, d.curResp = c.curResp, d.excess = c.excess, SameButComposer(x, y), SameStreams(s, z)
  PROVE  Token(d, y, z, h)
<1>1. c.curResp # None => y[c.curResp].parse = x[c.curResp].parse  BY Types DEF SameButComposer, Alike
<1> QED BY <1>1 DEF Token, SameStreams

\* The pieces of the answers stay in shape while only composers move, and no request
\* that was complete or silent stops being so.
LEMMA PiecesSame ==
  ASSUME NEW c, NEW x, NEW s, Typed(c, x, s), NEW h \in Tx \cup {None}, Run(c, x, s, h),
         NEW d, NEW y, NEW z, d.curResp = c.curResp, d.nonPersistent = c.nonPersistent,
         Midway(d, y) <=> Midway(c, x), SameButComposer(x, y), SameStreams(s, z),
         \A p \in ToSet(s.buf) \cup ToSet(s.net) : Given(p.t, x[p.t]) => Given(p.t, y[p.t]),
         \A p \in ToSet(s.buf) : Silent(x[p.t]) => Silent(y[p.t])
  PROVE  Pieces(d, y, z)
<1>1. Pieces(c, x, s)  BY DEF Run, Loose
<1>2. Midway(c, x) => y[c.curResp].len = x[c.curResp].len
  <2>1. Midway(c, x) => c.curResp \in Tx  BY Types DEF Midway
  <2> QED BY <2>1 DEF SameButComposer, Alike
<1>3. Midway(d, y) = Midway(c, x)
  <2>1. Midway(d, y) \in BOOLEAN /\ Midway(c, x) \in BOOLEAN  BY DEF Midway
  <2> QED BY <2>1
<1>4. Parts(z.buf \o z.net, Midway(d, y), d.curResp)  BY <1>1, <1>3 DEF Pieces, SameStreams
<1>5. z.buf = s.buf /\ z.net = s.net  BY DEF SameStreams
<1> QED BY <1>1, <1>2, <1>4, <1>5 DEF Pieces

\* The composer of the current request goes on, in the same request.
LEMMA CompMoves ==
  ASSUME NEW c, NEW x, NEW s, Typed(c, x, s), NEW h \in Tx \cup {None}, Run(c, x, s, h),
         NEW d, NEW y, NEW z, Typed(d, y, z), SamePlaces(c, d), d.curReq = c.curReq, d.pendReq = c.pendReq,
         ~PendingWrite(d), NEW q \in Tx, q = c.curReq, Others(x, y, q), Alike(x[q], y[q]),
         x[q].comp \in Working \ {"start"}, y[q].comp \in Working \ {"start"},
         y[q].comp \in OfBody => q \in HasBody,
         z.writer = IF y[q].comp \in Writing THEN q ELSE None,
         Given(q, x[q]) => Given(q, y[q]),
         z.sent = IF Given(q, y[q]) /\ q \in ToSet(s.wire) THEN s.sent \cup {q} ELSE s.sent,
         SameStreams(s, z)
  PROVE  Run(d, y, z, h)
<1>1. /\ c.state = "EConnected" /\ Queues(c, h) /\ Mode(c, h) /\ Parsers(c, x, h) /\ Composers(c, x, s)
      /\ Wire(c, x, s) /\ Answers(c, x, s) /\ Pieces(c, x, s) /\ Token(c, x, s, h)
  BY DEF Run, Loose
<1>2. q # None /\ ~Silent(x[q])  BY ConstantsAssumption DEF Working, Silent
<1>3. SameButComposer(x, y)  BY DEF SameButComposer, Others, Alike
<1>4. h # None => Silent(y[h])
  <2>1. h # None => h # q /\ h \in Tx /\ Silent(x[h])  BY <1>1, <1>2 DEF Parsers
  <2> QED BY <2>1 DEF Others
<1>5. c.curResp # None /\ Silent(x[c.curResp]) => Silent(y[c.curResp])
  <2>1. c.curResp # None => c.curResp \in Tx  BY Types
  <2> QED BY <1>2, <2>1 DEF Others
<1>6. /\ Parsers(d, y, h) /\ (h # None => Held(y[h]))
      /\ Headless(d, y) = Headless(c, x) /\ (Midway(d, y) <=> Midway(c, x))
      /\ Awaits(d) = Awaits(c)
  BY <1>3, <1>4, <1>5, ParsersSame DEF SamePlaces
<1>7. Token(d, y, z, h)  BY <1>1, <1>3, TokenSame DEF SamePlaces
<1>8. Pieces(d, y, z)
  <2>1. \A p \in ToSet(s.buf) \cup ToSet(s.net) : p.t \in Tx
    <3>1. s.buf \in Seq(Piece) /\ s.net \in Seq(Piece)  BY Types
    <3>2. ToSet(s.buf) \cup ToSet(s.net) \subseteq Piece  BY <3>1, SomeIn
    <3> QED BY <3>2 DEF Piece
  <2>2. \A p \in ToSet(s.buf) \cup ToSet(s.net) : Given(p.t, x[p.t]) => Given(p.t, y[p.t])
    BY <2>1 DEF Others
  <2>3. \A p \in ToSet(s.buf) : Silent(x[p.t]) => Silent(y[p.t])  BY <1>2, <2>1 DEF Others
  <2> QED BY <1>3, <1>6, <2>2, <2>3, PiecesSame DEF SamePlaces
<1>9. Queues(d, h)  BY <1>1, <1>6 DEF Queues, SamePlaces, Alone
<1>10. Mode(d, h)  BY <1>1, <1>6 DEF Mode, SamePlaces
<1>11. Composers(d, y, z)
  <2>1. \A t \in Tx : t # q => Silent(x[t]) /\ y[t] = x[t]  BY <1>1 DEF Composers, Others
  <2>2. q \notin ToSet(c.pendReq)
    <3>1. \A t \in ToSet(c.pendReq) : Silent(x[t])  BY <1>1 DEF Composers, Silent
    <3> QED BY <1>2, <3>1
  <2>3. ToSet(c.pendReq) \subseteq Tx
    <3>1. c.pendReq \in Seq(Tx)  BY Types
    <3> QED BY <3>1, SomeIn
  <2>4. \A t \in ToSet(c.pendReq) : y[t].comp = "idle"  BY <1>1, <2>1, <2>2, <2>3 DEF Composers
  <2>5. \A t \in Tx : y[t].comp \in OfBody => t \in HasBody  BY <1>1, <2>1 DEF Composers
  <2>6. \A t \in Tx : y[t].comp \in Writing <=> z.writer = t
    <3>1. \A t \in Tx : t # q => y[t].comp \notin Writing  BY <2>1 DEF Silent, Writing
    <3> QED BY <1>2, <3>1, ConstantsAssumption
  <2> QED BY <2>1, <2>4, <2>5, <2>6 DEF Composers
<1>12. Wire(d, y, z)
  <2>1. z.wire = s.wire /\ z.hup = s.hup /\ d.nonPersistent = c.nonPersistent  BY DEF SameStreams, SamePlaces
  <2>2. ToSet(s.wire) \subseteq Tx
    <3>1. s.wire \in Seq(Tx)  BY Types
    <3> QED BY <3>1, SomeIn
  <2>3. IsInjective(s.wire) /\ z.sent \subseteq ToSet(s.wire)  BY <1>1 DEF Wire
  <2>4. ASSUME NEW t \in ToSet(s.wire) PROVE y[t].comp # "start" /\ (t \in z.sent <=> Given(t, y[t]))
    <3>1. x[t].comp # "start" /\ (t \in s.sent <=> Given(t, x[t])) /\ t \in Tx  BY <1>1, <2>2 DEF Wire
    <3>2. CASE t = q  BY <2>4, <3>1, <3>2
    <3>3. CASE t # q  BY <3>1, <3>3 DEF Others
    <3> QED BY <3>2, <3>3
  <2>5. ASSUME NEW t \in Tx PROVE Given(t, y[t]) \/ y[t].comp = "start" \/ t \in ToSet(s.wire)
    <3>1. Given(t, x[t]) \/ x[t].comp = "start" \/ t \in ToSet(s.wire)  BY <1>1 DEF Wire
    <3>2. CASE t = q  BY <3>1, <3>2
    <3>3. CASE t # q  BY <3>1, <3>3 DEF Others
    <3> QED BY <3>2, <3>3
  <2>6. s.hup => c.nonPersistent /\ s.wire = <<>> /\ \A t \in Tx : y[t].comp # "start"
    BY <1>1 DEF Wire, Others
  <2> QED BY <2>1, <2>3, <2>4, <2>5, <2>6 DEF Wire
<1>13. Answers(d, y, z)
  <2>1. Starting(d, y) = Starting(c, x)  BY <1>2 DEF Starting
  <2>2. d.pendReq = c.pendReq /\ d.pendResp = c.pendResp /\ z.buf = s.buf /\ z.net = s.net /\ z.wire = s.wire
    BY DEF SamePlaces, SameStreams
  <2> QED BY <1>1, <1>6, <2>1, <2>2 DEF Answers
<1>14. d.state = "EConnected"  BY <1>1 DEF SamePlaces
<1> QED BY <1>6, <1>7, <1>8, <1>9, <1>10, <1>11, <1>12, <1>13, <1>14 DEF Run, Loose

\* The first buffer of the current request is sent.
LEMMA HeadersSent ==
  ASSUME NEW c, NEW x, NEW s, Typed(c, x, s), NEW h \in Tx \cup {None}, Run(c, x, s, h),
         NEW y, NEW z, Typed(c, y, z), NEW q \in Tx, q = c.curReq, Others(x, y, q), Alike(x[q], y[q]),
         x[q].comp = "start", y[q].comp = "headers", z.writer = q, z.wire = Append(s.wire, q),
         z.sent = IF q \in HasBody THEN s.sent ELSE s.sent \cup {q},
         z.buf = s.buf, z.net = s.net, z.hup = s.hup, z.reader = s.reader
  PROVE  Run(c, y, z, h)
<1>1. /\ c.state = "EConnected" /\ Queues(c, h) /\ Mode(c, h) /\ Parsers(c, x, h) /\ Composers(c, x, s)
      /\ Wire(c, x, s) /\ Answers(c, x, s) /\ Pieces(c, x, s) /\ Token(c, x, s, h)
  BY DEF Run, Loose
<1>2. q # None /\ ~Silent(x[q])  BY ConstantsAssumption DEF Silent
<1>3. SameButComposer(x, y)  BY DEF SameButComposer, Others, Alike
<1>4. h # None => Silent(y[h])
  <2>1. h # None => h # q /\ h \in Tx /\ Silent(x[h])  BY <1>1, <1>2 DEF Parsers
  <2> QED BY <2>1 DEF Others
<1>5. c.curResp # None /\ Silent(x[c.curResp]) => Silent(y[c.curResp])
  <2>1. c.curResp # None => c.curResp \in Tx  BY Types
  <2> QED BY <1>2, <2>1 DEF Others
<1>6. /\ Parsers(c, y, h) /\ (h # None => Held(y[h]))
      /\ Headless(c, y) = Headless(c, x) /\ (Midway(c, y) <=> Midway(c, x))
  BY <1>3, <1>4, <1>5, ParsersSame
<1>7. \A p \in ToSet(s.buf) \cup ToSet(s.net) : p.t \in Tx
  <2>1. s.buf \in Seq(Piece) /\ s.net \in Seq(Piece)  BY Types
  <2>2. ToSet(s.buf) \cup ToSet(s.net) \subseteq Piece  BY <2>1, SomeIn
  <2> QED BY <2>2 DEF Piece
<1> DEFINE z0 == [s EXCEPT !.writer = q]
<1>8. Token(c, y, z, h) /\ Pieces(c, y, z)
  <2>1. c.curResp # None => y[c.curResp].parse = x[c.curResp].parse /\ y[c.curResp].len = x[c.curResp].len
    BY <1>3, Types DEF SameButComposer, Alike
  <2>2. Token(c, y, z, h)  BY <1>1, <2>1 DEF Token
  <2>3. \A p \in ToSet(s.buf) \cup ToSet(s.net) : Given(p.t, x[p.t]) => p.t # q
    BY DEF Given
  <2>4. \A p \in ToSet(s.buf) \cup ToSet(s.net) : Given(p.t, y[p.t]) /\ (p.close => c.nonPersistent) /\ p.len # "unknown"
    BY <1>1, <1>7, <2>3 DEF Pieces, Others
  <2>5. \A p \in ToSet(s.buf) : Silent(y[p.t])  BY <1>1, <1>2, <1>7 DEF Pieces, Others
  <2>6. Midway(c, y) = Midway(c, x)
    <3>1. Midway(c, y) \in BOOLEAN /\ Midway(c, x) \in BOOLEAN  BY DEF Midway
    <3> QED BY <1>6, <3>1
  <2>7. Parts(z.buf \o z.net, Midway(c, y), c.curResp)  BY <1>1, <2>6 DEF Pieces
  <2>8. Midway(c, y) => y[c.curResp].len = "sized"
    <3>1. Midway(c, x) => c.curResp # None  BY DEF Midway
    <3> QED BY <1>1, <1>6, <2>1, <3>1 DEF Pieces
  <2> QED BY <2>2, <2>4, <2>5, <2>7, <2>8 DEF Pieces
<1>9. q \notin ToSet(s.wire) /\ s.wire \in Seq(Tx) /\ ToSet(s.wire) \subseteq Tx /\ IsInjective(s.wire)
  <2>1. s.wire \in Seq(Tx)  BY Types
  <2> QED BY <1>1, <2>1, SomeIn DEF Wire
<1>10. z.wire \in Seq(Tx) /\ IsInjective(z.wire) /\ ToSet(z.wire) = ToSet(s.wire) \cup {q}
  BY <1>9, Appended
<1>11. Composers(c, y, z)
  <2>1. \A t \in Tx : t # q => Silent(x[t]) /\ y[t] = x[t]  BY <1>1 DEF Composers, Others
  <2>2. q \notin ToSet(c.pendReq)
    <3>1. \A t \in ToSet(c.pendReq) : Silent(x[t])  BY <1>1 DEF Composers, Silent
    <3> QED BY <1>2, <3>1
  <2>3. ToSet(c.pendReq) \subseteq Tx
    <3>1. c.pendReq \in Seq(Tx)  BY Types
    <3> QED BY <3>1, SomeIn
  <2>4. \A t \in ToSet(c.pendReq) : y[t].comp = "idle"  BY <1>1, <2>1, <2>2, <2>3 DEF Composers
  <2>5. \A t \in Tx : y[t].comp \in OfBody => t \in HasBody
    <3>1. y[q].comp \notin OfBody  BY DEF OfBody
    <3> QED BY <1>1, <2>1, <3>1 DEF Composers
  <2>6. \A t \in Tx : y[t].comp \in Writing <=> z.writer = t
    <3>1. \A t \in Tx : t # q => y[t].comp \notin Writing  BY <2>1 DEF Silent, Writing
    <3>2. y[q].comp \in Writing  BY DEF Writing
    <3> QED BY <3>1, <3>2
  <2>7. y[q].comp \in Working /\ (PendingWrite(c) => ~y[q].hdr)
    <3>1. y[q].comp \in Working  BY DEF Working
    <3> QED BY <1>1, <3>1 DEF Composers, Alike
  <2> QED BY <2>1, <2>4, <2>5, <2>6, <2>7 DEF Composers
<1>12. Wire(c, y, z)
  <2>0. Given(q, y[q]) <=> q \notin HasBody  BY DEF Given
  <2>1. z.sent \subseteq ToSet(z.wire)  BY <1>1, <1>10 DEF Wire
  <2>2. ASSUME NEW t \in ToSet(z.wire) PROVE y[t].comp # "start" /\ (t \in z.sent <=> Given(t, y[t]))
    <3>1. CASE t = q
      <4>1. q \notin s.sent  BY <1>1, <1>9 DEF Wire
      <4> QED BY <2>0, <3>1, <4>1
    <3>2. CASE t # q
      <4>1. t \in ToSet(s.wire) /\ t \in Tx  BY <1>9, <1>10, <2>2, <3>2
      <4> QED BY <1>1, <3>2, <4>1 DEF Wire, Others
    <3> QED BY <3>1, <3>2
  <2>3. ASSUME NEW t \in Tx PROVE Given(t, y[t]) \/ y[t].comp = "start" \/ t \in ToSet(z.wire)
    <3>1. CASE t = q  BY <1>10, <3>1
    <3>2. CASE t # q
      <4>1. Given(t, x[t]) \/ x[t].comp = "start" \/ t \in ToSet(s.wire)  BY <1>1 DEF Wire
      <4> QED BY <1>10, <3>2, <4>1 DEF Others
    <3> QED BY <3>1, <3>2
  <2>4. ~z.hup  BY <1>1 DEF Wire
  <2> QED BY <1>10, <2>1, <2>2, <2>3, <2>4 DEF Wire
<1>13. Answers(c, y, z)
  <2> DEFINE a == HeadsIn(s.buf \o s.net)
             w == s.wire
             p == c.pendReq
  <2>1. a \in Seq(Tx) /\ w \in Seq(Tx) /\ p \in Seq(Tx)  BY AnswersAre, Types
  <2>2. Starting(c, x) = One(q)  BY <1>2 DEF Starting, One
  <2>3. Starting(c, y) = None0  BY DEF Starting, None0
  <2>4. Line(a, w, One(q), p) = Cat(Headless(c, x), c.pendResp)  BY <1>1, <2>2, AnswersLine
  <2> HIDE DEF a, w, p
  <2>5. Line(a, Append(w, q), None0, p) = Line(a, w, One(q), p)  BY <2>1, LineSent
  <2>6. Line(a, Append(w, q), None0, p) = Cat(Headless(c, y), c.pendResp)  BY <1>6, <2>4, <2>5
  <2>7. Line(HeadsIn(z.buf \o z.net), z.wire, Starting(c, y), c.pendReq) = Cat(Headless(c, y), c.pendResp)
    BY <2>3, <2>6 DEF a, w, p
  <2> QED BY <2>7, AnswersLine
<1> QED BY <1>1, <1>6, <1>8, <1>11, <1>12, <1>13 DEF Run, Loose

-----------------------------------------------------------------------------
(* The request is complete                                                 *)

\* No request is held back, or the first one on the connection is complete.
LEMMA RequestDone ==
  ASSUME NEW c, NEW x, NEW s, Typed(c, x, s), NEW h \in Tx \cup {None}, Run(c, x, s, h),
         NEW d, NEW y, NEW z, Typed(d, y, z), SamePlaces(c, d), d.pendReq = c.pendReq, ~PendingWrite(d),
         NEW q \in Tx, q = c.curReq, IF First(c) THEN d.curReq = q ELSE d.curReq = None /\ c.pendReq = <<>>,
         Others(x, y, q), Alike(x[q], y[q]), x[q].comp \in Working \ {"start"}, Given(q, x[q]), Silent(y[q]),
         z.writer = None, z.sent = s.sent, SameStreams(s, z)
  PROVE  Run(d, y, z, h)
<1>1. /\ c.state = "EConnected" /\ Queues(c, h) /\ Mode(c, h) /\ Parsers(c, x, h) /\ Composers(c, x, s)
      /\ Wire(c, x, s) /\ Answers(c, x, s) /\ Pieces(c, x, s) /\ Token(c, x, s, h)
  BY DEF Run, Loose
<1>2. q # None /\ ~Silent(x[q]) /\ Given(q, y[q])  BY ConstantsAssumption DEF Working, Silent, Given
<1>3. SameButComposer(x, y)  BY DEF SameButComposer, Others, Alike
<1>4. h # None => Silent(y[h])
  <2>1. h # None => h # q /\ h \in Tx /\ Silent(x[h])  BY <1>1, <1>2 DEF Parsers
  <2> QED BY <2>1 DEF Others
<1>5. c.curResp # None /\ Silent(x[c.curResp]) => Silent(y[c.curResp])
  <2>1. c.curResp # None => c.curResp \in Tx  BY Types
  <2> QED BY <1>2, <2>1 DEF Others
<1>6. /\ Parsers(d, y, h) /\ (h # None => Held(y[h]))
      /\ Headless(d, y) = Headless(c, x) /\ (Midway(d, y) <=> Midway(c, x))
      /\ Awaits(d) = Awaits(c)
  BY <1>3, <1>4, <1>5, ParsersSame DEF SamePlaces
<1>7. Token(d, y, z, h)  BY <1>1, <1>3, TokenSame DEF SamePlaces
<1>8. Pieces(d, y, z)
  <2>1. \A p \in ToSet(s.buf) \cup ToSet(s.net) : p.t \in Tx
    <3>1. s.buf \in Seq(Piece) /\ s.net \in Seq(Piece)  BY Types
    <3>2. ToSet(s.buf) \cup ToSet(s.net) \subseteq Piece  BY <3>1, SomeIn
    <3> QED BY <3>2 DEF Piece
  <2>2. \A p \in ToSet(s.buf) \cup ToSet(s.net) : Given(p.t, x[p.t]) => Given(p.t, y[p.t])
    BY <1>2, <2>1 DEF Others
  <2>3. \A p \in ToSet(s.buf) : Silent(x[p.t]) => Silent(y[p.t])  BY <1>2, <2>1 DEF Others
  <2> QED BY <1>3, <1>6, <2>2, <2>3, PiecesSame DEF SamePlaces
<1>9. Queues(d, h)  BY <1>1, <1>6 DEF Queues, SamePlaces, Alone
<1>10. Mode(d, h)
  <2>1. CASE First(c)  BY <1>1, <1>2, <2>1 DEF Mode, SamePlaces
  <2>2. CASE ~First(c)  BY <1>1, <2>2 DEF Mode, SamePlaces
  <2> QED BY <2>1, <2>2
<1>11. Composers(d, y, z)
  <2>1. \A t \in Tx : Silent(y[t])  BY <1>1 DEF Composers, Others
  <2>2. q \notin ToSet(c.pendReq)
    <3>1. \A t \in ToSet(c.pendReq) : Silent(x[t])  BY <1>1 DEF Composers, Silent
    <3> QED BY <1>2, <3>1
  <2>3. ToSet(c.pendReq) \subseteq Tx
    <3>1. c.pendReq \in Seq(Tx)  BY Types
    <3> QED BY <3>1, SomeIn
  <2>4. \A t \in ToSet(c.pendReq) : y[t].comp = "idle"  BY <1>1, <2>2, <2>3 DEF Composers, Others
  <2>5. \A t \in Tx : y[t].comp \notin OfBody /\ y[t].comp \notin Writing /\ z.writer # t
    BY <2>1, ConstantsAssumption DEF Silent, OfBody, Writing
  <2>6. d.curReq # None => First(d)  BY DEF SamePlaces
  <2> QED BY <2>1, <2>4, <2>5, <2>6 DEF Composers
<1>12. Wire(d, y, z)
  <2>1. z.wire = s.wire /\ z.hup = s.hup /\ d.nonPersistent = c.nonPersistent  BY DEF SameStreams, SamePlaces
  <2>2. ToSet(s.wire) \subseteq Tx
    <3>1. s.wire \in Seq(Tx)  BY Types
    <3> QED BY <3>1, SomeIn
  <2>3. \A t \in Tx : Given(t, x[t]) <=> Given(t, y[t])  BY <1>2 DEF Others
  <2>4. \A t \in Tx : y[t].comp # "start"
    <3>1. \A t \in Tx : Silent(y[t])  BY <1>1 DEF Composers, Others
    <3> QED BY <3>1 DEF Silent
  <2>5. \A t \in Tx : x[t].comp # "start"
    <3>1. \A t \in Tx : t # q => Silent(x[t])  BY <1>1 DEF Composers
    <3> QED BY <3>1 DEF Silent
  <2> QED BY <1>1, <2>1, <2>2, <2>3, <2>4, <2>5 DEF Wire
<1>13. Answers(d, y, z)
  <2>1. \A t \in Tx : Silent(y[t])  BY <1>1 DEF Composers, Others
  <2>2. y[q].comp # "start"  BY <2>1 DEF Silent
  <2>3. Starting(d, y) = None0 /\ Starting(c, x) = None0  BY <1>2, <2>2 DEF Starting, None0
  <2>4. d.pendReq = c.pendReq /\ d.pendResp = c.pendResp /\ z.buf = s.buf /\ z.net = s.net /\ z.wire = s.wire
    BY DEF SamePlaces, SameStreams
  <2> QED BY <1>1, <1>6, <2>3, <2>4 DEF Answers
<1>14. d.state = "EConnected"  BY <1>1 DEF SamePlaces
<1> QED BY <1>6, <1>7, <1>8, <1>9, <1>10, <1>11, <1>12, <1>13, <1>14 DEF Run, Loose

\* The next one starts.
LEMMA NextStarts ==
  ASSUME NEW c, NEW x, NEW s, Typed(c, x, s), NEW h \in Tx \cup {None}, Run(c, x, s, h),
         NEW d, NEW y, NEW z, Typed(d, y, z), SamePlaces(c, d), ~PendingWrite(d), ~First(c),
         c.pendReq # <<>>, NEW n \in Tx, n = Head(c.pendReq), d.curReq = n, d.pendReq = Tail(c.pendReq),
         NEW q \in Tx, q = c.curReq, \A u \in Tx : u # q /\ u # n => y[u] = x[u],
         Alike(x[q], y[q]), Alike(x[n], y[n]), y[n].comp = "start",
         x[q].comp \in Working \ {"start"}, Given(q, x[q]), Silent(y[q]),
         z.writer = None, z.sent = s.sent, SameStreams(s, z)
  PROVE  Run(d, y, z, h)
<1>1. /\ c.state = "EConnected" /\ Queues(c, h) /\ Mode(c, h) /\ Parsers(c, x, h) /\ Composers(c, x, s)
      /\ Wire(c, x, s) /\ Answers(c, x, s) /\ Pieces(c, x, s) /\ Token(c, x, s, h)
  BY DEF Run, Loose
<1>2. q # None /\ n # None /\ ~Silent(x[q]) /\ Given(q, y[q])
  BY ConstantsAssumption DEF Working, Silent, Given
<1>2a. PICK b \in Seq(Tx) : /\ b = c.pendReq /\ b # <<>> /\ IsInjective(b) /\ ToSet(b) \subseteq Tx
                            /\ \A t \in ToSet(b) : x[t].comp = "idle"
                            /\ ToSet(b) \subseteq ToSet(c.pendResp)
  <2>1. c.pendReq \in Seq(Tx)  BY Types
  <2>2. ToSet(c.pendReq) \subseteq Tx  BY <2>1, SomeIn
  <2> QED BY <1>1, <2>1, <2>2 DEF Queues, Composers
<1>2b. /\ n \in ToSet(b) /\ Tail(b) \in Seq(Tx) /\ ToSet(b) = {n} \cup ToSet(Tail(b))
       /\ IsInjective(Tail(b)) /\ n \notin ToSet(Tail(b)) /\ n = Head(b)
  BY <1>2a, HeadAndTail
<1>2c. n # q /\ x[n].comp = "idle" /\ n \in ToSet(c.pendResp) /\ n # c.curResp /\ n # h
  <2>1. x[n].comp = "idle" /\ n \in ToSet(c.pendResp)  BY <1>2a, <1>2b
  <2>2. n # q  BY <1>2, <2>1 DEF Silent
  <2>3. n \in Awaits(c)  BY <2>1 DEF Awaits
  <2> QED BY <1>1, <2>1, <2>2, <2>3 DEF Queues
<1>3. SameButComposer(x, y)  BY DEF SameButComposer, Alike
<1>4. h # None => Silent(y[h])
  <2>1. h # None => h # q /\ h \in Tx /\ Silent(x[h])  BY <1>1, <1>2 DEF Parsers
  <2> QED BY <1>2c, <2>1
<1>5. c.curResp # None /\ Silent(x[c.curResp]) => Silent(y[c.curResp])
  <2>1. c.curResp # None => c.curResp \in Tx  BY Types
  <2> QED BY <1>2, <1>2c, <2>1
<1>6. /\ Parsers(d, y, h) /\ (h # None => Held(y[h]))
      /\ Headless(d, y) = Headless(c, x) /\ (Midway(d, y) <=> Midway(c, x))
      /\ Awaits(d) = Awaits(c)
  BY <1>3, <1>4, <1>5, ParsersSame DEF SamePlaces
<1>7. Token(d, y, z, h)  BY <1>1, <1>3, TokenSame DEF SamePlaces
<1>7a. /\ \A p \in ToSet(s.buf) \cup ToSet(s.net) : p.t \in Tx /\ p.t # n
       /\ n \notin ToSet(s.wire)
  <2> DEFINE R == ToSet(Headless(c, x) \o c.pendResp)
  <2>1. /\ \A p \in ToSet(s.buf) \cup ToSet(s.net) :
              /\ p \in Piece /\ p.t \in Awaits(c) /\ p.t \notin ToSet(c.pendReq) \cup ToSet(s.wire)
              /\ p.t \in R \/ (Midway(c, x) /\ p.t = c.curResp)
        /\ ToSet(s.wire) \subseteq R /\ ToSet(c.pendReq) \subseteq R
        /\ ToSet(s.wire) \cap ToSet(c.pendReq) = {}
        /\ ToSet(Starting(c, x)) \subseteq R
    BY <1>1, Owners
  <2> HIDE DEF R
  <2> QED BY <1>2a, <1>2b, <2>1 DEF Piece
<1>8. Pieces(d, y, z)
  <2>2. \A p \in ToSet(s.buf) \cup ToSet(s.net) : Given(p.t, x[p.t]) => Given(p.t, y[p.t])
    BY <1>2, <1>7a
  <2>3. \A p \in ToSet(s.buf) : Silent(x[p.t]) => Silent(y[p.t])  BY <1>2, <1>7a
  <2> QED BY <1>3, <1>6, <2>2, <2>3, PiecesSame DEF SamePlaces
<1>9. Queues(d, h)
  <2>1. d.pendReq = Tail(b)  BY <1>2a
  <2>2. ToSet(Tail(b)) \subseteq ToSet(c.pendResp)  BY <1>2a, <1>2b
  <2>3. ~c.nonPersistent  BY <1>1, <1>2a DEF Queues, Alone
  <2> QED BY <1>1, <1>2b, <1>6, <2>1, <2>2, <2>3 DEF Queues, SamePlaces, Alone
<1>10. Mode(d, h)
  <2>1. n \in Awaits(d) \ ToSet(d.pendReq)  BY <1>2a, <1>2b, <1>2c, <1>6 DEF Awaits
  <2>2. ~First(d) /\ d.curReq # None  BY <1>2 DEF SamePlaces
  <2>3. c.curResp # None
    <3>1. c.pendResp # <<>>  BY <1>2c, NoneIn
    <3> QED BY <1>1, <3>1 DEF Mode
  <2> QED BY <2>1, <2>2, <2>3 DEF Mode, SamePlaces
<1>11. Composers(d, y, z)
  <2>1. \A t \in Tx : t # n => Silent(y[t])  BY <1>1 DEF Composers
  <2>2. q \notin ToSet(b)
    <3>1. \A t \in ToSet(b) : Silent(x[t])  BY <1>2a DEF Silent
    <3> QED BY <1>2, <3>1
  <2>4. \A t \in ToSet(Tail(b)) : y[t].comp = "idle"  BY <1>2a, <1>2b, <2>2
  <2>5. \A t \in Tx : y[t].comp \notin OfBody /\ y[t].comp \notin Writing /\ z.writer # t
    <3>1. \A t \in Tx : y[t].comp \in {"idle", "sent", "start"}  BY <2>1 DEF Silent
    <3> QED BY <3>1, ConstantsAssumption DEF OfBody, Writing
  <2>6. y[n].comp \in Working  BY DEF Working
  <2> QED BY <1>2a, <2>1, <2>4, <2>5, <2>6 DEF Composers
<1>12. Wire(d, y, z)
  <2>1. z.wire = s.wire /\ z.hup = s.hup /\ d.nonPersistent = c.nonPersistent  BY DEF SameStreams, SamePlaces
  <2>2. ToSet(s.wire) \subseteq Tx
    <3>1. s.wire \in Seq(Tx)  BY Types
    <3> QED BY <3>1, SomeIn
  <2>3. \A t \in Tx : t # n => (Given(t, x[t]) <=> Given(t, y[t]))  BY <1>2
  <2>4. \A t \in Tx : t # n => y[t].comp # "start"
    <3>1. \A t \in Tx : t # n => Silent(y[t])  BY <1>1 DEF Composers
    <3> QED BY <3>1 DEF Silent
  <2>5. \A t \in Tx : x[t].comp # "start"
    <3>1. \A t \in Tx : t # q => Silent(x[t])  BY <1>1 DEF Composers
    <3> QED BY <3>1 DEF Silent
  <2>6. ~s.hup  BY <1>1, <1>2a DEF Wire, Queues, Alone
  <2>7. IsInjective(s.wire) /\ s.sent \subseteq ToSet(s.wire)  BY <1>1 DEF Wire
  <2>8. \A t \in ToSet(s.wire) : t \in Tx /\ t # n /\ (t \in s.sent <=> Given(t, x[t]))
    BY <1>1, <1>7a, <2>2 DEF Wire
  <2>9. \A t \in Tx : Given(t, x[t]) \/ t \in ToSet(s.wire)  BY <1>1, <2>5 DEF Wire
  <2>10. \A t \in Tx : Given(t, y[t]) \/ y[t].comp = "start" \/ t \in ToSet(s.wire)
    BY <2>3, <2>9
  <2>11. \A t \in ToSet(s.wire) : y[t].comp # "start" /\ (t \in s.sent <=> Given(t, y[t]))
    BY <2>3, <2>4, <2>8
  <2> QED BY <2>1, <2>6, <2>7, <2>10, <2>11 DEF Wire
<1>13. Answers(d, y, z)
  <2> DEFINE a == HeadsIn(s.buf \o s.net)
             w == s.wire
  <2>1. a \in Seq(Tx) /\ w \in Seq(Tx) /\ b # None0  BY <1>2a, AnswersAre, Types DEF None0
  <2>2. Starting(c, x) = None0  BY <1>2 DEF Starting, None0
  <2>3. Starting(d, y) = One(n)  BY <1>2 DEF Starting, One
  <2>4. Line(a, w, None0, b) = Cat(Headless(c, x), c.pendResp)  BY <1>1, <1>2a, <2>2, AnswersLine
  <2> HIDE DEF a, w
  <2>5. Line(a, w, One(Head(b)), Tail(b)) = Line(a, w, None0, b)  BY <2>1, LineNext
  <2>6. Line(a, w, One(n), Tail(b)) = Cat(Headless(d, y), d.pendResp)
    BY <1>2b, <1>6, <2>4, <2>5 DEF SamePlaces
  <2>7. Line(HeadsIn(z.buf \o z.net), z.wire, Starting(d, y), d.pendReq) = Cat(Headless(d, y), d.pendResp)
    BY <1>2a, <2>3, <2>6 DEF a, w, SameStreams
  <2> QED BY <2>7, AnswersLine
<1>14. d.state = "EConnected"  BY <1>1 DEF SamePlaces
<1> QED BY <1>6, <1>7, <1>8, <1>9, <1>10, <1>11, <1>12, <1>13, <1>14 DEF Run, Loose

-----------------------------------------------------------------------------
(* The events of the composer and of the output stream                     *)

\* Whose composer is at work.
LEMMA AtWork ==
  ASSUME NEW c, NEW x, NEW s, Typed(c, x, s), Fit(c, x, s), NEW t \in Tx, ~Silent(x[t])
  PROVE  \E h \in Tx \cup {None} :
           /\ Run(c, x, s, h) /\ t = c.curReq /\ x[t].comp \in Working /\ c.state = "EConnected"
           /\ PendingWrite(c) => x[t].comp \in {"start", "headers"}
           /\ s.writer = IF x[t].comp \in Writing THEN t ELSE None
<1>1. ~Rest(c, x, s)  BY DEF Rest
<1>2. ~Make(c, x, s)
  <2> SUFFICES ASSUME Make(c, x, s) PROVE FALSE  OBVIOUS
  <2>1. CASE t \in Awaits(c)  BY <2>1 DEF Make, Silent
  <2>2. CASE t \notin Awaits(c)  BY <2>2 DEF Make
  <2> QED BY <2>1, <2>2
<1>3. PICK h \in Tx \cup {None} : Run(c, x, s, h)  BY <1>1, <1>2 DEF Fit
<1>4. Composers(c, x, s) /\ c.state = "EConnected"  BY <1>3 DEF Run, Loose
<1>5. t = c.curReq  BY <1>4 DEF Composers
<1>6. x[t].comp \in Working
  <2>1. x[t].comp \in ComposerStates  BY Types DEF Transaction
  <2> QED BY <2>1 DEF Working, ComposerStates, Silent
<1>7. s.writer = IF x[t].comp \in Writing THEN t ELSE None
  <2>1. s.writer \in Tx \cup {None} /\ None \notin Tx  BY Types
  <2>2. \A u \in Tx : u # t => x[u].comp \notin Writing  BY <1>4, <1>5 DEF Composers, Silent, Writing
  <2> QED BY <1>4, <2>1, <2>2 DEF Composers
<1> QED BY <1>3, <1>4, <1>5, <1>6, <1>7 DEF Composers

\* What is sound stays so when only composers move.
LEMMA SoundAfter ==
  ASSUME NEW w, Sound(w), NEW v, v.panic = w.panic, "EDiscardSndDataCnf" \notin v.cm.flags,
         SameButComposer(w.tx, v.tx)
  PROVE  Sound(v)
<1>1. \A t \in Tx : Tame(w.tx[t], v.tx[t])  BY DEF SameButComposer, Tame, Alike
<1> QED BY <1>1, TameSound

\* The composer goes on: in the world.
LEMMA MovesSorted ==
  ASSUME NEW w \in World, Sound(w), NEW h \in Tx \cup {None}, Run(w.cm, w.tx, w.sock, h),
         NEW u \in World, u.panic = w.panic, "EDiscardSndDataCnf" \notin u.cm.flags,
         SamePlaces(w.cm, u.cm), u.cm.curReq = w.cm.curReq, u.cm.pendReq = w.cm.pendReq,
         ~PendingWrite(u.cm), NEW q \in Tx, q = w.cm.curReq, Others(w.tx, u.tx, q),
         Alike(w.tx[q], u.tx[q]),
         w.tx[q].comp \in Working \ {"start"}, u.tx[q].comp \in Working \ {"start"},
         u.tx[q].comp \in OfBody => q \in HasBody,
         u.sock.writer = IF u.tx[q].comp \in Writing THEN q ELSE None,
         Given(q, w.tx[q]) => Given(q, u.tx[q]),
         u.sock.sent = IF Given(q, u.tx[q]) /\ q \in ToSet(w.sock.wire) THEN w.sock.sent \cup {q} ELSE w.sock.sent,
         SameStreams(w.sock, u.sock)
  PROVE  Sorted(u)
<1>1. Typed(w.cm, w.tx, w.sock) /\ Typed(u.cm, u.tx, u.sock)  BY DEF Typed, World
<1>2. Run(u.cm, u.tx, u.sock, h)  BY <1>1, CompMoves
<1>3. Sound(u)
  <2>1. SameButComposer(w.tx, u.tx)  BY DEF SameButComposer, Others, Alike
  <2> QED BY <2>1, SoundAfter
<1> QED BY <1>2, <1>3, RunSorted

\* The output stream, and what the server has.
Writes(w, t) == [w EXCEPT !.sock.writer = t]
\* Writes gives the output stream to a transaction and changes nothing else.
LEMMA WritesIs ==
  ASSUME NEW w \in World, NEW t \in Tx \cup {None}
  PROVE  LET v == Writes(w, t) IN
         /\ v \in World /\ v.cm = w.cm /\ v.tx = w.tx /\ v.panic = w.panic
         /\ v.sock.writer = t /\ SameStreams(w.sock, v.sock) /\ v.sock.sent = w.sock.sent
         /\ v.sock.open = w.sock.open
  BY DEF Writes, World, Socket, SameStreams
Serves(w, line, given) == [w EXCEPT !.sock.wire = line, !.sock.sent = given]
\* Serves changes what the server has received and nothing else.
LEMMA ServesIs ==
  ASSUME NEW w \in World, NEW line \in Seq(Tx), NEW given \in SUBSET Tx
  PROVE  LET v == Serves(w, line, given) IN
         /\ v \in World /\ v.cm = w.cm /\ v.tx = w.tx /\ v.panic = w.panic
         /\ v.sock.writer = w.sock.writer /\ v.sock.wire = line /\ v.sock.sent = given
         /\ v.sock.buf = w.sock.buf /\ v.sock.net = w.sock.net /\ v.sock.hup = w.sock.hup
         /\ v.sock.reader = w.sock.reader
<1> DEFINE w1 == [w EXCEPT !.sock.wire = line]
           v == [w1 EXCEPT !.sock.sent = given]
<1>1. Serves(w, line, given) = v  BY DEF Serves
<1>2. /\ w1 \in World /\ w1.cm = w.cm /\ w1.tx = w.tx /\ w1.panic = w.panic
      /\ w1.sock.writer = w.sock.writer /\ w1.sock.wire = line
      /\ w1.sock.buf = w.sock.buf /\ w1.sock.net = w.sock.net /\ w1.sock.hup = w.sock.hup
      /\ w1.sock.reader = w.sock.reader
  BY DEF World, Socket
<1> HIDE DEF w1
<1>3. /\ v \in World /\ v.cm = w1.cm /\ v.tx = w1.tx /\ v.panic = w1.panic
      /\ v.sock.writer = w1.sock.writer /\ v.sock.wire = w1.sock.wire /\ v.sock.sent = given
      /\ v.sock.buf = w1.sock.buf /\ v.sock.net = w1.sock.net /\ v.sock.hup = w1.sock.hup
      /\ v.sock.reader = w1.sock.reader
  BY <1>2 DEF World, Socket
<1> QED BY <1>1, <1>2, <1>3

\* Contains asks whether a queue has an element.
LEMMA ContainsIs == ASSUME NEW T, NEW s \in Seq(T), NEW e PROVE Contains(s, e) <=> e \in ToSet(s)
<1>1. DOMAIN s = 1 .. Len(s)  BY LenProperties
<1> QED BY <1>1 DEF Contains, ToSet

\* The flag is cleared.
LEMMA NoPendingWriteIs ==
  ASSUME NEW w \in World
  PROVE  LET v == NoPendingWrite(w) IN
         /\ v \in World /\ v.tx = w.tx /\ v.sock = w.sock /\ v.panic = w.panic
         /\ v.cm.flags = w.cm.flags \ {"EPendingWriteInConnectedState"}
         /\ SamePlaces(w.cm, v.cm) /\ v.cm.curReq = w.cm.curReq /\ v.cm.pendReq = w.cm.pendReq
<1> DEFINE v == NoPendingWrite(w)
<1>1. /\ v.cm = [w.cm EXCEPT !.flags = @ \ {"EPendingWriteInConnectedState"}]
      /\ v.tx = w.tx /\ v.sock = w.sock /\ v.panic = w.panic /\ v \in World
  BY DEF NoPendingWrite, World, Manager
<1> HIDE DEF v
<1>2. /\ v.cm.flags = w.cm.flags \ {"EPendingWriteInConnectedState"}
      /\ v.cm.curReq = w.cm.curReq /\ v.cm.pendReq = w.cm.pendReq
      /\ v.cm.state = w.cm.state /\ v.cm.curResp = w.cm.curResp /\ v.cm.pendResp = w.cm.pendResp
      /\ v.cm.excess = w.cm.excess /\ v.cm.nonPersistent = w.cm.nonPersistent
  BY <1>1 DEF World, Manager
<1>3. SamePlaces(w.cm, v.cm)  BY <1>2 DEF SamePlaces, First
<1> QED BY <1>1, <1>2, <1>3 DEF v

\* NotifyNewRequestBodyPart.
LEMMA BodyPartOrder ==
  ASSUME Ordered(world), Good(world)', NEW t \in Tx, NotifyNewRequestBodyPart(t) PROVE Ordered(world)'
<1> DEFINE u == Composer(world, t, "last")
<1>1. Becomes(u) /\ tx[t].comp = "wanted"  BY DEF NotifyNewRequestBodyPart, Composer
<1>2. /\ world \in World /\ Sound(world) /\ Fit(cm, tx, sock) /\ Typed(cm, tx, sock)
      /\ world.cm = cm /\ world.tx = tx /\ world.sock = sock /\ world.panic = panic
  BY OrderedIs
<1>3. PICK h \in Tx \cup {None} :
           /\ Run(cm, tx, sock, h) /\ t = cm.curReq
           /\ PendingWrite(cm) => tx[t].comp \in {"start", "headers"}
           /\ sock.writer = IF tx[t].comp \in Writing THEN t ELSE None
  BY <1>1, <1>2, AtWork DEF Silent
<1>4. "last" \in ComposerStates  BY DEF ComposerStates
<1>5. /\ u \in World /\ u.cm = cm /\ u.sock = sock /\ u.panic = panic
      /\ \A r \in Tx : r # t => u.tx[r] = tx[r]
      /\ u.tx[t].comp = "last" /\ Alike(tx[t], u.tx[t])
  BY <1>2, <1>4, ComposerIs
<1> HIDE DEF u
<1>6. ~PendingWrite(u.cm) /\ sock.writer = None  BY <1>1, <1>3, <1>5 DEF Writing
<1>7. t \in HasBody
  <2>1. Composers(cm, tx, sock)  BY <1>3 DEF Run, Loose
  <2> QED BY <1>1, <2>1 DEF Composers, OfBody
<1>8. SamePlaces(cm, u.cm) /\ SameStreams(sock, u.sock) /\ Others(tx, u.tx, t)
  BY <1>5 DEF SamePlaces, SameStreams, Others
<1>9. ~Given(t, u.tx[t]) /\ ~Given(t, tx[t]) /\ u.tx[t].comp \notin Writing
      /\ u.tx[t].comp \in Working \ {"start"} /\ tx[t].comp \in Working \ {"start"}
  BY <1>1, <1>5 DEF Given, Writing, Working
<1>10. "EDiscardSndDataCnf" \notin u.cm.flags  BY <1>2, <1>5 DEF Sound
<1>11. Sorted(u)
  <2> DEFINE w == world
  <2>1. w \in World /\ Sound(w) /\ w.cm = cm /\ w.tx = tx /\ w.sock = sock /\ w.panic = panic  BY <1>2
  <2> HIDE DEF w
  <2> QED BY <1>3, <1>5, <1>6, <1>7, <1>8, <1>9, <1>10, <2>1, MovesSorted
<1> QED BY <1>1, <1>11, BecomesOrdered

\* RequestComplete.
LEMMA RequestCompleteIs ==
  ASSUME NEW w \in World, w.cm.state = "EConnected",
         \A t \in ToSet(w.cm.pendReq) : w.tx[t].comp = "idle"
  PROVE  LET v == RequestComplete(w) IN
         /\ v \in World /\ v.sock = w.sock /\ v.panic = w.panic /\ v.cm.flags = w.cm.flags
         /\ SamePlaces(w.cm, v.cm) /\ SameButComposer(w.tx, v.tx)
         /\ First(w.cm) \/ w.cm.pendReq = <<>> =>
              /\ v.tx = w.tx /\ v.cm.pendReq = w.cm.pendReq
              /\ v.cm.curReq = IF First(w.cm) THEN w.cm.curReq ELSE None
         /\ ~First(w.cm) /\ w.cm.pendReq # <<>> =>
              \E n \in Tx : /\ n = Head(w.cm.pendReq) /\ v.cm.curReq = n /\ v.cm.pendReq = Tail(w.cm.pendReq)
                            /\ \A u \in Tx : u # n => v.tx[u] = w.tx[u]
                            /\ v.tx[n].comp = "start" /\ Alike(w.tx[n], v.tx[n])
<1> DEFINE v == RequestComplete(w)
<1>0. SameButComposer(w.tx, w.tx)  BY DEF SameButComposer, Alike
<1>1. CASE First(w.cm)
  <2>1. v = w  BY <1>1 DEF RequestComplete, First
  <2> QED BY <1>0, <1>1, <2>1 DEF SamePlaces
<1>2. CASE ~First(w.cm) /\ w.cm.pendReq = <<>>
  <2> DEFINE z == [w EXCEPT !.cm.curReq = None]
  <2>1. v = z  BY <1>2 DEF RequestComplete, First
  <2>2. /\ z.cm = [w.cm EXCEPT !.curReq = None] /\ z.tx = w.tx /\ z.sock = w.sock /\ z.panic = w.panic
        /\ z \in World
    BY DEF World, Manager
  <2> HIDE DEF z
  <2>3. /\ z.cm.flags = w.cm.flags /\ z.cm.curReq = None /\ z.cm.pendReq = w.cm.pendReq
        /\ z.cm.state = w.cm.state /\ z.cm.curResp = w.cm.curResp /\ z.cm.pendResp = w.cm.pendResp
        /\ z.cm.excess = w.cm.excess /\ z.cm.nonPersistent = w.cm.nonPersistent
    BY <2>2 DEF World, Manager
  <2>4. SamePlaces(w.cm, z.cm)  BY <2>3 DEF SamePlaces, First
  <2> HIDE DEF v
  <2> QED BY <1>0, <1>2, <2>1, <2>2, <2>3, <2>4 DEF v
<1>3. CASE ~First(w.cm) /\ w.cm.pendReq # <<>>
  <2>1. w.cm.pendReq \in Seq(Tx)  BY DEF World, Manager
  <2>2. PICK n \in Tx, d \in Seq(Tx) : /\ n = Head(w.cm.pendReq) /\ d = Tail(w.cm.pendReq)
                                       /\ n \in ToSet(w.cm.pendReq)
    <3>1. PICK b \in Seq(Tx) : b = w.cm.pendReq /\ b # <<>>  BY <1>3, <2>1
    <3>2. Head(b) \in Tx /\ Head(b) \in ToSet(b) /\ Tail(b) \in Seq(Tx)  BY <3>1, HeadAndTail
    <3> QED BY <3>1, <3>2
  <2> DEFINE w1 == [w EXCEPT !.cm.curReq = Head(w.cm.pendReq), !.cm.pendReq = Tail(@)]
  <2>3. v = StartRequest(w1)  BY <1>3 DEF RequestComplete, First
  <2> DEFINE w2 == [w EXCEPT !.cm.curReq = n, !.cm.pendReq = d]
  <2>4. w1 = w2  BY <2>2 DEF World, Manager
  <2>5. /\ w2.cm = [w.cm EXCEPT !.curReq = n, !.pendReq = d]
        /\ w2.tx = w.tx /\ w2.sock = w.sock /\ w2.panic = w.panic
    BY DEF World, Manager
  <2>5a. w2 \in World  BY <2>2 DEF World, Manager
  <2> HIDE DEF w1, w2
  <2>6. /\ w2.cm.flags = w.cm.flags /\ w2.cm.curReq = n /\ w2.cm.pendReq = d
        /\ w2.cm.state = w.cm.state /\ w2.cm.curResp = w.cm.curResp /\ w2.cm.pendResp = w.cm.pendResp
        /\ w2.cm.excess = w.cm.excess /\ w2.cm.nonPersistent = w.cm.nonPersistent
    BY <2>5 DEF World, Manager
  <2>7. w2.cm.curReq \in Tx /\ w2.tx[w2.cm.curReq].comp = "idle"  BY <2>2, <2>5, <2>6
  <2> DEFINE z == StartRequest(w2)
  <2>8. /\ z \in World /\ z.cm = w2.cm /\ z.sock = w2.sock /\ z.panic = w2.panic
        /\ \A u \in Tx : u # w2.cm.curReq => z.tx[u] = w2.tx[u]
        /\ z.tx[w2.cm.curReq].comp = "start" /\ Alike(w2.tx[w2.cm.curReq], z.tx[w2.cm.curReq])
    BY <2>5a, <2>7, StartIs
  <2> HIDE DEF z
  <2>9. SamePlaces(w.cm, z.cm)  BY <2>6, <2>8 DEF SamePlaces, First
  <2>10. SameButComposer(w.tx, z.tx)  BY <2>5, <2>8 DEF SameButComposer, Alike
  <2>11. v = z  BY <2>3, <2>4 DEF z
  <2>12. \A u \in Tx : u # n => z.tx[u] = w.tx[u]  BY <2>5, <2>6, <2>8
  <2>13. z.tx[n].comp = "start" /\ Alike(w.tx[n], z.tx[n])  BY <2>5, <2>6, <2>8
  <2>14. z.cm.curReq = n /\ z.cm.pendReq = Tail(w.cm.pendReq)  BY <2>2, <2>6, <2>8
  <2>15. /\ z \in World /\ z.sock = w.sock /\ z.panic = w.panic /\ z.cm.flags = w.cm.flags
    BY <2>5, <2>6, <2>8
  <2>16. \E m \in Tx : /\ m = Head(w.cm.pendReq) /\ z.cm.curReq = m /\ z.cm.pendReq = Tail(w.cm.pendReq)
                       /\ \A u \in Tx : u # m => z.tx[u] = w.tx[u]
                       /\ z.tx[m].comp = "start" /\ Alike(w.tx[m], z.tx[m])
    BY <2>2, <2>12, <2>13, <2>14
  <2> HIDE DEF v
  <2>17. ~(First(w.cm) \/ w.cm.pendReq = <<>>)  BY <1>3
  <2> QED BY <1>3, <2>9, <2>10, <2>11, <2>15, <2>16, <2>17 DEF v
<1> QED BY <1>1, <1>2, <1>3

\* The composer of the current request has done, in the world u of RequestComplete.
LEMMA DoneSorted ==
  ASSUME NEW w \in World, Sound(w), NEW s, Typed(w.cm, w.tx, s), NEW h \in Tx \cup {None},
         Run(w.cm, w.tx, s, h), SameStreams(s, w.sock), w.sock.writer = None, w.sock.sent = s.sent,
         NEW q \in Tx, q = w.cm.curReq, w.tx[q].comp \in Working \ {"start"}, Given(q, w.tx[q]),
         NEW k \in {"idle", "sent"}, NEW u \in World,
         LET v == Composer(RequestComplete(w), q, k) IN
           /\ u.tx = v.tx /\ u.sock = v.sock /\ u.panic = v.panic /\ SamePlaces(v.cm, u.cm)
           /\ u.cm.curReq = v.cm.curReq /\ u.cm.pendReq = v.cm.pendReq /\ u.cm.flags \subseteq v.cm.flags,
         ~PendingWrite(u.cm)
  PROVE  Sorted(u)
<1> DEFINE c == w.cm
           r == RequestComplete(w)
           v == Composer(r, q, k)
<1>1. c.state = "EConnected" /\ Composers(c, w.tx, s) /\ q # None
  BY ConstantsAssumption DEF Run, Loose
<1>2. /\ r \in World /\ r.sock = w.sock /\ r.panic = w.panic /\ r.cm.flags = c.flags
      /\ SamePlaces(c, r.cm) /\ SameButComposer(w.tx, r.tx)
      /\ First(c) \/ c.pendReq = <<>> =>
              /\ r.tx = w.tx /\ r.cm.pendReq = c.pendReq
              /\ r.cm.curReq = IF First(c) THEN c.curReq ELSE None
      /\ ~First(c) /\ c.pendReq # <<>> =>
              \E n \in Tx : /\ n = Head(c.pendReq) /\ r.cm.curReq = n /\ r.cm.pendReq = Tail(c.pendReq)
                            /\ \A t \in Tx : t # n => r.tx[t] = w.tx[t]
                            /\ r.tx[n].comp = "start" /\ Alike(w.tx[n], r.tx[n])
  <2>1. \A t \in ToSet(w.cm.pendReq) : w.tx[t].comp = "idle"  BY <1>1 DEF Composers
  <2> QED BY <1>1, <2>1, RequestCompleteIs
<1> HIDE DEF r
<1>3. k \in ComposerStates  BY DEF ComposerStates
<1>4. /\ v \in World /\ v.cm = r.cm /\ v.sock = r.sock /\ v.panic = r.panic
      /\ \A t \in Tx : t # q => v.tx[t] = r.tx[t]
      /\ v.tx[q].comp = k /\ Alike(r.tx[q], v.tx[q])
  BY <1>2, <1>3, ComposerIs
<1>5. /\ u.tx = v.tx /\ u.sock = v.sock /\ u.panic = v.panic /\ SamePlaces(v.cm, u.cm)
      /\ u.cm.curReq = v.cm.curReq /\ u.cm.pendReq = v.cm.pendReq /\ u.cm.flags \subseteq v.cm.flags
  BY DEF r
<1> HIDE DEF v
<1>6. SamePlaces(c, u.cm)  BY <1>2, <1>4, <1>5 DEF SamePlaces
<1>7. Alike(w.tx[q], u.tx[q]) /\ Silent(u.tx[q])
  <2>1. Alike(w.tx[q], r.tx[q])  BY <1>2 DEF SameButComposer
  <2> QED BY <1>4, <1>5, <2>1 DEF Alike, Silent
<1>8. Sound(u)
  <2>1. SameButComposer(w.tx, u.tx)
    <3> SUFFICES ASSUME NEW t \in Tx PROVE Alike(w.tx[t], u.tx[t])  BY DEF SameButComposer
    <3> QED BY <1>2, <1>4, <1>5, <1>7 DEF SameButComposer
  <2>2. u.panic = w.panic /\ "EDiscardSndDataCnf" \notin u.cm.flags  BY <1>2, <1>4, <1>5 DEF Sound
  <2> QED BY <2>1, <2>2, SoundAfter
<1>9. u.sock = w.sock /\ Typed(u.cm, u.tx, u.sock)  BY <1>2, <1>4, <1>5 DEF Typed, World
<1>10. CASE First(c) \/ c.pendReq = <<>>
  <2>1. u.cm.pendReq = c.pendReq /\ Others(w.tx, u.tx, q)
    BY <1>2, <1>4, <1>5, <1>10 DEF Others
  <2>2. IF First(c) THEN u.cm.curReq = q ELSE u.cm.curReq = None /\ c.pendReq = <<>>
    BY <1>2, <1>4, <1>5, <1>10
  <2>3. Run(u.cm, u.tx, u.sock, h)
    <3> DEFINE x == w.tx
    <3>1. /\ Typed(c, x, s) /\ Run(c, x, s, h) /\ q = c.curReq /\ Others(x, u.tx, q) /\ Alike(x[q], u.tx[q])
          /\ x[q].comp \in Working \ {"start"} /\ Given(q, x[q])
      BY <1>7, <2>1
    <3>2. u.sock.writer = None /\ u.sock.sent = s.sent /\ SameStreams(s, u.sock)  BY <1>9
    <3> HIDE DEF c, x
    <3> QED BY <1>6, <1>7, <1>9, <2>1, <2>2, <3>1, <3>2, RequestDone
  <2> QED BY <1>8, <2>3, RunSorted
<1>11. CASE ~First(c) /\ c.pendReq # <<>>
  <2>1. PICK n \in Tx : /\ n = Head(c.pendReq) /\ r.cm.curReq = n /\ r.cm.pendReq = Tail(c.pendReq)
                        /\ \A t \in Tx : t # n => r.tx[t] = w.tx[t]
                        /\ r.tx[n].comp = "start" /\ Alike(w.tx[n], r.tx[n])
    BY <1>2, <1>11
  <2>2. n # q
    <3>1. c.pendReq \in Seq(Tx)  BY DEF World, Manager
    <3>2. n \in ToSet(c.pendReq)  BY <1>11, <2>1, <3>1, HeadAndTail
    <3>3. w.tx[n].comp = "idle"  BY <1>1, <3>2 DEF Composers
    <3> QED BY <3>3 DEF Working
  <2>3. /\ u.cm.curReq = n /\ u.cm.pendReq = Tail(c.pendReq)
        /\ \A t \in Tx : t # q /\ t # n => u.tx[t] = w.tx[t]
        /\ u.tx[n].comp = "start" /\ Alike(w.tx[n], u.tx[n])
    BY <1>4, <1>5, <2>1, <2>2
  <2>4. Run(u.cm, u.tx, u.sock, h)
    <3> DEFINE x == w.tx
    <3>1. /\ Typed(c, x, s) /\ Run(c, x, s, h) /\ q = c.curReq /\ Alike(x[q], u.tx[q])
          /\ \A t \in Tx : t # q /\ t # n => u.tx[t] = x[t]
          /\ x[q].comp \in Working \ {"start"} /\ Given(q, x[q]) /\ Alike(x[n], u.tx[n])
      BY <1>7, <2>3
    <3>2. u.sock.writer = None /\ u.sock.sent = s.sent /\ SameStreams(s, u.sock)  BY <1>9
    <3> HIDE DEF c, x
    <3> QED BY <1>6, <1>7, <1>9, <1>11, <2>1, <2>3, <3>1, <3>2, NextStarts
  <2> QED BY <1>8, <2>4, RunSorted
<1> QED BY <1>10, <1>11

\* SendRequestDataL, when the connection can send.
LEMMA SendIs ==
  ASSUME NEW w \in World, NEW t \in Tx, w.cm.state = "EConnected", w.sock.writer = None
  PROVE  SendRequestDataL(w, t) = Writes(w, t)
  BY DEF SendRequestDataL, Writes

\* The composer hands over a buffer.
LEMMA HandOverIs ==
  ASSUME NEW w \in World, NEW t \in Tx, w.cm.state = "EConnected", w.sock.writer = None,
         NEW k \in ComposerStates
  PROVE  LET v == SendRequestDataL([w EXCEPT !.tx[t].comp = k], t) IN
         /\ v \in World /\ v.cm = w.cm /\ v.panic = w.panic
         /\ Others(w.tx, v.tx, t) /\ v.tx[t].comp = k /\ Alike(w.tx[t], v.tx[t])
         /\ v.sock.writer = t /\ SameStreams(w.sock, v.sock) /\ v.sock.sent = w.sock.sent
<1> DEFINE u == Composer(w, t, k)
           v == Writes(u, t)
<1>1. /\ u \in World /\ u.cm = w.cm /\ u.sock = w.sock /\ u.panic = w.panic
      /\ \A r \in Tx : r # t => u.tx[r] = w.tx[r]
      /\ u.tx[t].comp = k /\ Alike(w.tx[t], u.tx[t])
  BY ComposerIs
<1>2. u = [w EXCEPT !.tx[t].comp = k]  BY DEF Composer
<1> HIDE DEF u
<1>3. SendRequestDataL(u, t) = v  BY <1>1, SendIs
<1>4. /\ v \in World /\ v.cm = u.cm /\ v.tx = u.tx /\ v.panic = u.panic
      /\ v.sock.writer = t /\ SameStreams(u.sock, v.sock) /\ v.sock.sent = u.sock.sent
  BY <1>1, WritesIs
<1> HIDE DEF v
<1> DEFINE z == SendRequestDataL([w EXCEPT !.tx[t].comp = k], t)
<1>5. z = v  BY <1>2, <1>3
<1> HIDE DEF z
<1>6. Others(w.tx, v.tx, t)  BY <1>1, <1>4 DEF Others
<1>7. /\ z \in World /\ z.cm = w.cm /\ z.panic = w.panic
         /\ Others(w.tx, z.tx, t) /\ z.tx[t].comp = k /\ Alike(w.tx[t], z.tx[t])
         /\ z.sock.writer = t /\ SameStreams(w.sock, z.sock) /\ z.sock.sent = w.sock.sent
  BY <1>1, <1>4, <1>5, <1>6
<1> QED BY <1>7 DEF z

\* ComposerRun.
LEMMA ComposerRunOrder ==
  ASSUME Ordered(world), Good(world)', NEW t \in Tx, ComposerRun(t) PROVE Ordered(world)'
<1>1. /\ world \in World /\ Sound(world) /\ Fit(cm, tx, sock) /\ Typed(cm, tx, sock)
      /\ world.cm = cm /\ world.tx = tx /\ world.sock = sock /\ world.panic = panic
  BY OrderedIs
<1>2. tx[t].comp \in {"start", "part", "last", "ending"}  BY DEF ComposerRun
<1>3. PICK h \in Tx \cup {None} :
           /\ Run(cm, tx, sock, h) /\ t = cm.curReq /\ cm.state = "EConnected"
           /\ PendingWrite(cm) => tx[t].comp \in {"start", "headers"}
           /\ sock.writer = IF tx[t].comp \in Writing THEN t ELSE None
  BY <1>1, <1>2, AtWork DEF Silent
<1>4. sock.writer = None  BY <1>2, <1>3 DEF Writing
<1>5. Composers(cm, tx, sock) /\ Wire(cm, tx, sock)  BY <1>3 DEF Run, Loose
<1> DEFINE w == world
<1>6. w \in World /\ Sound(w) /\ w.cm = cm /\ w.tx = tx /\ w.sock = sock /\ w.panic = panic  BY <1>1
<1>7. "EDiscardSndDataCnf" \notin cm.flags  BY <1>6 DEF Sound
<1>8. CASE tx[t].comp = "start"
  <2> DEFINE u == SendRequestDataL([w EXCEPT !.tx[t].comp = "headers"], t)
             wire == Append(u.sock.wire, t)
             sent == IF t \in HasBody THEN u.sock.sent ELSE u.sock.sent \cup {t}
             v == Serves(u, wire, sent)
  <2>1. ~sock.hup  BY <1>5, <1>8 DEF Wire
  <2>2. Becomes([u EXCEPT !.sock.wire = Append(@, t),
                          !.sock.sent = IF t \in HasBody THEN @ ELSE @ \cup {t}])
    BY <1>8, <2>1 DEF ComposerRun
  <2>3. "headers" \in ComposerStates  BY DEF ComposerStates
  <2>4. /\ u \in World /\ u.cm = cm /\ u.panic = panic
        /\ Others(tx, u.tx, t) /\ u.tx[t].comp = "headers" /\ Alike(tx[t], u.tx[t])
        /\ u.sock.writer = t /\ SameStreams(sock, u.sock) /\ u.sock.sent = sock.sent
    BY <1>3, <1>4, <1>6, <2>3, HandOverIs
  <2> HIDE DEF w, u
  <2>5. Becomes(v)
    <3>1. [u EXCEPT !.sock.wire = Append(@, t), !.sock.sent = IF t \in HasBody THEN @ ELSE @ \cup {t}] = v
      BY <2>4 DEF Serves, World, Socket
    <3> HIDE DEF v
    <3> QED BY <2>2, <3>1
  <2>6. u.sock.wire \in Seq(Tx) /\ u.sock.sent \in SUBSET Tx  BY <2>4 DEF World, Socket
  <2>7. wire \in Seq(Tx) /\ sent \in SUBSET Tx  BY <2>6, Appended
  <2>8. wire = Append(sock.wire, t) /\ sent = IF t \in HasBody THEN sock.sent ELSE sock.sent \cup {t}
    BY <2>4 DEF SameStreams
  <2> HIDE DEF wire, sent
  <2>9. /\ v \in World /\ v.cm = u.cm /\ v.tx = u.tx /\ v.panic = u.panic
        /\ v.sock.writer = u.sock.writer /\ v.sock.wire = wire /\ v.sock.sent = sent
        /\ v.sock.buf = u.sock.buf /\ v.sock.net = u.sock.net /\ v.sock.hup = u.sock.hup
        /\ v.sock.reader = u.sock.reader
    BY <2>4, <2>7, ServesIs
  <2> HIDE DEF v
  <2>10. Typed(cm, v.tx, v.sock)  BY <2>4, <2>9 DEF Typed, World
  <2>11. v.sock.buf = sock.buf /\ v.sock.net = sock.net /\ v.sock.hup = sock.hup /\ v.sock.reader = sock.reader
    BY <2>4, <2>9 DEF SameStreams
  <2>12. Run(cm, v.tx, v.sock, h)
    <3>1. Others(tx, v.tx, t) /\ v.tx[t].comp = "headers" /\ Alike(tx[t], v.tx[t]) /\ v.sock.writer = t
      BY <2>4, <2>9
    <3>2. v.sock.wire = Append(sock.wire, t) /\ v.sock.sent = IF t \in HasBody THEN sock.sent ELSE sock.sent \cup {t}
      BY <2>8, <2>9
    <3> QED BY <1>1, <1>3, <1>8, <2>10, <2>11, <3>1, <3>2, HeadersSent
  <2>13. Sound(v)
    <3>1. SameButComposer(tx, v.tx)  BY <2>4, <2>9 DEF SameButComposer, Others, Alike
    <3>2. "EDiscardSndDataCnf" \notin v.cm.flags /\ v.panic = panic  BY <1>7, <2>4, <2>9
    <3> QED BY <1>6, <3>1, <3>2, SoundAfter
  <2>14. Run(v.cm, v.tx, v.sock, h)  BY <2>4, <2>9, <2>12
  <2>15. Sorted(v)  BY <2>13, <2>14, RunSorted
  <2> QED BY <2>5, <2>15, BecomesOrdered
<1>9. CASE tx[t].comp = "part"
  <2> DEFINE u == SendRequestDataL([w EXCEPT !.tx[t].comp = "partSent"], t)
  <2>1. Becomes(u)  BY <1>9 DEF ComposerRun
  <2>2. "partSent" \in ComposerStates  BY DEF ComposerStates
  <2>3. /\ u \in World /\ u.cm = cm /\ u.panic = panic
        /\ Others(tx, u.tx, t) /\ u.tx[t].comp = "partSent" /\ Alike(tx[t], u.tx[t])
        /\ u.sock.writer = t /\ SameStreams(sock, u.sock) /\ u.sock.sent = sock.sent
    BY <1>3, <1>4, <1>6, <2>2, HandOverIs
  <2> HIDE DEF w, u
  <2>4. /\ ~PendingWrite(u.cm) /\ SamePlaces(cm, u.cm) /\ u.cm.curReq = cm.curReq /\ u.cm.pendReq = cm.pendReq
    BY <1>3, <1>9, <2>3 DEF SamePlaces
  <2>5. /\ tx[t].comp \in Working \ {"start"} /\ u.tx[t].comp \in Working \ {"start"}
        /\ u.tx[t].comp \in Writing /\ ~Given(t, u.tx[t]) /\ ~Given(t, tx[t]) /\ tx[t].comp \in OfBody
    BY <1>9, <2>3 DEF Working, Writing, Given, OfBody
  <2>6. t \in HasBody  BY <1>5, <2>5 DEF Composers
  <2>7. Sorted(u)  BY <1>3, <1>6, <1>7, <2>3, <2>4, <2>5, <2>6, MovesSorted
  <2> QED BY <2>1, <2>7, BecomesOrdered
<1>10. CASE tx[t].comp = "last"
  <2> DEFINE u == SendRequestDataL([w EXCEPT !.tx[t].comp = "lastSent"], t)
             sent == IF t \in ToSet(sock.wire) THEN sock.sent \cup {t} ELSE sock.sent
             v == Serves(u, sock.wire, sent)
  <2>1. Becomes([u EXCEPT !.sock.sent = IF Contains(u.sock.wire, t) THEN @ \cup {t} ELSE @])
    BY <1>10 DEF ComposerRun
  <2>2. "lastSent" \in ComposerStates  BY DEF ComposerStates
  <2>3. /\ u \in World /\ u.cm = cm /\ u.panic = panic
        /\ Others(tx, u.tx, t) /\ u.tx[t].comp = "lastSent" /\ Alike(tx[t], u.tx[t])
        /\ u.sock.writer = t /\ SameStreams(sock, u.sock) /\ u.sock.sent = sock.sent
    BY <1>3, <1>4, <1>6, <2>2, HandOverIs
  <2> HIDE DEF w, u
  <2>4. sock.wire \in Seq(Tx) /\ sock.sent \in SUBSET Tx  BY <1>1, Types
  <2>5. Contains(u.sock.wire, t) <=> t \in ToSet(sock.wire)  BY <2>3, <2>4, ContainsIs DEF SameStreams
  <2>6. [u EXCEPT !.sock.sent = IF Contains(u.sock.wire, t) THEN @ \cup {t} ELSE @] = v
    <3>1. v = [u EXCEPT !.sock.sent = sent]  BY <2>3 DEF Serves, World, Socket, SameStreams
    <3> QED BY <2>3, <2>5, <3>1
  <2>7. Becomes(v)
    <3> DEFINE z == [u EXCEPT !.sock.sent = IF Contains(u.sock.wire, t) THEN @ \cup {t} ELSE @]
    <3>1. Becomes(z) /\ z = v  BY <2>1, <2>6
    <3> HIDE DEF z, v
    <3> QED BY <3>1
  <2>8. sent \in SUBSET Tx  BY <2>4
  <2> HIDE DEF sent
  <2>9. /\ v \in World /\ v.cm = u.cm /\ v.tx = u.tx /\ v.panic = u.panic
        /\ v.sock.writer = u.sock.writer /\ v.sock.wire = sock.wire /\ v.sock.sent = sent
        /\ v.sock.buf = u.sock.buf /\ v.sock.net = u.sock.net /\ v.sock.hup = u.sock.hup
        /\ v.sock.reader = u.sock.reader
    BY <2>3, <2>4, <2>8, ServesIs
  <2> HIDE DEF v
  <2>10. /\ ~PendingWrite(v.cm) /\ SamePlaces(cm, v.cm) /\ v.cm.curReq = cm.curReq /\ v.cm.pendReq = cm.pendReq
    BY <1>3, <1>10, <2>3, <2>9 DEF SamePlaces
  <2>11. /\ tx[t].comp \in Working \ {"start"} /\ v.tx[t].comp \in Working \ {"start"}
        /\ v.tx[t].comp \in Writing /\ Given(t, v.tx[t]) /\ tx[t].comp \in OfBody
    BY <1>10, <2>3, <2>9 DEF Working, Writing, Given, OfBody
  <2>12. t \in HasBody  BY <1>5, <2>11 DEF Composers
  <2>13. SameStreams(sock, v.sock) /\ Others(tx, v.tx, t) /\ Alike(tx[t], v.tx[t]) /\ v.sock.writer = t
         /\ v.panic = panic /\ "EDiscardSndDataCnf" \notin v.cm.flags
    BY <1>7, <2>3, <2>9 DEF SameStreams
  <2>14. v.sock.sent = IF Given(t, v.tx[t]) /\ t \in ToSet(sock.wire) THEN sock.sent \cup {t} ELSE sock.sent
    BY <2>9, <2>11 DEF sent
  <2>15. Sorted(v)  BY <1>3, <1>6, <2>9, <2>10, <2>11, <2>12, <2>13, <2>14, MovesSorted
  <2> QED BY <2>7, <2>15, BecomesOrdered
<1>11. CASE tx[t].comp = "ending"
  <2> DEFINE v == Composer(RequestComplete(w), t, "idle")
  <2>1. Becomes(v)  BY <1>11 DEF ComposerRun, Composer
  <2>2. v \in World
    <3>1. RequestComplete(w) \in World  BY <1>6, RequestCompleteKeeps DEF Keeps
    <3>2. "idle" \in ComposerStates  BY DEF ComposerStates
    <3> HIDE DEF w
    <3> QED BY <3>1, <3>2, ComposerIs
  <2>3. ~PendingWrite(v.cm)
    <3>1. \A r \in ToSet(cm.pendReq) : tx[r].comp = "idle"  BY <1>5 DEF Composers
    <3>2. RequestComplete(w) \in World /\ RequestComplete(w).cm.flags = cm.flags
      BY <1>3, <1>6, <3>1, RequestCompleteIs
    <3>3. "idle" \in ComposerStates  BY DEF ComposerStates
    <3>4. v.cm = RequestComplete(w).cm
      <4> HIDE DEF w
      <4> QED BY <3>2, <3>3, ComposerIs
    <3> QED BY <1>3, <1>11, <3>2, <3>4 DEF PendingWrite
  <2>4. SamePlaces(v.cm, v.cm)  BY DEF SamePlaces
  <2>5. tx[t].comp \in Working \ {"start"} /\ Given(t, tx[t])  BY <1>11 DEF Working, Given
  <2>6. SameStreams(sock, sock)  BY DEF SameStreams
  <2>7. Sorted(v)
    <3> DEFINE u == v
    <3>1. LET z == Composer(RequestComplete(w), t, "idle") IN
           /\ u.tx = z.tx /\ u.sock = z.sock /\ u.panic = z.panic /\ SamePlaces(z.cm, u.cm)
           /\ u.cm.curReq = z.cm.curReq /\ u.cm.pendReq = z.cm.pendReq /\ u.cm.flags \subseteq z.cm.flags
      BY <2>4
    <3>2. u \in World /\ ~PendingWrite(u.cm)  BY <2>2, <2>3
    <3>3. "idle" \in {"idle", "sent"}  OBVIOUS
    <3> HIDE DEF w, u
    <3>4. Sorted(u)  BY <1>1, <1>3, <1>4, <1>6, <2>5, <2>6, <3>1, <3>2, <3>3, DoneSorted
    <3> QED BY <3>4 DEF u
  <2> HIDE DEF v
  <2> QED BY <2>1, <2>7, BecomesOrdered
<1> QED BY <1>2, <1>8, <1>9, <1>10, <1>11

\* Whose write is to be confirmed.
LEMMA Writer ==
  ASSUME NEW c, NEW x, NEW s, Typed(c, x, s), Fit(c, x, s), s.writer # None
  PROVE  s.writer \in Tx /\ x[s.writer].comp \in Writing
<1>1. PICK t \in Tx : t = s.writer  BY Types
<1>2. ~Rest(c, x, s) /\ ~Make(c, x, s)  BY DEF Rest, Make, Still
<1>3. PICK h \in Tx \cup {None} : Run(c, x, s, h)  BY <1>2 DEF Fit
<1>4. Composers(c, x, s)  BY <1>3 DEF Run, Loose
<1> QED BY <1>1, <1>4 DEF Composers

\* The composer gets its buffer back.
LEMMA BackIs ==
  ASSUME NEW w \in World, Sound(w), NEW s, Typed(w.cm, w.tx, s), NEW h \in Tx \cup {None},
         Run(w.cm, w.tx, s, h), SameStreams(s, w.sock), w.sock.writer = None, w.sock.sent = s.sent,
         NEW q \in Tx, q = w.cm.curReq, w.tx[q].comp \in Writing, NEW k \in {"part", "wanted", "ending"},
         k \in OfBody => q \in HasBody, Given(q, w.tx[q]) <=> k = "ending"
  PROVE  Sorted(NoPendingWrite(Composer(w, q, k)))
<1> DEFINE u == Composer(w, q, k)
           v == NoPendingWrite(u)
<1>1. k \in ComposerStates /\ k \notin Writing /\ k \in Working \ {"start"}
  BY DEF ComposerStates, Writing, Working
<1>2. /\ u \in World /\ u.cm = w.cm /\ u.sock = w.sock /\ u.panic = w.panic
      /\ \A r \in Tx : r # q => u.tx[r] = w.tx[r]
      /\ u.tx[q].comp = k /\ Alike(w.tx[q], u.tx[q])
  BY <1>1, ComposerIs
<1> HIDE DEF u
<1>3. /\ v \in World /\ v.tx = u.tx /\ v.sock = u.sock /\ v.panic = u.panic
      /\ v.cm.flags = u.cm.flags \ {"EPendingWriteInConnectedState"}
      /\ SamePlaces(u.cm, v.cm) /\ v.cm.curReq = u.cm.curReq /\ v.cm.pendReq = u.cm.pendReq
  BY <1>2, NoPendingWriteIs
<1> HIDE DEF v
<1>4. /\ Others(w.tx, v.tx, q) /\ v.tx[q].comp = k /\ Alike(w.tx[q], v.tx[q]) /\ v.sock = w.sock
      /\ v.panic = w.panic /\ SamePlaces(w.cm, v.cm) /\ v.cm.curReq = w.cm.curReq
      /\ v.cm.pendReq = w.cm.pendReq
  BY <1>2, <1>3 DEF Others
<1>5. ~PendingWrite(v.cm) /\ "EDiscardSndDataCnf" \notin v.cm.flags  BY <1>2, <1>3 DEF PendingWrite, Sound
<1>6. Wire(w.cm, w.tx, s) /\ q # None  BY ConstantsAssumption DEF Run, Loose
<1>7. Given(q, w.tx[q]) /\ q \in ToSet(s.wire) => q \in s.sent  BY <1>6 DEF Wire
<1>8. Given(q, v.tx[q]) <=> k = "ending"  BY <1>4 DEF Given
<1>9. w.tx[q].comp \in Working \ {"start"}  BY DEF Writing, Working
<1>10. v.sock.sent = IF Given(q, v.tx[q]) /\ q \in ToSet(s.wire) THEN s.sent \cup {q} ELSE s.sent
  BY <1>4, <1>7, <1>8
<1>11. Typed(v.cm, v.tx, v.sock)  BY <1>3 DEF Typed, World
<1>12. Run(v.cm, v.tx, v.sock, h)
  <2> DEFINE c == w.cm
             x == w.tx
  <2>1. /\ Typed(c, x, s) /\ Run(c, x, s, h) /\ q = c.curReq /\ Others(x, v.tx, q) /\ Alike(x[q], v.tx[q])
        /\ x[q].comp \in Working \ {"start"} /\ v.tx[q].comp \in Working \ {"start"}
        /\ SamePlaces(c, v.cm) /\ v.cm.curReq = c.curReq /\ v.cm.pendReq = c.pendReq
    BY <1>1, <1>4, <1>9
  <2>2. /\ v.sock.writer = IF v.tx[q].comp \in Writing THEN q ELSE None
        /\ SameStreams(s, v.sock) /\ (v.tx[q].comp \in OfBody => q \in HasBody)
        /\ (Given(q, x[q]) => Given(q, v.tx[q]))
    BY <1>1, <1>4, <1>8
  <2> HIDE DEF c, x
  <2> QED BY <1>5, <1>10, <1>11, <2>1, <2>2, CompMoves
<1>13. Sound(v)
  <2>1. SameButComposer(w.tx, v.tx)  BY <1>4 DEF SameButComposer, Others, Alike
  <2> QED BY <1>4, <1>5, <2>1, SoundAfter
<1> QED BY <1>12, <1>13, RunSorted DEF v, u

\* SendDataCnf.
LEMMA SendDataCnfOrder == ASSUME Ordered(world), Good(world)', SendDataCnf PROVE Ordered(world)'
<1>1. /\ world \in World /\ Sound(world) /\ Fit(cm, tx, sock) /\ Typed(cm, tx, sock)
      /\ world.cm = cm /\ world.tx = tx /\ world.sock = sock /\ world.panic = panic
  BY OrderedIs
<1>2. sock.writer # None  BY DEF SendDataCnf
<1>3. PICK t \in Tx : t = sock.writer /\ tx[t].comp \in Writing  BY <1>1, <1>2, Writer
<1>4. PICK h \in Tx \cup {None} : Run(cm, tx, sock, h) /\ t = cm.curReq
  <2>1. ~Silent(tx[t])  BY <1>3 DEF Silent, Writing
  <2> QED BY <1>1, <2>1, AtWork
<1> DEFINE w == Writes(world, None)
           z == RequestDataSent(w, t)
           v == NoPendingWrite(z)
<1>5. /\ w \in World /\ w.cm = cm /\ w.tx = tx /\ w.panic = panic
      /\ w.sock.writer = None /\ SameStreams(sock, w.sock) /\ w.sock.sent = sock.sent
  BY <1>1, WritesIs
<1>6. "EDiscardSndDataCnf" \notin cm.flags /\ Sound(w)  BY <1>1, <1>5 DEF Sound
<1>7. cm.curReq # None  BY <1>4, ConstantsAssumption
<1>8. Becomes(v)
  <2>1. Becomes([RequestDataSent(w, cm.curReq) EXCEPT !.cm.flags = @ \ {"EPendingWriteInConnectedState"}])
    BY <1>6, <1>7 DEF SendDataCnf, Writes
  <2> QED BY <1>4, <2>1 DEF NoPendingWrite
<1> HIDE DEF w
<1>9. Composers(cm, tx, sock)  BY <1>4 DEF Run, Loose
<1>10. /\ Typed(w.cm, w.tx, sock) /\ Run(w.cm, w.tx, sock, h) /\ t = w.cm.curReq
       /\ w.tx[t].comp = tx[t].comp /\ w.tx[t].comp \in Writing
  BY <1>1, <1>3, <1>4, <1>5
<1>11. CASE tx[t].comp = "headers" /\ t \notin HasBody
  <2> DEFINE u == Composer(RequestComplete(w), t, "sent")
  <2>1. z = u
    <3>1. w.tx[t].comp = "headers" /\ t \notin HasBody  BY <1>5, <1>11
    <3> QED BY <3>1, Zenon DEF RequestDataSent, Composer
  <2>2. u \in World
    <3>1. RequestComplete(w) \in World  BY <1>5, RequestCompleteKeeps DEF Keeps
    <3>2. "sent" \in ComposerStates  BY DEF ComposerStates
    <3> QED BY <3>1, <3>2, ComposerIs
  <2> DEFINE n == NoPendingWrite(u)
  <2>3. /\ n \in World /\ n.tx = u.tx /\ n.sock = u.sock /\ n.panic = u.panic
        /\ n.cm.flags = u.cm.flags \ {"EPendingWriteInConnectedState"}
        /\ SamePlaces(u.cm, n.cm) /\ n.cm.curReq = u.cm.curReq /\ n.cm.pendReq = u.cm.pendReq
    <3> HIDE DEF u
    <3> QED BY <2>2, NoPendingWriteIs
  <2>4. Given(t, tx[t]) /\ tx[t].comp \in Working \ {"start"}  BY <1>11 DEF Given, Working
  <2>5. Sorted(n)
    <3> HIDE DEF n
    <3>1. LET y == Composer(RequestComplete(w), t, "sent") IN
           /\ n.tx = y.tx /\ n.sock = y.sock /\ n.panic = y.panic /\ SamePlaces(y.cm, n.cm)
           /\ n.cm.curReq = y.cm.curReq /\ n.cm.pendReq = y.cm.pendReq /\ n.cm.flags \subseteq y.cm.flags
      BY <2>3
    <3>2. n \in World /\ ~PendingWrite(n.cm)  BY <2>3 DEF PendingWrite
    <3>3. "sent" \in {"idle", "sent"}  OBVIOUS
    <3>4. Given(t, w.tx[t]) /\ w.tx[t].comp \in Working \ {"start"}  BY <1>5, <2>4
    <3> QED BY <1>5, <1>6, <1>10, <3>1, <3>2, <3>3, <3>4, DoneSorted
  <2>6. v = n  BY <2>1
  <2> HIDE DEF v, n
  <2> QED BY <1>8, <2>5, <2>6, BecomesOrdered
<1>12. ASSUME NEW k \in {"part", "wanted", "ending"}, z = Composer(w, t, k),
              k \in OfBody => t \in HasBody, Given(t, tx[t]) <=> k = "ending"
       PROVE  Ordered(world)'
  <2> DEFINE n == NoPendingWrite(Composer(w, t, k))
  <2>1. Sorted(n)  BY <1>5, <1>6, <1>10, <1>12, BackIs
  <2>2. v = n  BY <1>12
  <2> HIDE DEF v, n
  <2> QED BY <1>8, <2>1, <2>2, BecomesOrdered
<1>13. CASE tx[t].comp = "headers" /\ t \in HasBody
  <2>1. w.tx[t].comp = "headers" /\ t \in HasBody  BY <1>5, <1>13
  <2>2. z = Composer(w, t, "part")  BY <2>1, Zenon DEF RequestDataSent, Composer
  <2> HIDE DEF z, v
  <2> QED BY <1>12, <1>13, <2>2 DEF Given
<1>14. CASE tx[t].comp = "partSent"
  <2>1. w.tx[t].comp = "partSent" /\ "partSent" # "headers"  BY <1>5, <1>14
  <2>2. z = Composer(w, t, "wanted")  BY <2>1 DEF RequestDataSent, Composer
  <2>3. t \in HasBody  BY <1>9, <1>14 DEF Composers, OfBody
  <2> HIDE DEF z, v
  <2> QED BY <1>12, <1>14, <2>2, <2>3 DEF Given
<1>15. CASE tx[t].comp = "lastSent"
  <2>1. w.tx[t].comp = "lastSent"  BY <1>5, <1>15
  <2>2. z = Composer(w, t, "ending")  BY <2>1 DEF RequestDataSent, Composer
  <2>3. t \in HasBody  BY <1>9, <1>15 DEF Composers, OfBody
  <2> HIDE DEF z, v
  <2> QED BY <1>12, <1>15, <2>2, <2>3 DEF Given
<1> QED BY <1>3, <1>11, <1>13, <1>14, <1>15 DEF Writing

-----------------------------------------------------------------------------
(* The server answers                                                      *)

\* The hypothesis of what follows.  The server may hang up at any time, connections may
\* fail to be made, and the client may cancel what is not sent yet; a request that says
\* Connection: close is not pipelined, and only the answer to such a request announces a
\* close.  Without it the code does fail: with closes announced among pipelined answers,
\* or answers that the parser rejects, NoPanic is false at five transactions.
Calm ==
  /\ Env \subseteq {"hangup", "cancel", "connectFail"}
  /\ OwnConnection \cap Pipelinable = {}

\* The pieces are of the answer to t, and say so when the server hangs up.
OfReply(pieces, t, hup) == \A p \in ToSet(pieces) : p.t = t /\ (p.close => hup) /\ p.len # "unknown"

\* The server's answer to the first request on the wire keeps a connection in use: its
\* head takes, at the end of what is on the network, the place that the request had.
LEMMA ReplyRun ==
  ASSUME NEW c, NEW x, NEW s, Typed(c, x, s), NEW h \in Tx \cup {None}, Run(c, x, s, h),
         s.wire # <<>>, NEW t \in Tx, t = Head(s.wire), t \in s.sent,
         NEW reply \in Seq(Piece), Parts(reply, FALSE, t), HeadsIn(reply) = One(t),
         NEW z, Typed(c, x, z), z.net = s.net \o reply, z.hup => t \in OwnConnection,
         OfReply(reply, t, z.hup),
         z.wire = IF z.hup THEN <<>> ELSE Tail(s.wire), z.sent = IF z.hup THEN {} ELSE s.sent \ {t},
         z.buf = s.buf, z.writer = s.writer, z.reader = s.reader
  PROVE  Run(c, x, z, h)
<1>1. /\ c.state = "EConnected" /\ Queues(c, h) /\ Mode(c, h) /\ Parsers(c, x, h) /\ Composers(c, x, s)
      /\ Wire(c, x, s) /\ Answers(c, x, s) /\ Pieces(c, x, s) /\ Token(c, x, s, h) /\ (h # None => Held(x[h]))
  BY DEF Run, Loose
<1>2. PICK w \in Seq(Tx) : w = s.wire /\ w # <<>> /\ t = Head(w)  BY Types
<1>3. /\ Tail(w) \in Seq(Tx) /\ ToSet(w) = {t} \cup ToSet(Tail(w)) /\ t \in ToSet(w)
      /\ IsInjective(w) /\ IsInjective(Tail(w)) /\ t \notin ToSet(Tail(w)) /\ ToSet(w) \subseteq Tx
  <2>1. IsInjective(w)  BY <1>1, <1>2 DEF Wire
  <2>2. w \in Seq(Tx) /\ w # <<>> /\ t = Head(w)  BY <1>2
  <2>3. /\ Tail(w) \in Seq(Tx) /\ ToSet(w) = {t} \cup ToSet(Tail(w))
        /\ IsInjective(Tail(w)) /\ t \notin ToSet(Tail(w))
    BY <2>1, <2>2, HeadAndTail
  <2>4. ToSet(w) \subseteq Tx  BY <2>2, SomeIn
  <2> QED BY <2>1, <2>3, <2>4
<1> DEFINE R == ToSet(Headless(c, x) \o c.pendResp)
<1>4. ToSet(w) \subseteq R /\ ToSet(Starting(c, x)) \subseteq R
  <2> HIDE DEF R
  <2>1. /\ \A p \in ToSet(s.buf) \cup ToSet(s.net) :
              /\ p \in Piece /\ p.t \in Awaits(c) /\ p.t \notin ToSet(c.pendReq) \cup ToSet(s.wire)
              /\ p.t \in R \/ (Midway(c, x) /\ p.t = c.curResp)
        /\ ToSet(s.wire) \subseteq R /\ ToSet(c.pendReq) \subseteq R
        /\ ToSet(s.wire) \cap ToSet(c.pendReq) = {}
        /\ ToSet(Starting(c, x)) \subseteq R
    BY <1>1, Owners DEF R
  <2> QED BY <1>2, <2>1
<1>5. R \subseteq Awaits(c) /\ R \subseteq ToSet(c.pendResp) \cup {c.curResp}
  BY <1>1, AwaitedOnce
<1> HIDE DEF R
<1>6. Given(t, x[t])  BY <1>1, <1>2, <1>3 DEF Wire
<1>7. ASSUME z.hup
      PROVE  c.nonPersistent /\ Tail(w) = <<>> /\ s.sent \ {t} = {} /\ \A u \in Tx : x[u].comp # "start"
  <2>1. c.nonPersistent /\ c.pendResp = <<>>
    BY <1>1, <1>3, <1>4, <1>5, <1>7 DEF Queues, Alone
  <2>2. R \subseteq {c.curResp}  BY <1>5, <2>1, NoneIn
  <2>3. t = c.curResp /\ ToSet(w) = {t}  BY <1>3, <1>4, <2>2
  <2>4. Tail(w) = <<>>
    <3> SUFFICES ASSUME Tail(w) # <<>> PROVE FALSE  OBVIOUS
    <3>1. Head(Tail(w)) \in ToSet(Tail(w))  BY <1>3, HeadAndTail
    <3> QED BY <1>3, <2>3, <3>1
  <2>5. s.sent \ {t} = {}  BY <1>1, <1>2, <2>3 DEF Wire
  <2>6. ASSUME NEW u \in Tx, x[u].comp = "start" PROVE FALSE
    <3>1. u = c.curReq  BY <1>1, <2>6 DEF Composers, Silent
    <3>2. Starting(c, x) = <<u>>  BY <2>6, <3>1, ConstantsAssumption DEF Starting
    <3>3. u = t  BY <1>4, <2>2, <2>3, <3>2, OneIn
    <3> QED BY <1>1, <1>2, <1>3, <2>6, <3>3 DEF Wire
  <2> QED BY <2>1, <2>4, <2>5, <2>6
<1>8. z.wire = Tail(w) /\ z.sent = s.sent \ {t}  BY <1>2, <1>7
<1>9. Wire(c, x, z)
  <2>1. z.sent \subseteq ToSet(Tail(w))  BY <1>1, <1>2, <1>3, <1>8 DEF Wire
  <2>2. \A u \in ToSet(Tail(w)) : x[u].comp # "start" /\ (u \in z.sent <=> Given(u, x[u]))
    BY <1>1, <1>2, <1>3, <1>8 DEF Wire
  <2>3. \A u \in Tx : Given(u, x[u]) \/ x[u].comp = "start" \/ u \in ToSet(Tail(w))
    BY <1>1, <1>2, <1>3, <1>6 DEF Wire
  <2>4. z.hup => c.nonPersistent /\ z.wire = <<>> /\ \A u \in Tx : x[u].comp # "start"
    BY <1>7
  <2> QED BY <1>3, <1>8, <2>1, <2>2, <2>3, <2>4 DEF Wire
<1>10. /\ reply \in Seq(Piece) /\ Parts(reply, FALSE, t) /\ HeadsIn(reply) = One(t)
       /\ OfReply(reply, t, z.hup)
  OBVIOUS
<1>11. PICK b \in Seq(Piece), n \in Seq(Piece) : b = s.buf /\ n = s.net  BY Types
<1>12. PICK g \in Seq(Piece) : g = b \o n  BY ConcatProperties
<1>13. z.buf \o z.net = g \o reply
  <2>1. b \o (n \o reply) = (b \o n) \o reply  BY <1>10, ConcatAssociative
  <2> QED BY <1>11, <1>12, <2>1
<1>14. Pieces(c, x, z)
  <2>1. Parts(g \o reply, Midway(c, x), c.curResp)
    <3>1. Parts(g, Midway(c, x), c.curResp)  BY <1>1, <1>11, <1>12 DEF Pieces
    <3> QED BY <1>10, <3>1, PartsBoth
  <2>2. ToSet(z.net) = ToSet(s.net) \cup ToSet(reply)  BY <1>10, <1>11, BothIn
  <2>3. \A p \in ToSet(reply) : Given(p.t, x[p.t]) /\ (p.close => c.nonPersistent) /\ p.len # "unknown"
    BY <1>6, <1>7, <1>10 DEF OfReply
  <2>4. Parts(z.buf \o z.net, Midway(c, x), c.curResp)  BY <1>13, <2>1
  <2> QED BY <1>1, <2>2, <2>3, <2>4 DEF Pieces
<1>15. Answers(c, x, z)
  <2> DEFINE a == HeadsIn(g)
             st == Starting(c, x)
             q == c.pendReq
  <2>1. a \in Seq(Tx) /\ st \in Seq(Tx) /\ q \in Seq(Tx) /\ w # None0
    BY <1>2, <1>11, <1>12, AnswersAre, Types DEF None0
  <2>2. HeadsIn(g \o reply) = Append(a, t)
    <3>1. HeadsIn(g \o reply) = Cat(a, One(t))  BY <1>10, HeadsInBoth DEF Cat
    <3>2. Append(a, t) = Cat(a, One(t))  BY <2>1, CatOne
    <3> QED BY <3>1, <3>2
  <2>3. Line(a, w, st, q) = Cat(Headless(c, x), c.pendResp)  BY <1>1, <1>2, <1>11, <1>12, AnswersLine
  <2> HIDE DEF a, st, q
  <2>4. Line(Append(a, Head(w)), Tail(w), st, q) = Line(a, w, st, q)  BY <2>1, LineAnswered
  <2>5. Line(HeadsIn(z.buf \o z.net), z.wire, Starting(c, x), c.pendReq) = Cat(Headless(c, x), c.pendResp)
    BY <1>2, <1>8, <1>13, <2>2, <2>3, <2>4 DEF st, q
  <2> QED BY <2>5, AnswersLine
<1>16. Token(c, x, z, h) /\ Composers(c, x, z)  BY <1>1 DEF Token, Composers
<1> QED BY <1>1, <1>9, <1>14, <1>15, <1>16 DEF Run, Loose

\* What a reply consists of, whether it says Connection: close or not.
LEMMA ReplyOf ==
  ASSUME NEW t \in Tx, NEW close \in BOOLEAN, NEW len \in {"none", "sized"}
  PROVE  \A R \in Reply(t, close, len) :
           /\ R \in Seq(Piece) /\ Parts(R, FALSE, t) /\ HeadsIn(R) = One(t)
           /\ OfReply(R, t, close)
<1> SUFFICES ASSUME NEW R \in Reply(t, close, len)
             PROVE  /\ R \in Seq(Piece) /\ Parts(R, FALSE, t) /\ HeadsIn(R) = One(t)
                    /\ OfReply(R, t, close)
  OBVIOUS
<1> DEFINE piece(part) == [t |-> t, part |-> part, close |-> close, len |-> len]
           h == piece("head")
           b == piece("tail")
<1>1. h \in Piece /\ b \in Piece  BY DEF Piece, Lengths
<1>2. h.part = "head" /\ b.part = "tail" /\ h.t = t /\ b.t = t /\ h.len = len /\ b.len = len
      /\ h.close = close /\ b.close = close
  OBVIOUS
<1>3. R = IF len = "none" THEN <<h>> ELSE <<h, b>>  BY DEF Reply
<1> HIDE DEF piece, h, b
<1>7. /\ h.t = t /\ (h.close => close) /\ h.len # "unknown"
      /\ b.t = t /\ (b.close => close) /\ b.len # "unknown"
  BY <1>2
<1>4. <<h>> \in Seq(Piece) /\ HeadsIn(<<h>>) = One(t)
  <2>1. <<h>> \in Seq(Piece) /\ Append(<<>>, h) = <<h>>  BY <1>1, OneIn
  <2>2. <<>> \in Seq(Piece)  BY EmptySeq
  <2>3. Append(<<>>, t) = One(t)  BY OneIn DEF One
  <2> QED BY <1>1, <1>2, <2>1, <2>2, <2>3, OneMore, NoHeads
<1>5. CASE len = "none"
  <2>1. R = <<h>>  BY <1>3, <1>5
  <2>2. DOMAIN R = {1} /\ R[1] = h  BY <2>1
  <2>3. Parts(R, FALSE, t)  BY <1>2, <1>5, <2>2 DEF Parts
  <2>4. ToSet(R) = {h}  BY <2>2 DEF ToSet
  <2>5. OfReply(R, t, close)  BY <1>7, <2>4 DEF OfReply
  <2> QED BY <1>4, <2>1, <2>3, <2>5
<1>6. CASE len = "sized"
  <2>1. R = <<h, b>>  BY <1>3, <1>6
  <2>2. DOMAIN R = {1, 2} /\ R[1] = h /\ R[2] = b /\ R # <<>>  BY <2>1
  <2>3. Parts(R, FALSE, t)  BY <1>2, <1>6, <2>2 DEF Parts
  <2>4. ToSet(R) = {h, b}  BY <2>2 DEF ToSet
  <2>5. Append(<<h>>, b) = <<h, b>>  BY <1>1, TwoIn
  <2>6. HeadsIn(Append(<<h>>, b)) = HeadsIn(<<h>>) /\ Append(<<h>>, b) \in Seq(Piece)
    <3> DEFINE o == <<h>>
    <3>1. o \in Seq(Piece) /\ ~(b.part = "head")  BY <1>2, <1>4
    <3> HIDE DEF o
    <3>2. HeadsIn(Append(o, b)) = HeadsIn(o) /\ Append(o, b) \in Seq(Piece)  BY <1>1, <3>1, OneMore, AppendProperties
    <3> QED BY <3>2 DEF o
  <2>7. OfReply(R, t, close)  BY <1>7, <2>4 DEF OfReply
  <2> QED BY <1>4, <2>1, <2>3, <2>5, <2>6, <2>7
<1> QED BY <1>5, <1>6

\* ServerReply.
LEMMA ServerReplyOrder == ASSUME Calm, Ordered(world), Good(world)', ServerReply PROVE Ordered(world)'
<1>1. /\ world \in World /\ Sound(world) /\ Fit(cm, tx, sock) /\ Typed(cm, tx, sock)
      /\ world.cm = cm /\ world.tx = tx /\ world.sock = sock /\ world.panic = panic
  BY OrderedIs
<1>2. sock.wire # <<>> /\ UNCHANGED <<cm, tx, panic>>  BY DEF ServerReply
<1>3. PICK h \in Tx \cup {None} : Run(cm, tx, sock, h)
  <2>1. ~Rest(cm, tx, sock) /\ ~Make(cm, tx, sock)  BY <1>2 DEF Rest, Make, Still
  <2> QED BY <1>1, <2>1 DEF Fit
<1>4. PICK t \in Tx : t = Head(sock.wire) /\ sock.wire \in Seq(Tx)
  <2>1. PICK w \in Seq(Tx) : w = sock.wire /\ w # <<>>  BY <1>1, <1>2, Types
  <2>2. Head(w) \in Tx  BY <2>1, HeadAndTail
  <2> QED BY <2>1, <2>2
<1>5. t \in sock.sent /\
      \E close \in BOOLEAN, len \in Lengths :
          /\ close => t \in OwnConnection
          /\ len # "unknown"
          /\ \E reply \in Reply(t, close, len) :
               sock' = [sock EXCEPT !.net = @ \o reply, !.hup = close,
                                    !.wire = IF close THEN <<>> ELSE Tail(@),
                                    !.sent = IF close THEN {} ELSE @ \ {t}]
  <2>1. "early" \notin Env /\ "close" \notin Env /\ "unknown" \notin Env  BY DEF Calm
  <2> QED BY <1>4, <2>1 DEF ServerReply
<1>6. PICK close \in BOOLEAN, len \in Lengths :
          /\ close => t \in OwnConnection
          /\ len # "unknown"
          /\ \E reply \in Reply(t, close, len) :
               sock' = [sock EXCEPT !.net = @ \o reply, !.hup = close,
                                    !.wire = IF close THEN <<>> ELSE Tail(@),
                                    !.sent = IF close THEN {} ELSE @ \ {t}]
  BY <1>5
<1>7. PICK reply \in Reply(t, close, len) :
               sock' = [sock EXCEPT !.net = @ \o reply, !.hup = close,
                                    !.wire = IF close THEN <<>> ELSE Tail(@),
                                    !.sent = IF close THEN {} ELSE @ \ {t}]
  BY <1>6
<1>8. len \in {"none", "sized"}  BY <1>6 DEF Lengths
<1> DEFINE z == sock'
<1>9. /\ z.net = sock.net \o reply /\ z.hup = close
      /\ z.wire = IF close THEN <<>> ELSE Tail(sock.wire)
      /\ z.sent = IF close THEN {} ELSE sock.sent \ {t}
      /\ z.buf = sock.buf /\ z.writer = sock.writer /\ z.reader = sock.reader
  BY <1>1, <1>7 DEF Typed, Socket
<1>10. cm' = cm /\ tx' = tx /\ panic' = panic  BY <1>2
<1>11. Typed(cm, tx, z)
  <2>1. world' \in World  BY DEF Good
  <2>2. z \in Socket  BY <2>1 DEF World, world
  <2> QED BY <1>1, <2>2 DEF Typed
<1>12. Run(cm, tx, z, h)
  <2> HIDE DEF z
  <2>1. /\ reply \in Seq(Piece) /\ Parts(reply, FALSE, t) /\ HeadsIn(reply) = One(t)
        /\ OfReply(reply, t, close)
    <3>1. \A R \in Reply(t, close, len) :
           /\ R \in Seq(Piece) /\ Parts(R, FALSE, t) /\ HeadsIn(R) = One(t)
           /\ OfReply(R, t, close)
      BY <1>6, <1>8, ReplyOf
    <3> QED BY <1>7, <3>1
  <2>2. z.hup => t \in OwnConnection  BY <1>6, <1>9
  <2>3. OfReply(reply, t, z.hup)  BY <1>9, <2>1
  <2>4. z.wire = IF z.hup THEN <<>> ELSE Tail(sock.wire)  BY <1>9
  <2>5. z.sent = IF z.hup THEN {} ELSE sock.sent \ {t}  BY <1>9
  <2>6. z.net = sock.net \o reply /\ z.buf = sock.buf /\ z.writer = sock.writer /\ z.reader = sock.reader  BY <1>9
  <2>7. t \in sock.sent  BY <1>5
  <2> QED BY <1>1, <1>2, <1>3, <1>4, <1>11, <2>1, <2>2, <2>3, <2>4, <2>5, <2>6, <2>7, ReplyRun
<1> DEFINE v == [cm |-> cm, tx |-> tx, sock |-> z, panic |-> panic]
<1>13. Becomes(v)  BY <1>10 DEF Becomes
<1>14. Sound(v)  BY <1>1 DEF Sound
<1>15. Run(v.cm, v.tx, v.sock, h)  BY <1>12
<1> HIDE DEF v
<1>16. Sorted(v)  BY <1>14, <1>15, RunSorted
<1> QED BY <1>13, <1>16, BecomesOrdered

-----------------------------------------------------------------------------
(* The input stream reads                                                  *)

\* Only the parsers' side of a transaction changes.
SameComposers(x, y) == \A u \in Tx : y[u].comp = x[u].comp

\* The composers and the wire do not mind.
LEMMA ComposersKept ==
  ASSUME NEW c, NEW x, NEW s, Typed(c, x, s), Composers(c, x, s), Wire(c, x, s),
         NEW y, NEW z, Typed(c, y, z), SameComposers(x, y),
         PendingWrite(c) => ~y[c.curReq].hdr,
         PendingWrite(c) => c.curReq \in Tx,
         z.writer = s.writer, z.wire = s.wire, z.sent = s.sent, z.hup = s.hup
  PROVE  Composers(c, y, z) /\ Wire(c, y, z) /\ Starting(c, y) = Starting(c, x)
<1>1. \A u \in Tx : Silent(x[u]) <=> Silent(y[u])  BY DEF SameComposers, Silent
<1>2. \A u \in Tx : Given(u, x[u]) <=> Given(u, y[u])  BY DEF SameComposers, Given
<1>3. ToSet(c.pendReq) \subseteq Tx /\ ToSet(s.wire) \subseteq Tx
  <2>1. PICK q \in Seq(Tx), w \in Seq(Tx) : q = c.pendReq /\ w = s.wire  BY Types
  <2> QED BY <2>1, SomeIn
<1>4. c.curReq \in Tx \cup {None} /\ None \notin Tx  BY Types
<1>5. Composers(c, y, z)
  <2>1. \A t \in Tx : t # c.curReq => Silent(y[t])  BY <1>1 DEF Composers
  <2>2. \A t \in ToSet(c.pendReq) : y[t].comp = "idle"  BY <1>3 DEF Composers, SameComposers
  <2>3. c.curReq # None /\ ~First(c) => y[c.curReq].comp \in Working  BY <1>4 DEF Composers, SameComposers
  <2>4. PendingWrite(c) => y[c.curReq].comp \in {"start", "headers"} /\ ~y[c.curReq].hdr
    BY <1>4 DEF Composers, SameComposers
  <2>5. \A t \in Tx : y[t].comp \in OfBody => t \in HasBody  BY DEF Composers, SameComposers
  <2>6. \A t \in Tx : y[t].comp \in Writing <=> z.writer = t  BY DEF Composers, SameComposers
  <2> QED BY <2>1, <2>2, <2>3, <2>4, <2>5, <2>6 DEF Composers
<1>6. Wire(c, y, z)
  <2>1. IsInjective(z.wire) /\ z.sent \subseteq ToSet(z.wire)  BY DEF Wire
  <2>2. \A t \in ToSet(z.wire) : y[t].comp # "start" /\ (t \in z.sent <=> Given(t, y[t]))
    BY <1>2, <1>3 DEF Wire, SameComposers
  <2>3. \A t \in Tx : Given(t, y[t]) \/ y[t].comp = "start" \/ t \in ToSet(z.wire)
    BY <1>2 DEF Wire, SameComposers
  <2>4. z.hup => c.nonPersistent /\ z.wire = <<>> /\ \A t \in Tx : y[t].comp # "start"
    BY DEF Wire, SameComposers
  <2> QED BY <2>1, <2>2, <2>3, <2>4 DEF Wire
<1>7. Starting(c, y) = Starting(c, x)  BY <1>4 DEF Starting, SameComposers
<1> QED BY <1>5, <1>6, <1>7

\* got is read first and rest stays.
Divides(P, got, rest) ==
  /\ got \in Seq(Piece) /\ rest \in Seq(Piece) /\ got \o rest = P
  /\ got # <<>> /\ got[1] = P[1] /\ got[1] \in ToSet(got) /\ P # <<>>
  /\ ToSet(got) \cup ToSet(rest) = ToSet(P)
  /\ \A p \in ToSet(got) : \E i \in DOMAIN got : got[i] = p

\* What the input stream reads and what it leaves divide what was on the network.
LEMMA ReadPart ==
  ASSUME NEW P \in Seq(Piece), NEW n \in 1 .. Len(P)
  PROVE  Divides(P, SubSeq(P, 1, n), SubSeq(P, n + 1, Len(P)))
<1> DEFINE got == SubSeq(P, 1, n)
           rest == SubSeq(P, n + 1, Len(P))
<1>1. Len(P) \in Nat /\ 1 \in 1 .. Len(P) /\ Len(P) \in 1 .. Len(P)  BY LenProperties
<1>2. got \in Seq(Piece) /\ Len(got) = n /\ \A i \in 1 .. n : got[i] = P[i]
  BY <1>1, SubSeqProperties
<1>3. rest \in Seq(Piece) /\ Len(rest) = Len(P) - n /\ \A i \in 1 .. Len(P) - n : rest[i] = P[n + i]
  BY <1>1, SubSeqProperties
<1> HIDE DEF got, rest
<1>4. got \o rest = P
  <2>1. 1 \in 1 .. Len(P) + 1 /\ n \in 1 - 1 .. Len(P) /\ Len(P) \in n .. Len(P)  BY <1>1
  <2>2. SubSeq(P, 1, n) \o SubSeq(P, n + 1, Len(P)) = SubSeq(P, 1, Len(P))
    BY <2>1, ConcatAdjacentSubSeq
  <2>3. SubSeq(P, 1, Len(P)) = P  BY SubSeqFull
  <2> QED BY <2>2, <2>3 DEF got, rest
<1>5. ToSet(got) \cup ToSet(rest) = ToSet(P)  BY <1>2, <1>3, <1>4, BothIn
<1>6. /\ got # <<>> /\ got[1] = P[1] /\ P # <<>>
      /\ DOMAIN got = 1 .. n /\ 1 \in DOMAIN got
  BY <1>1, <1>2, LenProperties, EmptySeq
<1>7. /\ \A i \in DOMAIN got : got[i] \in ToSet(got)
      /\ \A p \in ToSet(got) : \E i \in DOMAIN got : got[i] = p
  BY DEF ToSet
<1>8. Divides(P, got, rest)  BY <1>2, <1>3, <1>4, <1>5, <1>6, <1>7 DEF Divides
<1> QED BY <1>8 DEF got, rest

\* The parser gets data.
SameButParse(r, q) ==
  /\ q.status = r.status /\ q.comp = r.comp /\ q.hdr = r.hdr /\ q.len = r.len
  /\ q.unread = r.unread /\ q.hold = r.hold /\ q.msgDone = r.msgDone /\ q.pipeline = r.pipeline

\* Feed wakes the parser of one transaction and changes nothing else.
LEMMA FeedIs ==
  ASSUME NEW w \in World, NEW t \in Tx, w.tx[t].parse = "wait"
  PROVE  LET v == Feed(w, t) IN
         /\ v \in World /\ v.cm = w.cm /\ v.sock = w.sock /\ v.panic = w.panic
         /\ Others(w.tx, v.tx, t) /\ v.tx[t].parse = "run" /\ SameButParse(w.tx[t], v.tx[t])
<1>1. w.tx[t] \in Transaction /\ w.tx \in [Tx -> Transaction]  BY DEF World
<1> DEFINE r == [w.tx[t] EXCEPT !.parse = "run"]
<1>2. r \in Transaction /\ r.parse = "run" /\ SameButParse(w.tx[t], r)
  BY <1>1 DEF Transaction, ParserStates, SameButParse
<1>3. Feed(w, t) = Put(w, t, r)  BY <1>1 DEF Feed, Put, World
<1> HIDE DEF r
<1> QED BY <1>2, <1>3, PutIs DEF Others

\* The stream's side of a read.
Reads(w, got, rest) == [w EXCEPT !.sock.reader = "ack", !.sock.buf = got, !.sock.net = rest]

\* Reads moves pieces from the network to the buffer and changes nothing else.
LEMMA ReadsIs ==
  ASSUME NEW w \in World, NEW got \in Seq(Piece), NEW rest \in Seq(Piece)
  PROVE  LET v == Reads(w, got, rest) IN
         /\ v \in World /\ v.cm = w.cm /\ v.tx = w.tx /\ v.panic = w.panic
         /\ v.sock.reader = "ack" /\ v.sock.buf = got /\ v.sock.net = rest
         /\ v.sock.open = w.sock.open /\ v.sock.writer = w.sock.writer /\ v.sock.wire = w.sock.wire
         /\ v.sock.sent = w.sock.sent /\ v.sock.hup = w.sock.hup
<1>1. w.sock \in Socket  BY DEF World
<1> DEFINE z == [w.sock EXCEPT !.reader = "ack", !.buf = got, !.net = rest]
<1>2. /\ z \in Socket /\ z.reader = "ack" /\ z.buf = got /\ z.net = rest
      /\ z.open = w.sock.open /\ z.writer = w.sock.writer /\ z.wire = w.sock.wire
      /\ z.sent = w.sock.sent /\ z.hup = w.sock.hup
  BY <1>1 DEF Socket
<1>3. Reads(w, got, rest) = [w EXCEPT !.sock = z]  BY <1>1 DEF Reads, World, Socket
<1> HIDE DEF z
<1> QED BY <1>2, <1>3 DEF World

\* The read of the first pieces of the current answer.
LEMMA ReadRun ==
  ASSUME NEW c, NEW x, NEW s, Typed(c, x, s), NEW h \in Tx \cup {None}, Run(c, x, s, h),
         s.reader = "read", NEW P \in Seq(Piece), P = s.net, NEW got, NEW rest, Divides(P, got, rest),
         \A u \in Tx : x[u].comp \notin ComposerReady,
         \A i \in DOMAIN got : got[i].t # s.writer,
         NEW q \in Tx, q = c.curResp,
         NEW y, NEW z, Typed(c, y, z), Others(x, y, q), y[q].parse = "run", SameButParse(x[q], y[q]),
         z.reader = "ack", z.buf = got, z.net = rest,
         z.writer = s.writer, z.wire = s.wire, z.sent = s.sent, z.hup = s.hup
  PROVE  Run(c, y, z, None)
<1>1. /\ c.state = "EConnected" /\ Queues(c, h) /\ Mode(c, h) /\ Parsers(c, x, h) /\ Composers(c, x, s)
      /\ Wire(c, x, s) /\ Answers(c, x, s) /\ Pieces(c, x, s) /\ Token(c, x, s, h)
  BY DEF Run, Loose
<1>2. q # None /\ None \notin Tx  BY Types
<1>3. h = None /\ x[q].parse = "wait" /\ s.buf = <<>> /\ ~c.excess
  BY <1>1, <1>2, Types DEF Token, Parsers, Current
<1>4. /\ got \in Seq(Piece) /\ rest \in Seq(Piece) /\ got \o rest = P
      /\ got # <<>> /\ got[1] = P[1] /\ got[1] \in ToSet(got) /\ P # <<>>
      /\ ToSet(got) \cup ToSet(rest) = ToSet(P)
      /\ \A p \in ToSet(got) : \E i \in DOMAIN got : got[i] = p
  BY DEF Divides
<1>5. s.buf \o s.net = P  BY <1>3, ConcatEmptySeq
<1>6. P[1].t = q
  <2>1. c.curResp # None /\ x[c.curResp].parse # "end" /\ s.buf \o s.net # <<>>
    BY <1>2, <1>3, <1>4, <1>5
  <2>2. Answers(c, x, s) /\ Pieces(c, x, s) /\ Typed(c, x, s)  BY <1>1
  <2>3. (s.buf \o s.net)[1].t = c.curResp
    BY <2>1, <2>2, FirstPiece, Zenon
  <2> QED BY <1>5, <2>3
<1>7. \A p \in ToSet(got) : p.t \in Tx /\ Silent(x[p.t])
  <2> SUFFICES ASSUME NEW p \in ToSet(got) PROVE p.t \in Tx /\ Silent(x[p.t])  OBVIOUS
  <2>1. p \in ToSet(s.net)  BY <1>4
  <2>2. p.t \in Tx
    <3>1. ToSet(P) \subseteq Piece  BY SomeIn
    <3> QED BY <2>1, <3>1 DEF Piece
  <2>3. Given(p.t, x[p.t])  BY <1>1, <2>1 DEF Pieces
  <2>4. p.t # s.writer  BY <1>4
  <2>5. x[p.t].comp \notin Writing  BY <1>1, <2>2, <2>4 DEF Composers
  <2> QED BY <2>2, <2>3, <2>5 DEF Given, Silent, Writing, ComposerReady
<1>8. Silent(x[q])  BY <1>4, <1>6, <1>7
<1>9. SameComposers(x, y)  BY DEF Others, SameButParse, SameComposers
<1>10. /\ Headless(c, y) = Headless(c, x) /\ Midway(c, y) = Midway(c, x)
  BY <1>3 DEF Headless, Midway, SameButParse
<1>11. Composers(c, y, z) /\ Wire(c, y, z) /\ Starting(c, y) = Starting(c, x)
  <2>1. PendingWrite(c) => c.curReq \in Tx
    BY <1>1, Types DEF Mode
  <2>2. PendingWrite(c) => ~y[c.curReq].hdr
    BY <1>1, <2>1 DEF Composers, Others, SameButParse
  <2> QED BY <1>1, <1>9, <2>1, <2>2, ComposersKept
<1>12. Parsers(c, y, None)
  <2>1. ToSet(c.pendResp) \subseteq Tx
    <3>1. PICK r \in Seq(Tx) : r = c.pendResp  BY Types
    <3> QED BY <3>1, SomeIn
  <2>2. \A t \in ToSet(c.pendResp) : Waiting(y[t])
    BY <1>1, <2>1 DEF Parsers, Queues, Others
  <2>3. Current(y[q], None)
    BY <1>1, <1>2, <1>3, <1>8 DEF Parsers, Current, SameButParse, Silent
  <2>4. \A t \in Tx \ Awaits(c) : Off(y[t])
    BY <1>1, <1>2, <1>3 DEF Parsers, Others, Awaits
  <2> QED BY <2>2, <2>3, <2>4 DEF Parsers
<1>13. z.buf \o z.net = s.buf \o s.net  BY <1>4, <1>5
<1>14. Answers(c, y, z)
  BY <1>1, <1>10, <1>11, <1>13 DEF Answers
<1>15. Pieces(c, y, z)
  <2>1. Parts(z.buf \o z.net, Midway(c, y), c.curResp)
    BY <1>1, <1>10, <1>13 DEF Pieces
  <2>2. Midway(c, y) => y[c.curResp].len = "sized"  BY <1>1, <1>10 DEF Pieces, SameButParse
  <2>3. \A p \in ToSet(z.buf) \cup ToSet(z.net) : p.t \in Tx /\ p \in ToSet(s.net)
    <3>1. ToSet(P) \subseteq Piece  BY SomeIn
    <3> QED BY <1>4, <3>1 DEF Piece
  <2>4. \A p \in ToSet(z.buf) \cup ToSet(z.net) :
          Given(p.t, y[p.t]) /\ (p.close => c.nonPersistent) /\ p.len # "unknown"
    BY <1>1, <1>9, <2>3 DEF Pieces, SameComposers, Given
  <2>5. \A p \in ToSet(z.buf) : Silent(y[p.t])
    BY <1>7, <1>9 DEF SameComposers, Silent
  <2> QED BY <2>1, <2>2, <2>4, <2>5 DEF Pieces
<1>16. Token(c, y, z, None)
  <2>1. z.reader = "ack" /\ z.buf # <<>> /\ c.curResp # None /\ y[c.curResp].parse = "run" /\ ~c.excess
    BY <1>2, <1>3, <1>4
  <2> QED BY <2>1 DEF Token
<1> QED BY <1>1, <1>3, <1>11, <1>12, <1>14, <1>15, <1>16 DEF Run, Loose

\* ReceivedDataIndL.
LEMMA ReceivedDataOrder == ASSUME Calm, Ordered(world), Good(world)', ReceivedDataIndL PROVE Ordered(world)'
<1>1. /\ world \in World /\ Sound(world) /\ Fit(cm, tx, sock) /\ Typed(cm, tx, sock)
      /\ world.cm = cm /\ world.tx = tx /\ world.sock = sock /\ world.panic = panic
  BY OrderedIs
<1>2. PICK n \in 1 .. Len(sock.net) :
         /\ WritesConfirmed(SubSeq(sock.net, 1, n))
         /\ Becomes(LET w == [world EXCEPT !.sock.reader = "ack", !.sock.buf = SubSeq(sock.net, 1, n),
                                           !.sock.net = SubSeq(@, n + 1, Len(@))]
                    IN  IF cm.curResp = None THEN ReceivedDataRes(w) ELSE Feed(w, cm.curResp))
  BY DEF ReceivedDataIndL
<1>3. Quiet /\ sock.reader = "read"  BY DEF ReceivedDataIndL
<1>4. PICK P \in Seq(Piece) : P = sock.net  BY <1>1, Types
<1>5. PICK got \in Seq(Piece), rest \in Seq(Piece) :
         Divides(P, got, rest) /\ got = SubSeq(P, 1, n) /\ rest = SubSeq(P, n + 1, Len(P))
  <2>1. n \in 1 .. Len(P)  BY <1>2, <1>4
  <2>2. Divides(P, SubSeq(P, 1, n), SubSeq(P, n + 1, Len(P)))  BY <2>1, ReadPart
  <2>3. SubSeq(P, 1, n) \in Seq(Piece) /\ SubSeq(P, n + 1, Len(P)) \in Seq(Piece)  BY <2>2 DEF Divides
  <2> QED BY <2>2, <2>3
<1> DEFINE w == Reads(world, got, rest)
<1>6. [world EXCEPT !.sock.reader = "ack", !.sock.buf = SubSeq(sock.net, 1, n),
                    !.sock.net = SubSeq(@, n + 1, Len(@))] = w
  <2>1. world.sock \in Socket  BY <1>1 DEF World
  <2>2. [world EXCEPT !.sock.reader = "ack", !.sock.buf = got, !.sock.net = SubSeq(@, n + 1, Len(@))]
          = [world EXCEPT !.sock.reader = "ack", !.sock.buf = got,
                          !.sock.net = SubSeq(world.sock.net, n + 1, Len(world.sock.net))]
    BY <1>1, <2>1 DEF World, Socket
  <2> QED BY <1>1, <1>4, <1>5, <2>2 DEF Reads
<1>7. PICK h \in Tx \cup {None} : Run(cm, tx, sock, h)
  <2>1. sock.net # <<>>  BY <1>4, <1>5 DEF Divides
  <2>2. ~Rest(cm, tx, sock) /\ ~Make(cm, tx, sock)  BY <2>1 DEF Rest, Make, Still
  <2> QED BY <1>1, <2>2 DEF Fit
<1>8. PICK q \in Tx : q = cm.curResp /\ tx[q].parse = "wait" /\ q # None
  <2>1. Queues(cm, h) /\ Token(cm, tx, sock, h)  BY <1>7 DEF Run, Loose
  <2>2. h = None  BY <1>3, <2>1 DEF Token
  <2>3. cm.curResp # None  BY <2>1, <2>2 DEF Queues
  <2>4. cm.curResp \in Tx  BY <1>1, <2>3, Types
  <2>5. tx[cm.curResp].parse = "wait"  BY <1>3, <2>4 DEF Quiet
  <2> QED BY <2>3, <2>4, <2>5
<1> DEFINE v == Feed(w, q)
<1>9. Becomes(v)  BY <1>2, <1>6, <1>8
<1>10. /\ w \in World /\ w.cm = cm /\ w.tx = tx /\ w.panic = panic
       /\ w.sock.reader = "ack" /\ w.sock.buf = got /\ w.sock.net = rest
       /\ w.sock.open = sock.open /\ w.sock.writer = sock.writer /\ w.sock.wire = sock.wire
       /\ w.sock.sent = sock.sent /\ w.sock.hup = sock.hup
  <2>1. world \in World  BY <1>1
  <2>2. /\ w \in World /\ w.cm = world.cm /\ w.tx = world.tx /\ w.panic = world.panic
        /\ w.sock.reader = "ack" /\ w.sock.buf = got /\ w.sock.net = rest
        /\ w.sock.open = world.sock.open /\ w.sock.writer = world.sock.writer
        /\ w.sock.wire = world.sock.wire /\ w.sock.sent = world.sock.sent /\ w.sock.hup = world.sock.hup
    <3>1. ASSUME NEW W \in World
          PROVE  LET b == Reads(W, got, rest) IN
                 /\ b \in World /\ b.cm = W.cm /\ b.tx = W.tx /\ b.panic = W.panic
                 /\ b.sock.reader = "ack" /\ b.sock.buf = got /\ b.sock.net = rest
                 /\ b.sock.open = W.sock.open /\ b.sock.writer = W.sock.writer /\ b.sock.wire = W.sock.wire
                 /\ b.sock.sent = W.sock.sent /\ b.sock.hup = W.sock.hup
      BY ReadsIs
    <3> QED BY <2>1, <3>1
  <2> HIDE DEF w
  <2> QED BY <1>1, <2>2
<1> HIDE DEF w
<1>11. /\ v \in World /\ v.cm = w.cm /\ v.sock = w.sock /\ v.panic = w.panic
       /\ Others(w.tx, v.tx, q) /\ v.tx[q].parse = "run" /\ SameButParse(w.tx[q], v.tx[q])
  <2>1. w.tx[q].parse = "wait"  BY <1>8, <1>10
  <2> QED BY <1>10, <2>1, FeedIs
<1> HIDE DEF v
<1>12. Run(v.cm, v.tx, v.sock, None)
  <2> DEFINE y == v.tx
             z == v.sock
  <2>1. Typed(cm, y, z)  BY <1>1, <1>10, <1>11 DEF Typed, World
  <2>2. \A u \in Tx : tx[u].comp \notin ComposerReady  BY <1>3 DEF Quiet
  <2>3. \A i \in DOMAIN got : got[i].t # sock.writer
    <3>1. "overtake" \notin Env  BY DEF Calm
    <3> QED BY <1>2, <1>4, <1>5, <3>1 DEF WritesConfirmed
  <2>4. Others(tx, y, q) /\ y[q].parse = "run" /\ SameButParse(tx[q], y[q])  BY <1>10, <1>11
  <2>5. /\ z.reader = "ack" /\ z.buf = got /\ z.net = rest
        /\ z.writer = sock.writer /\ z.wire = sock.wire /\ z.sent = sock.sent /\ z.hup = sock.hup
    BY <1>10, <1>11
  <2> HIDE DEF y, z
  <2>6. Run(cm, y, z, None)
    BY <1>1, <1>3, <1>4, <1>5, <1>7, <1>8, <2>1, <2>2, <2>3, <2>4, <2>5, ReadRun
  <2> QED BY <1>10, <1>11, <2>6 DEF y, z
<1>13. Sound(v)
  <2>1. \A u \in Tx : Tame(world.tx[u], v.tx[u])
    BY <1>1, <1>10, <1>11 DEF Tame, Others, SameButParse
  <2>2. "EDiscardSndDataCnf" \notin v.cm.flags  BY <1>1, <1>10, <1>11 DEF Sound
  <2> QED BY <1>1, <1>10, <1>11, <2>1, <2>2, TameSound
<1>14. Sorted(v)  BY <1>12, <1>13, RunSorted
<1> QED BY <1>9, <1>14, BecomesOrdered

-----------------------------------------------------------------------------
(* The parser parses a piece                                               *)

\* A parser at work is that of the current response.
LEMMA AtParse ==
  ASSUME NEW c, NEW x, NEW s, Typed(c, x, s), Fit(c, x, s), NEW t \in Tx, x[t].parse # "wait"
  PROVE  /\ Run(c, x, s, None) /\ t = c.curResp /\ Silent(x[t]) /\ ~c.excess
         /\ x[t].status = "active" /\ ~x[t].hold /\ ~x[t].msgDone /\ s.reader = "ack"
         /\ (x[t].unread => x[t].parse = "end") /\ (x[t].parse = "end" => x[t].hdr)
<1>1. ~Rest(c, x, s)  BY DEF Rest, Off
<1>2. ~Make(c, x, s)  BY DEF Make, Off, Waiting
<1>3. PICK h \in Tx \cup {None} : Run(c, x, s, h)  BY <1>1, <1>2 DEF Fit
<1>4. Parsers(c, x, h) /\ Token(c, x, s, h) /\ (h # None => Held(x[h]))  BY <1>3 DEF Run, Loose
<1>5. t # h /\ t # None  BY <1>4, Types DEF Held
<1>6. t \in Awaits(c) /\ t \notin ToSet(c.pendResp)  BY <1>4, <1>5 DEF Parsers, Off, Waiting
<1>7. t = c.curResp  BY <1>6 DEF Awaits
<1>8. Current(x[t], h) /\ Silent(x[t]) /\ h = None  BY <1>4, <1>5, <1>7 DEF Parsers, Current
<1>9. ~c.excess /\ s.reader = "ack"  BY <1>4, <1>5, <1>7, <1>8, Types DEF Token
<1> QED BY <1>3, <1>7, <1>8, <1>9 DEF Current

\* The first piece of the buffer is taken.
LEMMA PieceTaken ==
  ASSUME NEW b \in Seq(Piece), b # <<>>, NEW n \in Seq(Piece)
  PROVE  /\ b \o n \in Seq(Piece) /\ b \o n # <<>> /\ (b \o n)[1] = Head(b) /\ Tail(b \o n) = Tail(b) \o n
         /\ Tail(b) \in Seq(Piece) /\ ToSet(b) = {Head(b)} \cup ToSet(Tail(b)) /\ Head(b) \in Piece
<1> DEFINE e == Head(b)
           r == Tail(b)
<1>1. e \in Piece /\ r \in Seq(Piece) /\ ToSet(b) = {e} \cup ToSet(r)  BY HeadAndTail
<1>2. b = Cat(One(e), r)  BY CatHead DEF None0
<1> HIDE DEF e, r
<1>3. Cat(b, n) = Cat(One(e), Cat(r, n))
  <2>1. One(e) \in Seq(Piece)  BY <1>1, OneType
  <2> QED BY <1>1, <1>2, <2>1, CatAssociative
<1>4. Cat(r, n) \in Seq(Piece)  BY <1>1, CatType
<1>5. PICK g \in Seq(Piece) : g = Cat(r, n)  BY <1>4
<1>6. /\ Head(Cat(One(e), g)) = e /\ Tail(Cat(One(e), g)) = g /\ Cat(One(e), g) # None0
      /\ Cat(One(e), g)[1] = e /\ Cat(One(e), g) \in Seq(Piece)
  BY <1>1, FrontOne
<1>7. /\ Cat(b, n) \in Seq(Piece) /\ Cat(b, n) # None0 /\ Cat(b, n)[1] = e /\ Tail(Cat(b, n)) = Cat(r, n)
  BY <1>3, <1>5, <1>6
<1> QED BY <1>1, <1>7 DEF Cat, None0, e, r

\* The parser has r before it takes the piece p from the buffer, and q afterwards.
Takes(r, q, p, s, z) ==
  /\ q.comp = r.comp /\ q.status = "active" /\ ~q.hold /\ ~q.msgDone /\ q.hdr
  /\ q.unread => q.parse = "end"
  /\ q.parse = "end" <=> ~(p.part = "head" /\ p.len = "sized")
  /\ p.part = "head" => q.len = p.len
  /\ z.buf = Tail(s.buf)
  /\ q.parse = "wait" => z.buf = <<>>
  /\ q.parse = "run" => z.buf # <<>>
  /\ z.reader = IF q.parse = "wait" THEN "read" ELSE "ack"

\* Headers are parsed, or a body: what is left is the rest of this answer and the
\* answers of those behind.
LEMMA PieceRun ==
  ASSUME NEW c, NEW x, NEW s, Typed(c, x, s), Run(c, x, s, None),
         NEW q \in Tx, q = c.curResp, x[q].parse = "run",
         NEW p, p = Head(s.buf), s.buf # <<>>, x[q].hdr = (p.part = "tail"),
         NEW y, NEW z, Typed(c, y, z), Others(x, y, q),
         Takes(x[q], y[q], p, s, z),
         z.net = s.net, z.writer = s.writer, z.wire = s.wire, z.sent = s.sent, z.hup = s.hup
  PROVE  Run(c, y, z, None)
<1>1. /\ c.state = "EConnected" /\ Queues(c, None) /\ Mode(c, None) /\ Parsers(c, x, None) /\ Composers(c, x, s)
      /\ Wire(c, x, s) /\ Answers(c, x, s) /\ Pieces(c, x, s) /\ Token(c, x, s, None)
  BY DEF Run, Loose
<1>0. /\ y[q].comp = x[q].comp /\ y[q].status = "active" /\ ~y[q].hold /\ ~y[q].msgDone /\ y[q].hdr
      /\ y[q].unread => y[q].parse = "end"
      /\ y[q].parse = "end" <=> ~(p.part = "head" /\ p.len = "sized")
      /\ p.part = "head" => y[q].len = p.len
      /\ z.buf = Tail(s.buf)
      /\ y[q].parse = "wait" => z.buf = <<>>
      /\ y[q].parse = "run" => z.buf # <<>>
      /\ z.reader = IF y[q].parse = "wait" THEN "read" ELSE "ack"
  BY DEF Takes
<1>2. q # None /\ None \notin Tx  BY Types
<1>3. PICK b \in Seq(Piece), n \in Seq(Piece) : b = s.buf /\ n = s.net /\ b # <<>>  BY Types
<1>4. PICK P \in Seq(Piece), R \in Seq(Piece) :
         /\ P = s.buf \o s.net /\ P # <<>> /\ P[1] = p /\ R = Tail(P) /\ R = z.buf \o z.net
         /\ ToSet(s.buf) = {p} \cup ToSet(z.buf) /\ p \in Piece /\ p \in ToSet(s.buf) /\ z.buf \in Seq(Piece)
  <2>1. /\ b \o n \in Seq(Piece) /\ b \o n # <<>> /\ (b \o n)[1] = Head(b) /\ Tail(b \o n) = Tail(b) \o n
        /\ Tail(b) \in Seq(Piece) /\ ToSet(b) = {Head(b)} \cup ToSet(Tail(b)) /\ Head(b) \in Piece
    BY <1>3, PieceTaken
  <2>2. Tail(b) \o n \in Seq(Piece)  BY <2>1, ConcatProperties
  <2> QED BY <1>0, <1>3, <2>1, <2>2
<1>5. p.t = q
  <2>1. c.curResp # None /\ x[c.curResp].parse # "end" /\ s.buf \o s.net # <<>>  BY <1>2, <1>4
  <2>2. Answers(c, x, s) /\ Pieces(c, x, s) /\ Typed(c, x, s)  BY <1>1
  <2>3. (s.buf \o s.net)[1].t = c.curResp  BY <2>1, <2>2, FirstPiece, Zenon
  <2> QED BY <1>4, <2>3
<1>6. Silent(x[q])  BY <1>1, <1>4, <1>5 DEF Pieces
<1>7. SameComposers(x, y)  BY DEF Others, SameComposers, Takes
<1>8. ~PendingWrite(c)
  <2>1. SUFFICES ASSUME PendingWrite(c) PROVE FALSE  OBVIOUS
  <2>2. ~First(c) => c.curReq = c.curResp  BY <1>1, <2>1 DEF Mode
  <2>3. ~First(c)  BY <1>1, <2>1 DEF Mode
  <2> QED BY <1>1, <1>6, <2>1, <2>2, <2>3 DEF Composers, Silent
<1>9. Composers(c, y, z) /\ Wire(c, y, z) /\ Starting(c, y) = Starting(c, x)
  BY <1>1, <1>7, <1>8, ComposersKept
<1>10. Parsers(c, y, None)
  <2>1. ToSet(c.pendResp) \subseteq Tx
    <3>1. PICK r \in Seq(Tx) : r = c.pendResp  BY Types
    <3> QED BY <3>1, SomeIn
  <2>2. \A t \in ToSet(c.pendResp) : Waiting(y[t])  BY <1>1, <2>1 DEF Parsers, Queues, Others
  <2>3. Current(y[q], None)  BY <1>0, <1>6 DEF Current, Silent
  <2>4. \A t \in Tx \ Awaits(c) : Off(y[t])  BY <1>1, <1>2 DEF Parsers, Others, Awaits
  <2> QED BY <2>2, <2>3, <2>4 DEF Parsers
<1>11. p.part \in {"head", "tail"} /\ p.len \in Lengths  BY <1>4 DEF Piece
<1>12. Pieces(c, y, z)
  <2> DEFINE m == Midway(c, y)
  <2>1. m \in BOOLEAN /\ (m <=> P[1].part = "head" /\ P[1].len = "sized")
    BY <1>0, <1>2, <1>4 DEF Midway
  <2>2. Parts(P, Midway(c, x), c.curResp)  BY <1>1, <1>4 DEF Pieces
  <2> HIDE DEF m
  <2>3. Parts(R, m, c.curResp)
    <3>1. m => c.curResp = P[1].t  BY <1>4, <1>5
    <3> QED BY <1>4, <2>1, <2>2, <3>1, PartsRest
  <2>4. Parts(z.buf \o z.net, Midway(c, y), c.curResp)  BY <1>4, <2>3 DEF m
  <2>5. Midway(c, y) => y[c.curResp].len = "sized"  BY <1>0, <1>4, <2>1 DEF m
  <2>6. \A e \in ToSet(z.buf) \cup ToSet(z.net) : e \in ToSet(s.buf) \cup ToSet(s.net) /\ e.t \in Tx
    <3>1. ToSet(b) \subseteq Piece /\ ToSet(n) \subseteq Piece  BY SomeIn
    <3> QED BY <1>3, <1>4, <3>1 DEF Piece
  <2>7. \A e \in ToSet(z.buf) \cup ToSet(z.net) :
          Given(e.t, y[e.t]) /\ (e.close => c.nonPersistent) /\ e.len # "unknown"
    BY <1>1, <1>7, <2>6 DEF Pieces, SameComposers, Given
  <2>8. \A e \in ToSet(z.buf) : Silent(y[e.t])
    BY <1>1, <1>4, <1>7, <2>6 DEF Pieces, SameComposers, Silent
  <2> QED BY <2>4, <2>5, <2>7, <2>8 DEF Pieces
<1>13. Answers(c, y, z)
  <2> DEFINE a == HeadsIn(P)
             f == HeadsIn(R)
             g == Starting(c, x)
             o == c.pendReq
             w == s.wire
             e == c.pendResp
  <2>1. a \in Seq(Tx) /\ f \in Seq(Tx) /\ g \in Seq(Tx) /\ o \in Seq(Tx) /\ w \in Seq(Tx) /\ e \in Seq(Tx)
    BY HeadsInType, AnswersAre, Types
  <2>2. a = IF p.part = "head" THEN Cat(One(q), f) ELSE f  BY <1>4, <1>5, HeadFirst
  <2>3. Line(a, w, g, o) = Cat(Headless(c, x), e)  BY <1>1, <1>4, AnswersLine
  <2>4. Headless(c, x) = IF p.part = "head" THEN One(q) ELSE None0
    BY <1>2, <1>11 DEF Headless, One, None0
  <2>5. Headless(c, y) = None0  BY <1>0, <1>2 DEF Headless, None0
  <2> HIDE DEF a, f, g, o, w, e
  <2>6. Line(f, w, g, o) = e
    <3>1. CASE p.part = "head"
      <4>1. Line(Cat(One(q), f), w, g, o) = Cat(One(q), Line(f, w, g, o))  BY <2>1, LineParsed
      <4>2. PICK l \in Seq(Tx) : l = Line(f, w, g, o)  BY <2>1, Regroup
      <4>3. Cat(One(q), l) = Cat(One(q), e)  BY <2>2, <2>3, <2>4, <3>1, <4>1, <4>2
      <4>4. l = e  BY <2>1, <4>3, SameFirst
      <4> QED BY <4>2, <4>4
    <3>2. CASE p.part # "head"
      <4>1. Cat(None0, e) = e  BY <2>1, CatNone
      <4> QED BY <2>2, <2>3, <2>4, <3>2, <4>1
    <3> QED BY <3>1, <3>2
  <2>7. Cat(None0, e) = e  BY <2>1, CatNone
  <2>8. Line(HeadsIn(z.buf \o z.net), z.wire, Starting(c, y), c.pendReq) = Cat(Headless(c, y), c.pendResp)
    BY <1>4, <1>9, <2>5, <2>6, <2>7 DEF f, g, o, w, e
  <2> QED BY <2>8, AnswersLine
<1>14. Token(c, y, z, None)
  <2>1. ~c.excess  BY <1>1 DEF Token
  <2>2. y[q] \in Transaction  BY Types
  <2>3. y[q].parse \in {"wait", "run", "end"}  BY <2>2 DEF Transaction, ParserStates
  <2> QED BY <1>0, <1>2, <2>1, <2>3 DEF Token
<1> QED BY <1>1, <1>9, <1>10, <1>12, <1>13, <1>14 DEF Run, Loose

\* v is w but for one transaction and the received buffer.
Slotted(w, v, t, r, b, k) ==
  /\ v \in World /\ v.cm = w.cm /\ v.panic = w.panic /\ Others(w.tx, v.tx, t) /\ v.tx[t] = r
  /\ v.sock.buf = b /\ v.sock.reader = k
  /\ v.sock.open = w.sock.open /\ v.sock.net = w.sock.net /\ v.sock.writer = w.sock.writer
  /\ v.sock.wire = w.sock.wire /\ v.sock.sent = w.sock.sent /\ v.sock.hup = w.sock.hup

\* To put a transaction in its slot leaves the buffer and the reader as they are.
LEMMA SlottedPut ==
  ASSUME NEW w \in World, NEW t \in Tx, NEW r \in Transaction
  PROVE  Slotted(w, Put(w, t, r), t, r, w.sock.buf, w.sock.reader)
<1> DEFINE v == Put(w, t, r)
<1>1. /\ v.cm = w.cm /\ v.sock = w.sock /\ v.panic = w.panic
      /\ v.tx[t] = r
      /\ \A u \in Tx : u # t => v.tx[u] = w.tx[u]
      /\ v \in World
  BY PutIs
<1> HIDE DEF v
<1>2. Slotted(w, v, t, r, w.sock.buf, w.sock.reader)  BY <1>1 DEF Slotted, Others
<1> QED BY <1>2 DEF v

Buffer(w, b) == [w EXCEPT !.sock.buf = b]

\* A buffer that is shortened after a transaction was put in its slot.
LEMMA SlottedBuffer ==
  ASSUME NEW w \in World, NEW u \in World, NEW t \in Tx, NEW r, NEW b, NEW k, Slotted(w, u, t, r, b, k),
         NEW d \in Seq(Piece)
  PROVE  Slotted(w, Buffer(u, d), t, r, d, k)
<1>1. u.sock \in Socket  BY DEF World
<1> DEFINE z == [u.sock EXCEPT !.buf = d]
           v == Buffer(u, d)
<1>2. /\ z \in Socket /\ z.reader = u.sock.reader /\ z.buf = d
      /\ z.open = u.sock.open /\ z.net = u.sock.net /\ z.writer = u.sock.writer
      /\ z.wire = u.sock.wire /\ z.sent = u.sock.sent /\ z.hup = u.sock.hup
  BY <1>1 DEF Socket
<1>3. v = [u EXCEPT !.sock = z]  BY <1>1 DEF Buffer, World, Socket
<1> HIDE DEF z
<1>4. v \in World /\ v.cm = u.cm /\ v.panic = u.panic /\ v.tx = u.tx /\ v.sock = z
  BY <1>2, <1>3 DEF World
<1> HIDE DEF v
<1>5. Slotted(w, v, t, r, d, k)  BY <1>2, <1>4 DEF Slotted
<1> QED BY <1>5 DEF v

\* A buffer that is given back after a transaction was put in its slot.
LEMMA SlottedBack ==
  ASSUME NEW w \in World, NEW u \in World, NEW t \in Tx, NEW r, NEW b, NEW k, Slotted(w, u, t, r, b, k)
  PROVE  Slotted(w, [u EXCEPT !.sock.reader = "read", !.sock.buf = <<>>], t, r, <<>>, "read")
<1>1. u.sock \in Socket  BY DEF World
<1> DEFINE z == [u.sock EXCEPT !.reader = "read", !.buf = <<>>]
           v == [u EXCEPT !.sock.reader = "read", !.sock.buf = <<>>]
<1>2. /\ z \in Socket /\ z.reader = "read" /\ z.buf = <<>>
      /\ z.open = u.sock.open /\ z.net = u.sock.net /\ z.writer = u.sock.writer
      /\ z.wire = u.sock.wire /\ z.sent = u.sock.sent /\ z.hup = u.sock.hup
  BY <1>1, EmptySeq DEF Socket
<1>3. v = [u EXCEPT !.sock = z]  BY <1>1 DEF World, Socket
<1> HIDE DEF z
<1>4. v \in World /\ v.cm = u.cm /\ v.panic = u.panic /\ v.tx = u.tx /\ v.sock = z
  BY <1>2, <1>3 DEF World
<1> HIDE DEF v
<1>5. Slotted(w, v, t, r, <<>>, "read")  BY <1>2, <1>4 DEF Slotted
<1> QED BY <1>5 DEF v

\* To move a parser is to put its transaction.
LEMMA PutsParse ==
  ASSUME NEW w \in World, NEW t \in Tx, NEW k
  PROVE  [w EXCEPT !.tx[t].parse = k] = Put(w, t, [w.tx[t] EXCEPT !.parse = k])
<1>1. w.tx \in [Tx -> Transaction]  BY DEF World
<1> QED BY <1>1 DEF Put, World

\* A parser that is moved after its transaction was put in its slot.
LEMMA SlottedParse ==
  ASSUME NEW w \in World, NEW u \in World, NEW t \in Tx, NEW r \in Transaction, NEW b, NEW k,
         Slotted(w, u, t, r, b, k), NEW j \in ParserStates
  PROVE  Slotted(w, [u EXCEPT !.tx[t].parse = j], t, [r EXCEPT !.parse = j], b, k)
<1> DEFINE q == [r EXCEPT !.parse = j]
           v == Put(u, t, q)
<1>1. q \in Transaction  BY DEF Transaction
<1>2. u.tx[t] = r  BY DEF Slotted
<1>3. [u EXCEPT !.tx[t].parse = j] = v  BY <1>2, PutsParse
<1> HIDE DEF q
<1>4. /\ v.cm = u.cm /\ v.sock = u.sock /\ v.panic = u.panic
      /\ v.tx[t] = q
      /\ \A e \in Tx : e # t => v.tx[e] = u.tx[e]
      /\ v \in World
  BY <1>1, PutIs
<1> HIDE DEF v
<1>5. Slotted(w, v, t, q, b, k)  BY <1>4 DEF Slotted, Others
<1> QED BY <1>3, <1>5 DEF q

\* The body is parsed.
LEMMA TailIs ==
  ASSUME NEW w \in World, NEW t \in Tx, w.tx[t].len = "sized", NEW b \in Seq(Piece), b = Tail(w.sock.buf)
  PROVE  Slotted(w, ParseTail(w, t), t,
                 [[w.tx[t] EXCEPT !.unread = TRUE, !.body = TRUE] EXCEPT !.parse = "end"], b, w.sock.reader)
<1>1. w.tx \in [Tx -> Transaction] /\ w.tx[t] \in Transaction  BY DEF World
<1> DEFINE r == [w.tx[t] EXCEPT !.unread = TRUE, !.body = TRUE]
           u1 == Put(w, t, r)
           u2 == Buffer(u1, b)
<1>2. r \in Transaction  BY <1>1 DEF Transaction
<1>3. [w EXCEPT !.tx[t].unread = TRUE, !.tx[t].body = TRUE] = u1  BY <1>1 DEF Put, World
<1>4. u1.sock = w.sock /\ u1 \in World
  <2> HIDE DEF r
  <2> QED BY <1>2, PutIs
<1>5. [w EXCEPT !.tx[t].unread = TRUE, !.tx[t].body = TRUE, !.sock.buf = Tail(@)] = u2
  <2>1. [w EXCEPT !.tx[t].unread = TRUE, !.tx[t].body = TRUE, !.sock.buf = Tail(@)]
          = [[w EXCEPT !.tx[t].unread = TRUE, !.tx[t].body = TRUE] EXCEPT !.sock.buf = Tail(@)]
    OBVIOUS
  <2> HIDE DEF u1
  <2>2. [u1 EXCEPT !.sock.buf = Tail(@)] = [u1 EXCEPT !.sock.buf = Tail(u1.sock.buf)]
    OBVIOUS
  <2> QED BY <1>3, <1>4, <2>1, <2>2 DEF Buffer
<1>6. ParseTail(w, t) = [u2 EXCEPT !.tx[t].parse = "end"]  BY <1>5 DEF ParseTail
<1> HIDE DEF r
<1>7. Slotted(w, u1, t, r, w.sock.buf, w.sock.reader)  BY <1>2, SlottedPut
<1> HIDE DEF u1
<1>8. Slotted(w, u2, t, r, b, w.sock.reader)  BY <1>4, <1>7, SlottedBuffer
<1> HIDE DEF u2
<1>9. u2 \in World /\ "end" \in ParserStates  BY <1>8 DEF Slotted, ParserStates
<1>10. Slotted(w, [u2 EXCEPT !.tx[t].parse = "end"], t, [r EXCEPT !.parse = "end"], b, w.sock.reader)
  BY <1>2, <1>8, <1>9, SlottedParse
<1> QED BY <1>6, <1>10 DEF r

\* The headers are parsed, once a connection that will be closed is known as one.
HeadParsed(w, t, piece) ==
  LET w2 == [w EXCEPT !.tx[t].hdr = TRUE, !.tx[t].len = piece.len, !.sock.buf = Tail(@)]
  IN  IF piece.len = "none" THEN [w2 EXCEPT !.tx[t].parse = "end"]
      ELSE IF w2.sock.buf = <<>> THEN BufferEmpty(w2, t) ELSE w2

\* What ParseHead does with a head whose length is known: it takes the piece, and goes on,
\* waits for more data, or ends when the response has no body.
LEMMA HeadIs ==
  ASSUME NEW w \in World, NEW t \in Tx, t = w.cm.curResp, w.cm.state = "EConnected", ~w.cm.excess,
         ~w.tx[t].unread, w.sock.open, w.sock.reader = "ack", w.tx[t].parse = "run",
         NEW p \in Piece, p.close => w.cm.nonPersistent, p.len \in {"none", "sized"},
         NEW b \in Seq(Piece), b = Tail(w.sock.buf),
         NEW k \in ParserStates, k = IF p.len = "none" THEN "end" ELSE IF b = <<>> THEN "wait" ELSE "run",
         NEW j, j = IF k = "wait" THEN "read" ELSE "ack"
  PROVE  Slotted(w, ParseHead(w, t, p), t,
                 [[w.tx[t] EXCEPT !.hdr = TRUE, !.len = p.len] EXCEPT !.parse = k], b, j)
<1>1. w.tx \in [Tx -> Transaction] /\ w.tx[t] \in Transaction  BY DEF World
<1>2. (IF p.close THEN MakeConnectionNonPersistent(w) ELSE w) = w  BY DEF MakeConnectionNonPersistent
<1> DEFINE r == [w.tx[t] EXCEPT !.hdr = TRUE, !.len = p.len]
           u1 == Put(w, t, r)
           u2 == Buffer(u1, b)
<1>3. r \in Transaction /\ ~r.unread /\ r.parse = "run"  BY <1>1 DEF Transaction, Lengths
<1>4. [w EXCEPT !.tx[t].hdr = TRUE, !.tx[t].len = p.len] = u1  BY <1>1 DEF Put, World
<1>5. u1.sock = w.sock /\ u1 \in World
  <2> HIDE DEF r
  <2> QED BY <1>3, PutIs
<1>6. [w EXCEPT !.tx[t].hdr = TRUE, !.tx[t].len = p.len, !.sock.buf = Tail(@)] = u2
  <2>1. [w EXCEPT !.tx[t].hdr = TRUE, !.tx[t].len = p.len, !.sock.buf = Tail(@)]
          = [[w EXCEPT !.tx[t].hdr = TRUE, !.tx[t].len = p.len] EXCEPT !.sock.buf = Tail(@)]
    OBVIOUS
  <2> HIDE DEF u1
  <2>2. [u1 EXCEPT !.sock.buf = Tail(@)] = [u1 EXCEPT !.sock.buf = Tail(u1.sock.buf)]
    OBVIOUS
  <2> QED BY <1>4, <1>5, <2>1, <2>2 DEF Buffer
<1>7. ParseHead(w, t, p) = IF p.len = "none" THEN [u2 EXCEPT !.tx[t].parse = "end"]
                           ELSE IF u2.sock.buf = <<>> THEN BufferEmpty(u2, t) ELSE u2
  <2> DEFINE w1 == IF p.close THEN MakeConnectionNonPersistent(w) ELSE w
  <2>1. ParseHead(w, t, p) = HeadParsed(w1, t, p)  BY Zenon DEF ParseHead, HeadParsed
  <2>2. w1 = w  BY <1>2
  <2> HIDE DEF w1
  <2>3. ParseHead(w, t, p) = HeadParsed(w, t, p)  BY <2>1, <2>2
  <2> DEFINE w2 == [w EXCEPT !.tx[t].hdr = TRUE, !.tx[t].len = p.len, !.sock.buf = Tail(@)]
  <2>4. HeadParsed(w, t, p) = IF p.len = "none" THEN [w2 EXCEPT !.tx[t].parse = "end"]
                              ELSE IF w2.sock.buf = <<>> THEN BufferEmpty(w2, t) ELSE w2
    BY Zenon DEF HeadParsed
  <2>5. w2 = u2  BY <1>6
  <2> HIDE DEF u2, w2
  <2> QED BY <2>3, <2>4, <2>5
<1>8. [r EXCEPT !.parse = "run"] = r  BY <1>3 DEF Transaction
<1>9. [r EXCEPT !.parse = "wait"] \in Transaction /\ ~[r EXCEPT !.parse = "wait"].unread
  BY <1>3 DEF Transaction, ParserStates
<1> HIDE DEF r
<1>10. Slotted(w, u1, t, r, w.sock.buf, w.sock.reader)  BY <1>3, SlottedPut
<1> HIDE DEF u1
<1>11. Slotted(w, u2, t, r, b, w.sock.reader)  BY <1>5, <1>10, SlottedBuffer
<1> HIDE DEF u2
<1>12. u2 \in World /\ u2.sock.buf = b  BY <1>11 DEF Slotted
<1>13. CASE p.len = "none"
  <2>1. Slotted(w, [u2 EXCEPT !.tx[t].parse = k], t, [r EXCEPT !.parse = k], b, w.sock.reader)
    BY <1>3, <1>11, <1>12, SlottedParse
  <2>2. k = "end" /\ j = "ack"  BY <1>13
  <2>3. ParseHead(w, t, p) = [u2 EXCEPT !.tx[t].parse = k]  BY <1>7, <1>13, <2>2
  <2> QED BY <2>1, <2>2, <2>3 DEF r
<1>14. CASE p.len # "none" /\ b # <<>>
  <2>1. k = "run" /\ j = "ack" /\ ParseHead(w, t, p) = u2  BY <1>7, <1>12, <1>14
  <2> QED BY <1>8, <1>11, <2>1 DEF r
<1>15. CASE p.len # "none" /\ b = <<>>
  <2> DEFINE w3 == [u2 EXCEPT !.tx[t].parse = "wait"]
             q == [r EXCEPT !.parse = "wait"]
  <2>1. k = "wait" /\ j = "read" /\ "wait" \in ParserStates  BY <1>15 DEF ParserStates
  <2>2. Slotted(w, w3, t, q, b, w.sock.reader)  BY <1>3, <1>11, <1>12, <2>1, SlottedParse
  <2>3. ParseHead(w, t, p) = ReleaseDataPacket(w3, t)  BY <1>7, <1>12, <1>15 DEF BufferEmpty
  <2>4. ~q.unread  BY <1>9
  <2> HIDE DEF w3, q
  <2>5. w3 \in World /\ w3.cm = w.cm /\ w3.sock.open /\ w3.sock.reader = "ack" /\ ~w3.tx[t].unread
    BY <2>2, <2>4 DEF Slotted
  <2>6. ReleaseDataPacket(w3, t) = ResponseDataParsed(w3)  BY <2>5 DEF ReleaseDataPacket
  <2>7. ResponseDataParsed(w3) = ReceivedDataRes(w3)
    <3>1. w3.cm.state = "EConnected" /\ w3.cm.curResp # None /\ ~w3.cm.excess
      BY <2>5, ConstantsAssumption
    <3> QED BY <3>1 DEF ResponseDataParsed
  <2>8. ReceivedDataRes(w3) = [w3 EXCEPT !.sock.reader = "read", !.sock.buf = <<>>]
    BY <2>5 DEF ReceivedDataRes
  <2>9. Slotted(w, [w3 EXCEPT !.sock.reader = "read", !.sock.buf = <<>>], t, q, <<>>, "read")
    BY <2>2, <2>5, SlottedBack
  <2>10. Slotted(w, ParseHead(w, t, p), t, q, b, j)  BY <1>15, <2>1, <2>3, <2>6, <2>7, <2>8, <2>9
  <2>11. q = [[w.tx[t] EXCEPT !.hdr = TRUE, !.len = p.len] EXCEPT !.parse = k]  BY <2>1 DEF q, r
  <2> QED BY <2>10, <2>11
<1> QED BY <1>13, <1>14, <1>15

\* What the parser makes of a transaction: headers, or a body.
Heads(r, l, k) == [[r EXCEPT !.hdr = TRUE, !.len = l] EXCEPT !.parse = k]
Bodies(r) == [[r EXCEPT !.unread = TRUE, !.body = TRUE] EXCEPT !.parse = "end"]

\* A transaction whose head is parsed differs in its head, its length and its parser.
LEMMA HeadsIs ==
  ASSUME NEW r \in Transaction, NEW l \in Lengths, NEW k \in ParserStates
  PROVE  LET q == Heads(r, l, k) IN
         /\ q \in Transaction /\ q.comp = r.comp /\ q.status = r.status /\ q.hold = r.hold
         /\ q.msgDone = r.msgDone /\ q.hdr /\ q.unread = r.unread /\ q.parse = k /\ q.len = l
         /\ q.pipeline = r.pipeline
  BY DEF Heads, Transaction

\* A transaction whose body is parsed has it unread and its parser at the end.
LEMMA BodiesIs ==
  ASSUME NEW r \in Transaction
  PROVE  LET q == Bodies(r) IN
         /\ q \in Transaction /\ q.comp = r.comp /\ q.status = r.status /\ q.hold = r.hold
         /\ q.msgDone = r.msgDone /\ q.hdr = r.hdr /\ q.unread /\ q.parse = "end" /\ q.len = r.len
         /\ q.pipeline = r.pipeline
  BY DEF Bodies, Transaction, ParserStates

\* A piece of the received buffer is parsed: what becomes of the parser and of the buffer.
LEMMA PieceSlotted ==
  ASSUME NEW w \in World, Sound(w), NEW c, c = w.cm, NEW x, x = w.tx, NEW s, s = w.sock,
         Fit(c, x, s), Typed(c, x, s), s.open, NEW t \in Tx,
         x[t].parse = "run", s.buf # <<>>, NEW p, p = Head(s.buf), x[t].hdr = (p.part = "tail"),
         NEW v, v = IF x[t].hdr THEN ParseTail(w, t) ELSE ParseHead(w, t, p)
  PROVE  \E r, b, i :
           /\ Slotted(w, v, t, r, b, i) /\ b = Tail(s.buf)
           /\ Run(c, x, s, None) /\ t = c.curResp /\ p \in Piece
           /\ r.comp = x[t].comp /\ x[t].status = "active" /\ r.status = "active" /\ ~r.hold /\ ~r.msgDone /\ r.hdr
           /\ r.unread => r.parse = "end"
           /\ r.parse = "end" <=> ~(p.part = "head" /\ p.len = "sized")
           /\ p.part = "head" => r.len = p.len
           /\ r.parse = "wait" => b = <<>>
           /\ r.parse = "run" => b # <<>>
           /\ i = IF r.parse = "wait" THEN "read" ELSE "ack"
           /\ Tame(x[t], r)
<1>1. /\ Run(c, x, s, None) /\ t = c.curResp /\ Silent(x[t]) /\ ~c.excess
      /\ x[t].status = "active" /\ ~x[t].hold /\ ~x[t].msgDone /\ s.reader = "ack" /\ ~x[t].unread
  <2>1. x[t].parse # "wait" /\ x[t].parse # "end"  OBVIOUS
  <2> QED BY <2>1, AtParse
<1>2. PICK b \in Seq(Piece), n \in Seq(Piece) :
         b = Tail(s.buf) /\ n = s.net /\ p \in Piece /\ p \in ToSet(s.buf)
  <2>1. PICK a \in Seq(Piece) : a = s.buf /\ a # <<>>  BY Types
  <2>2. Head(a) \in Piece /\ Head(a) \in ToSet(a) /\ Tail(a) \in Seq(Piece)  BY <2>1, HeadAndTail
  <2>3. s.net \in Seq(Piece)  BY Types
  <2> QED BY <2>1, <2>2, <2>3
<1>3. c.state = "EConnected" /\ Pieces(c, x, s)  BY <1>1 DEF Run, Loose
<1>4. (p.close => c.nonPersistent) /\ p.len \in {"none", "sized"} /\ p.part \in {"head", "tail"} /\ p.len \in Lengths
  BY <1>2, <1>3 DEF Pieces, Piece, Lengths
<1>5. x[t] \in Transaction /\ c.curResp # None  BY <1>1, Types
<1> DEFINE k == IF p.len = "none" THEN "end" ELSE IF b = <<>> THEN "wait" ELSE "run"
           j == IF k = "wait" THEN "read" ELSE "ack"
<1>6. k \in ParserStates  BY DEF ParserStates
<1>e. PICK r, i : /\ Slotted(w, v, t, r, b, i)
                  /\ IF p.part = "tail" THEN r = Bodies(x[t]) /\ i = "ack" ELSE r = Heads(x[t], p.len, k) /\ i = j
  <2>1. CASE p.part = "tail"
    <3>1. w.tx[t].len = "sized" /\ v = ParseTail(w, t)
      BY <1>1, <1>3, <1>5, <2>1 DEF Pieces, Midway
    <3>2. Slotted(w, ParseTail(w, t), t,
                 [[w.tx[t] EXCEPT !.unread = TRUE, !.body = TRUE] EXCEPT !.parse = "end"], b, w.sock.reader)
      BY <1>2, <3>1, TailIs
    <3>3. Slotted(w, v, t, Bodies(x[t]), b, "ack")  BY <1>1, <3>1, <3>2 DEF Bodies
    <3> QED BY <2>1, <3>3
  <2>2. CASE p.part = "head"
    <3>1. v = ParseHead(w, t, p)  BY <2>2
    <3> HIDE DEF j, k
    <3>2. /\ t = w.cm.curResp /\ w.cm.state = "EConnected" /\ ~w.cm.excess
          /\ ~w.tx[t].unread /\ w.sock.open /\ w.sock.reader = "ack" /\ w.tx[t].parse = "run"
          /\ (p.close => w.cm.nonPersistent) /\ b = Tail(w.sock.buf)
      BY <1>1, <1>2, <1>3, <1>4
    <3>3. k = IF p.len = "none" THEN "end" ELSE IF b = <<>> THEN "wait" ELSE "run"  BY DEF k
    <3>4. j = IF k = "wait" THEN "read" ELSE "ack"  BY DEF j
    <3>5. Slotted(w, ParseHead(w, t, p), t,
                 [[w.tx[t] EXCEPT !.hdr = TRUE, !.len = p.len] EXCEPT !.parse = k], b, j)
      BY <1>2, <1>4, <1>6, <3>2, <3>3, <3>4, HeadIs
    <3>6. Slotted(w, v, t, Heads(x[t], p.len, k), b, j)  BY <3>1, <3>5 DEF Heads
    <3> QED BY <2>2, <3>6
  <2> QED BY <1>4, <2>1, <2>2
<1>7. /\ r.comp = x[t].comp /\ r.status = "active" /\ ~r.hold /\ ~r.msgDone /\ r.hdr
      /\ r.unread => r.parse = "end"
      /\ r.parse = "end" <=> ~(p.part = "head" /\ p.len = "sized")
      /\ p.part = "head" => r.len = p.len
      /\ r.parse = "wait" => b = <<>>
      /\ r.parse = "run" => b # <<>>
      /\ i = IF r.parse = "wait" THEN "read" ELSE "ack"
      /\ Tame(x[t], r)
  <2>1. CASE p.part = "tail"
    <3> DEFINE q == Bodies(x[t])
    <3>1. /\ q.comp = x[t].comp /\ q.status = x[t].status /\ q.hold = x[t].hold
          /\ q.msgDone = x[t].msgDone /\ q.hdr = x[t].hdr /\ q.unread /\ q.parse = "end" /\ q.len = x[t].len
          /\ q.pipeline = x[t].pipeline
      BY <1>5, BodiesIs
    <3> HIDE DEF q
    <3>2. r = q /\ i = "ack"  BY <1>e, <2>1 DEF q
    <3> QED BY <1>1, <2>1, <3>1, <3>2 DEF Tame
  <2>2. CASE p.part = "head"
    <3> DEFINE q == Heads(x[t], p.len, k)
    <3>1. /\ q.comp = x[t].comp /\ q.status = x[t].status /\ q.hold = x[t].hold
          /\ q.msgDone = x[t].msgDone /\ q.hdr /\ q.unread = x[t].unread /\ q.parse = k /\ q.len = p.len
          /\ q.pipeline = x[t].pipeline
      <4> HIDE DEF k
      <4> QED BY <1>4, <1>5, <1>6, HeadsIs
    <3> HIDE DEF q
    <3>2. r = q /\ i = j  BY <1>e, <2>2 DEF q
    <3> QED BY <1>1, <1>4, <2>2, <3>1, <3>2 DEF Tame
  <2> QED BY <1>4, <2>1, <2>2
<1> HIDE DEF k, j
<1> QED BY <1>1, <1>2, <1>7, <1>e

\* The first piece of the buffer is parsed.
LEMMA PieceSorted ==
  ASSUME NEW w \in World, Sound(w), NEW c, c = w.cm, NEW x, x = w.tx, NEW s, s = w.sock,
         Fit(c, x, s), Typed(c, x, s), s.open, NEW t \in Tx,
         x[t].parse = "run", s.buf # <<>>, NEW p, p = Head(s.buf), x[t].hdr = (p.part = "tail"),
         NEW v, v = IF x[t].hdr THEN ParseTail(w, t) ELSE ParseHead(w, t, p)
  PROVE  Sorted(v)
<1>1. PICK r, b, i :
         /\ Slotted(w, v, t, r, b, i) /\ b = Tail(s.buf)
         /\ Run(c, x, s, None) /\ t = c.curResp /\ p \in Piece
         /\ r.comp = x[t].comp /\ x[t].status = "active" /\ r.status = "active" /\ ~r.hold /\ ~r.msgDone /\ r.hdr
         /\ r.unread => r.parse = "end"
         /\ r.parse = "end" <=> ~(p.part = "head" /\ p.len = "sized")
         /\ p.part = "head" => r.len = p.len
         /\ r.parse = "wait" => b = <<>>
         /\ r.parse = "run" => b # <<>>
         /\ i = IF r.parse = "wait" THEN "read" ELSE "ack"
         /\ Tame(x[t], r)
  BY PieceSlotted
<1> DEFINE y == v.tx
           z == v.sock
<1>2. /\ Others(x, y, t) /\ y[t] = r /\ z.buf = b /\ z.reader = i
      /\ z.net = s.net /\ z.writer = s.writer /\ z.wire = s.wire /\ z.sent = s.sent /\ z.hup = s.hup
      /\ v \in World /\ v.cm = c /\ v.panic = w.panic
  BY <1>1 DEF Slotted
<1>3. Typed(c, y, z)  BY <1>2 DEF Typed, World
<1> HIDE DEF y, z
<1>4. Run(c, y, z, None)
  <2>1. Takes(x[t], y[t], p, s, z)  BY <1>1, <1>2 DEF Takes
  <2> QED BY <1>1, <1>2, <1>3, <2>1, PieceRun
<1>5. Sound(v)
  <2>1. \A u \in Tx : Tame(w.tx[u], v.tx[u])  BY <1>1, <1>2 DEF Tame, Others, y
  <2>2. "EDiscardSndDataCnf" \notin v.cm.flags  BY <1>2 DEF Sound
  <2> QED BY <1>2, <2>1, <2>2, TameSound
<1>6. Run(v.cm, v.tx, v.sock, None)  BY <1>2, <1>4 DEF y, z
<1> QED BY <1>5, <1>6, RunSorted

-----------------------------------------------------------------------------
(* A response is complete                                                  *)

\* What ResponseComplete makes of the manager, when the buffer is b.
Completes(c, d, b) ==
  /\ d.state = c.state /\ d.flags = c.flags /\ d.curReq = c.curReq /\ d.pendReq = c.pendReq
  /\ d.nonPersistent = c.nonPersistent
  /\ IF c.pendResp = <<>> THEN d.curResp = None /\ d.pendResp = <<>> /\ d.excess = c.excess
     ELSE /\ d.excess <=> b # <<>>
          /\ IF First(c) THEN d.curResp = None /\ d.pendResp = c.pendResp
             ELSE d.curResp = Head(c.pendResp) /\ d.pendResp = Tail(c.pendResp)

\* When all that is awaited is held back, nothing else is on its way.
LEMMA NothingElse ==
  ASSUME NEW c, NEW x, NEW s, Typed(c, x, s), Answers(c, x, s), Pieces(c, x, s),
         Headless(c, x) = None0, ~Midway(c, x), c.pendReq = c.pendResp
  PROVE  s.buf = <<>> /\ s.net = <<>> /\ s.wire = <<>> /\ Starting(c, x) = None0
<1> DEFINE a == HeadsIn(s.buf \o s.net)
           g == Starting(c, x)
           o == c.pendReq
           w == s.wire
<1>1. a \in Seq(Tx) /\ g \in Seq(Tx) /\ o \in Seq(Tx) /\ w \in Seq(Tx)  BY AnswersAre, Types
<1>2. Line(a, w, g, o) = Cat(None0, o)  BY AnswersLine
<1> HIDE DEF g, o, w
<1>3. a = None0 /\ w = None0 /\ g = None0
  <2> HIDE DEF a
  <2>1. Cat(None0, o) = o  BY <1>1, CatNone
  <2> QED BY <1>1, <1>2, <2>1, LineEmpty
<1>4. PICK P \in Seq(Piece) : P = s.buf \o s.net  BY AnswersAre
<1>5. Parts(P, FALSE, c.curResp)
  <2>1. Midway(c, x) = FALSE  BY DEF Midway
  <2> QED BY <1>4, <2>1 DEF Pieces
<1>6. P = <<>>  BY <1>3, <1>4, <1>5, NoPieces
<1>7. PICK b \in Seq(Piece), n \in Seq(Piece) : b = s.buf /\ n = s.net  BY Types
<1>8. Cat(b, n) = None0  BY <1>4, <1>6, <1>7 DEF Cat, None0
<1>9. b = None0 /\ n = None0  BY <1>7, <1>8, CatEmpty
<1> QED BY <1>3, <1>7, <1>9 DEF None0, g, w

\* A complete response leaves the connection in use with its transaction as the holder,
\* but for what that transaction's own parser does.
LEMMA CompletesLoose ==
  ASSUME NEW c, NEW x, NEW s, Typed(c, x, s), Run(c, x, s, None), NEW t \in Tx, t = c.curResp,
         x[t].parse = "end", NEW d, NEW y, Typed(d, y, s), Others(x, y, t), y[t].comp = x[t].comp,
         Completes(c, d, s.buf)
  PROVE  Loose(d, y, s, t)
<1>1. /\ c.state = "EConnected" /\ Queues(c, None) /\ Mode(c, None) /\ Parsers(c, x, None) /\ Composers(c, x, s)
      /\ Wire(c, x, s) /\ Answers(c, x, s) /\ Pieces(c, x, s) /\ Token(c, x, s, None)
  BY DEF Run, Loose
<1>2. t # None /\ None \notin Tx  BY Types
<1>3. Current(x[t], None) /\ Silent(x[t]) /\ x[t].hdr /\ ~c.excess /\ s.reader = "ack"
  BY <1>1, <1>2 DEF Parsers, Current, Token
<1>4. ~PendingWrite(c) /\ (~First(c) => c.curReq # t)
  <2>1. SUFFICES ASSUME ~First(c), c.curReq = t PROVE FALSE  BY <1>1, <1>2 DEF Mode
  <2> QED BY <1>1, <1>2, <1>3, <2>1 DEF Composers, Silent, Working
<1>5. PICK e \in Seq(Tx), o \in Seq(Tx) : e = c.pendResp /\ o = c.pendReq  BY Types
<1>6. Headless(c, x) = None0 /\ Midway(c, x) = FALSE
  BY <1>2, <1>3 DEF Headless, Midway, None0
<1>7. e = o => s.buf = <<>> /\ s.net = <<>> /\ s.wire = <<>>
  BY <1>1, <1>5, <1>6, NothingElse
<1>8. e = <<>> => o = <<>>
  <2>1. SUFFICES ASSUME e = <<>>, o # <<>> PROVE FALSE  OBVIOUS
  <2>2. ToSet(o) \subseteq ToSet(e) /\ ToSet(e) = {}  BY <1>1, <1>5, <2>1, NoneIn DEF Queues
  <2>3. Head(o) \in ToSet(o)  BY <2>1, HeadAndTail
  <2> QED BY <2>2, <2>3
<1> DEFINE a == HeadsIn(s.buf \o s.net)
           g == Starting(c, x)
           w == s.wire
           l == Cat(Cat(a, w), g)
<1>9. a \in Seq(Tx) /\ g \in Seq(Tx) /\ w \in Seq(Tx)  BY AnswersAre, Types
<1>10. Cat(l, o) = e /\ l \in Seq(Tx) /\ Line(a, w, g, o) = e
  <2>1. Line(a, w, g, o) = Cat(None0, e)  BY <1>1, <1>5, <1>6, AnswersLine
  <2> HIDE DEF a, g, w
  <2>2. Cat(None0, e) = e  BY CatNone
  <2>3. l \in Seq(Tx)  BY <1>9, CatType
  <2> QED BY <2>1, <2>2, <2>3 DEF Line
<1> HIDE DEF a, g, w, l
<1>11. IsInjective(e) /\ IsInjective(o) /\ ToSet(o) \subseteq ToSet(e) /\ t \notin ToSet(e)
       /\ ToSet(e) \subseteq Tx /\ Awaits(c) = ToSet(e) \cup {t}
  <2>1. ToSet(e) \subseteq Tx  BY SomeIn
  <2> QED BY <1>1, <1>2, <1>5, <2>1 DEF Queues, Awaits
<1>12. ASSUME ~First(c), e # <<>>
       PROVE  /\ ToSet(o) \subseteq ToSet(Tail(e)) /\ Head(e) \in Tx /\ Tail(e) \in Seq(Tx)
              /\ ToSet(e) = {Head(e)} \cup ToSet(Tail(e)) /\ IsInjective(Tail(e)) /\ Head(e) \notin ToSet(Tail(e))
  <2>1. /\ Head(e) \in Tx /\ Tail(e) \in Seq(Tx)
        /\ ToSet(e) = {Head(e)} \cup ToSet(Tail(e)) /\ IsInjective(Tail(e)) /\ Head(e) \notin ToSet(Tail(e))
    BY <1>11, <1>12, HeadAndTail
  <2>2. CASE o = <<>>  BY <2>1, <2>2, NoneIn
  <2>3. CASE o # <<>>
    <3>1. l # None0
      <4>1. SUFFICES ASSUME l = None0 PROVE FALSE  OBVIOUS
      <4>2. o = e  BY <1>10, <4>1, CatNone
      <4>3. c.curReq # None  BY <1>1, <1>5, <1>12, <2>3 DEF Mode
      <4>4. c.curReq \in Awaits(c) \ ToSet(o)  BY <1>1, <1>5, <1>12, <4>3 DEF Mode
      <4> QED BY <1>4, <1>11, <1>12, <4>2, <4>4
    <3>2. Head(l) \in Tx /\ Tail(l) \in Seq(Tx) /\ l = Cat(One(Head(l)), Tail(l))  BY <1>10, <3>1, CatHead
    <3>3. PICK f \in Tx, r \in Seq(Tx) : l = Cat(One(f), r)  BY <3>2
    <3>4. One(f) \in Seq(Tx)  BY OneType
    <3>5. Cat(Cat(One(f), r), o) = Cat(One(f), Cat(r, o))  BY <3>4, CatAssociative
    <3>6. PICK m \in Seq(Tx) : m = Cat(r, o)  BY CatType
    <3>7. e = Cat(One(f), m)  BY <1>10, <3>3, <3>5, <3>6
    <3>8. Tail(e) = m  BY <3>7, FrontOne
    <3>9. ToSet(m) = ToSet(r) \cup ToSet(o)  BY <3>6, BothIn DEF Cat
    <3> QED BY <2>1, <3>8, <3>9
  <2> QED BY <2>2, <2>3
<1>13. /\ d.state = "EConnected" /\ d.flags = c.flags /\ d.curReq = c.curReq /\ d.pendReq = o
       /\ d.nonPersistent = c.nonPersistent /\ (First(d) <=> First(c)) /\ ~PendingWrite(d)
  BY <1>1, <1>4, <1>5 DEF Completes, First, PendingWrite
\* The three cases.
<1>14. \/ e = <<>> /\ o = <<>> /\ d.curResp = None /\ d.pendResp = <<>> /\ ~d.excess /\ s.buf = <<>>
       \/ e # <<>> /\ First(c) /\ e = o /\ d.curResp = None /\ d.pendResp = e /\ ~d.excess /\ s.buf = <<>>
       \/ e # <<>> /\ ~First(c) /\ d.curResp = Head(e) /\ d.pendResp = Tail(e) /\ (d.excess <=> s.buf # <<>>)
  BY <1>1, <1>3, <1>5, <1>7, <1>8 DEF Completes, Mode
<1>15. Awaits(d) = ToSet(e) /\ d.curResp \in ToSet(e) \cup {None}
  <2>1. CASE e = <<>> BY <1>14, <2>1, NoneIn DEF Awaits
  <2>2. CASE e # <<>> /\ First(c) BY <1>14, <2>2 DEF Awaits
  <2>3. CASE e # <<>> /\ ~First(c)
    <3>1. Head(e) # None  BY <1>2, <1>12, <2>3
    <3> QED BY <1>12, <1>14, <2>3, <3>1 DEF Awaits
  <2> QED BY <2>1, <2>2, <2>3
<1>16. Queues(d, t)
  <2>1. /\ IsInjective(d.pendResp) /\ ToSet(o) \subseteq ToSet(d.pendResp) /\ d.curResp \notin ToSet(d.pendResp)
    <3>1. CASE e = <<>> BY <1>14, <3>1, NoneIn
    <3>2. CASE e # <<>> /\ First(c)
      <4>1. None \notin ToSet(e)  BY <1>2, <1>11
      <4> QED BY <1>11, <1>14, <3>2, <4>1
    <3>3. CASE e # <<>> /\ ~First(c) BY <1>12, <1>14, <3>3
    <3> QED BY <3>1, <3>2, <3>3
  <2>2. t \notin Awaits(d)  BY <1>11, <1>15
  <2>3. Alone(d)
    <3>1. Alone(c)  BY <1>1 DEF Queues
    <3>2. \A u \in Awaits(d) : u \in OwnConnection => d.nonPersistent
      BY <1>11, <1>13, <1>15, <3>1 DEF Alone
    <3>3. d.nonPersistent => d.pendReq = <<>> /\ d.pendResp = <<>>
      BY <1>5, <1>13, <1>14, <3>1 DEF Alone
    <3> QED BY <3>2, <3>3 DEF Alone
  <2> QED BY <1>2, <1>11, <1>13, <2>1, <2>2, <2>3 DEF Queues
<1>17. Mode(d, t)
  <2>1. CASE First(c)
    <3>1. e = o /\ c.curReq = t  BY <1>1, <1>2, <1>5, <2>1 DEF Mode
    <3>2. d.curResp = None /\ d.pendResp = e  BY <1>14, <2>1
    <3> QED BY <1>2, <1>13, <2>1, <3>1, <3>2 DEF Mode
  <2>2. CASE ~First(c)
    <3>1. c.curReq = None => o = <<>>  BY <1>1, <1>5, <2>2 DEF Mode
    <3>2. c.curReq # None => c.curReq \in ToSet(e) \ ToSet(o)
      BY <1>1, <1>4, <1>5, <1>11, <2>2 DEF Mode
    <3>3. d.curResp = None => e = <<>> /\ d.pendResp = <<>>
      <4>1. e # <<>> => d.curResp # None  BY <1>2, <1>12, <1>14, <2>2
      <4> QED BY <1>14, <4>1
    <3>4. e = <<>> => ToSet(e) = {}  BY NoneIn
    <3> QED BY <1>13, <1>15, <2>2, <3>1, <3>2, <3>3, <3>4 DEF Mode
  <2> QED BY <2>1, <2>2
<1>18. Waiting(x[t]) = FALSE /\ \A u \in ToSet(e) : Waiting(y[u])
  <2>1. \A u \in ToSet(e) : Waiting(x[u])  BY <1>1, <1>5 DEF Parsers
  <2> QED BY <1>3, <1>11, <2>1 DEF Others, Waiting
<1>19. Parsers(d, y, t)
  <2>1. ToSet(d.pendResp) \subseteq ToSet(e)  BY <1>15 DEF Awaits
  <2>2. d.curResp # None => Current(y[d.curResp], t)
    <3>1. d.curResp # None => Waiting(y[d.curResp])  BY <1>15, <1>18
    <3> QED BY <3>1 DEF Waiting, Current
  <2>3. Silent(y[t])  BY <1>3 DEF Silent
  <2>4. \A u \in Tx \ Awaits(d) : u # t => Off(y[u])
    BY <1>1, <1>2, <1>11, <1>15 DEF Parsers, Others
  <2> QED BY <1>18, <2>1, <2>2, <2>3, <2>4 DEF Parsers
<1>20. Composers(d, y, s) /\ Wire(d, y, s) /\ Starting(d, y) = g
  <2>1. SameComposers(x, y)  BY DEF SameComposers, Others
  <2>2. Typed(c, y, s)  BY DEF Typed
  <2>3. Composers(c, y, s) /\ Wire(c, y, s) /\ Starting(c, y) = Starting(c, x)
    BY <1>1, <1>4, <2>1, <2>2, ComposersKept
  <2> QED BY <1>4, <1>5, <1>13, <2>3 DEF Composers, Wire, Starting, g
<1>21. ~Midway(d, y) /\ Midway(d, y) = FALSE
  <2>1. d.curResp # None => ~y[d.curResp].hdr  BY <1>15, <1>18 DEF Waiting
  <2> QED BY <2>1 DEF Midway
<1>22. Answers(d, y, s)
  <2>1. Cat(Headless(d, y), d.pendResp) = e
    <3>1. CASE e = <<>>
      <4>1. Headless(d, y) = None0 /\ d.pendResp = e  BY <1>14, <3>1 DEF Headless, None0
      <4> QED BY <4>1, CatNone
    <3>2. CASE e # <<>> /\ First(c)
      <4>1. Headless(d, y) = None0 /\ d.pendResp = e  BY <1>14, <3>2 DEF Headless, None0
      <4> QED BY <4>1, CatNone
    <3>3. CASE e # <<>> /\ ~First(c)
      <4>1. d.curResp = Head(e) /\ d.curResp # None /\ ~y[d.curResp].hdr
        BY <1>2, <1>12, <1>14, <1>18, <3>3 DEF Waiting
      <4>2. Headless(d, y) = One(Head(e)) /\ d.pendResp = Tail(e)
        BY <1>14, <3>3, <4>1 DEF Headless, One
      <4>3. e = Cat(One(Head(e)), Tail(e))  BY <3>3, CatHead DEF None0
      <4> QED BY <4>2, <4>3
    <3> QED BY <3>1, <3>2, <3>3
  <2>2. Line(HeadsIn(s.buf \o s.net), s.wire, Starting(d, y), d.pendReq) = e
    BY <1>10, <1>13, <1>20 DEF a, w
  <2> QED BY <2>1, <2>2, AnswersLine
<1>23. Pieces(d, y, s)
  <2>1. Parts(s.buf \o s.net, FALSE, c.curResp)  BY <1>1, <1>6 DEF Pieces
  <2>2. Parts(s.buf \o s.net, Midway(d, y), d.curResp)
    <3>1. PICK P : P = s.buf \o s.net  OBVIOUS
    <3>2. Parts(P, FALSE, d.curResp)  BY <2>1, <3>1 DEF Parts
    <3> QED BY <1>21, <3>1, <3>2
  <2>3. \A p \in ToSet(s.buf) \cup ToSet(s.net) : p.t \in Tx
    <3>1. PICK b \in Seq(Piece), n \in Seq(Piece) : b = s.buf /\ n = s.net  BY Types
    <3>2. ToSet(b) \subseteq Piece /\ ToSet(n) \subseteq Piece  BY SomeIn
    <3> QED BY <3>1, <3>2 DEF Piece
  <2>4. \A u \in Tx : y[u].comp = x[u].comp  BY DEF Others
  <2>5. \A p \in ToSet(s.buf) \cup ToSet(s.net) :
          Given(p.t, y[p.t]) /\ (p.close => d.nonPersistent) /\ p.len # "unknown"
    BY <1>1, <1>13, <2>3, <2>4 DEF Pieces, Given
  <2>6. \A p \in ToSet(s.buf) : Silent(y[p.t])  BY <1>1, <2>3, <2>4 DEF Pieces, Silent
  <2> QED BY <1>21, <2>2, <2>5, <2>6 DEF Pieces
<1>24. Token(d, y, s, t)
  <2>1. d.curResp # None => y[d.curResp].parse = "wait"  BY <1>15, <1>18 DEF Waiting
  <2>2. d.excess <=> s.buf # <<>>  BY <1>14
  <2> QED BY <1>2, <1>3, <2>1, <2>2 DEF Token
<1> QED BY <1>13, <1>16, <1>17, <1>19, <1>20, <1>22, <1>23, <1>24 DEF Loose

-----------------------------------------------------------------------------
(* The data of a response is parsed                                        *)

\* The response of t has finished with the connection, and the current one goes on:
\* it gets the excess data, or the stream reads on.
LEMMA HeldReleased ==
  ASSUME NEW c, NEW x, NEW s, Typed(c, x, s), NEW t \in Tx, Loose(c, x, s, t), NEW q \in Tx, q = c.curResp,
         NEW d, NEW y, NEW z, Typed(d, y, z),
         d.state = c.state, d.flags = c.flags, d.curReq = c.curReq, d.curResp = c.curResp,
         d.pendReq = c.pendReq, d.pendResp = c.pendResp, d.nonPersistent = c.nonPersistent, ~d.excess,
         \A u \in Tx : u # t /\ u # q => y[u] = x[u], Off(y[t]), y[t].comp = x[t].comp,
         SameButParse(x[q], y[q]), y[q].parse = IF c.excess THEN "run" ELSE "wait",
         z.reader = IF c.excess THEN "ack" ELSE "read", z.buf = s.buf,
         z.net = s.net, z.writer = s.writer, z.wire = s.wire, z.sent = s.sent, z.hup = s.hup
  PROVE  Run(d, y, z, None)
<1>1. /\ c.state = "EConnected" /\ Queues(c, t) /\ Mode(c, t) /\ Parsers(c, x, t) /\ Composers(c, x, s)
      /\ Wire(c, x, s) /\ Answers(c, x, s) /\ Pieces(c, x, s) /\ Token(c, x, s, t)
  BY DEF Loose
<1>2. q # None /\ t # None /\ None \notin Tx  BY Types
<1>3. Current(x[q], t) /\ x[q].parse = "wait" /\ ~x[q].hdr /\ (c.excess <=> s.buf # <<>>)
  BY <1>1, <1>2 DEF Parsers, Current, Token
<1>4. t \notin Awaits(c) /\ q \in Awaits(c) /\ t # q  BY <1>1, <1>2 DEF Queues, Awaits
<1>5. ~First(c) /\ ~PendingWrite(c)  BY <1>1, <1>2 DEF Mode
<1>6. c.excess => Silent(x[q])
  <2>1. SUFFICES ASSUME c.excess PROVE Silent(x[q])  OBVIOUS
  <2>2. PICK b \in Seq(Piece), n \in Seq(Piece) : b = s.buf /\ n = s.net /\ b # <<>>  BY <1>3, <2>1, Types
  <2>3. b \o n # <<>> /\ (b \o n)[1] = Head(b)  BY <2>2, PieceTaken
  <2>4. Head(b) \in ToSet(b)  BY <2>2, HeadAndTail
  <2>5. c.curResp # None /\ x[c.curResp].parse # "end" /\ s.buf \o s.net # <<>>  BY <1>2, <1>3, <2>2, <2>3
  <2>6. Answers(c, x, s) /\ Pieces(c, x, s) /\ Typed(c, x, s)  BY <1>1
  <2>7. (s.buf \o s.net)[1].t = c.curResp  BY <2>5, <2>6, FirstPiece, Zenon
  <2>8. Head(b).t = q  BY <2>2, <2>3, <2>7
  <2> QED BY <1>1, <2>2, <2>4, <2>8 DEF Pieces
<1>7. SameComposers(x, y)  BY DEF SameButParse, SameComposers
<1>8. Composers(c, y, z) /\ Wire(c, y, z) /\ Starting(c, y) = Starting(c, x)
  <2>1. Typed(c, y, z)  BY DEF Typed
  <2> QED BY <1>1, <1>5, <1>7, <2>1, ComposersKept
<1>9. /\ First(d) = First(c) /\ PendingWrite(d) = PendingWrite(c) /\ Awaits(d) = Awaits(c)
  BY DEF First, PendingWrite, Awaits
<1>10. Composers(d, y, z) /\ Wire(d, y, z) /\ Starting(d, y) = Starting(c, x)
  <2>1. Starting(d, y) = Starting(c, y)  BY DEF Starting
  <2>2. Composers(d, y, z)  BY <1>5, <1>8, <1>9 DEF Composers
  <2>3. Wire(d, y, z)  BY <1>8 DEF Wire
  <2> QED BY <1>8, <2>1, <2>2, <2>3
<1>11. Queues(d, None)
  <2>1. None \notin Awaits(d)
    <3>1. PICK e \in Seq(Tx) : e = d.pendResp  BY Types
    <3>2. ToSet(e) \subseteq Tx  BY SomeIn
    <3> QED BY <1>2, <3>1, <3>2 DEF Awaits
  <2>2. Alone(d)  BY <1>1, <1>9 DEF Queues, Alone
  <2> QED BY <1>1, <1>2, <2>1, <2>2 DEF Queues
<1>12. Mode(d, None)  BY <1>1, <1>2, <1>5, <1>9 DEF Mode
<1>13. Parsers(d, y, None)
  <2>1. ToSet(c.pendResp) \subseteq Tx /\ t \notin ToSet(c.pendResp) /\ q \notin ToSet(c.pendResp)
    <3>1. PICK r \in Seq(Tx) : r = c.pendResp  BY Types
    <3>2. ToSet(r) \subseteq Tx  BY SomeIn
    <3> QED BY <1>1, <1>4, <3>1, <3>2 DEF Queues, Awaits
  <2>2. \A u \in ToSet(c.pendResp) : Waiting(y[u])  BY <1>1, <2>1 DEF Parsers
  <2>3. Current(y[q], None)  BY <1>3, <1>6 DEF Current, SameButParse, Silent
  <2>4. \A u \in Tx \ Awaits(d) : Off(y[u])  BY <1>1, <1>4, <1>9 DEF Parsers
  <2> QED BY <2>2, <2>3, <2>4 DEF Parsers
<1>14. /\ Headless(d, y) = Headless(c, x) /\ Midway(d, y) = FALSE /\ Midway(c, x) = FALSE
  BY <1>3 DEF Headless, Midway, SameButParse
<1>15. Answers(d, y, z)  BY <1>1, <1>10, <1>14 DEF Answers
<1>16. Pieces(d, y, z)
  <2>1. Parts(z.buf \o z.net, Midway(d, y), d.curResp)
    BY <1>1, <1>14 DEF Pieces
  <2>2. \A p \in ToSet(s.buf) \cup ToSet(s.net) : p.t \in Tx
    <3>1. PICK b \in Seq(Piece), n \in Seq(Piece) : b = s.buf /\ n = s.net  BY Types
    <3>2. ToSet(b) \subseteq Piece /\ ToSet(n) \subseteq Piece  BY SomeIn
    <3> QED BY <3>1, <3>2 DEF Piece
  <2>3. \A p \in ToSet(z.buf) \cup ToSet(z.net) :
          Given(p.t, y[p.t]) /\ (p.close => d.nonPersistent) /\ p.len # "unknown"
    BY <1>1, <1>7, <2>2 DEF Pieces, Given, SameComposers
  <2>4. \A p \in ToSet(z.buf) : Silent(y[p.t])  BY <1>1, <1>7, <2>2 DEF Pieces, Silent, SameComposers
  <2> QED BY <1>14, <2>1, <2>3, <2>4 DEF Pieces
<1>17. Token(d, y, z, None)
  <2>1. c.excess \in BOOLEAN  BY Types
  <2>2. CASE c.excess  BY <1>2, <1>3, <2>2 DEF Token
  <2>3. CASE ~c.excess  BY <1>2, <1>3, <2>3 DEF Token
  <2> QED BY <2>1, <2>2, <2>3
<1> QED BY <1>1, <1>10, <1>11, <1>12, <1>13, <1>15, <1>16, <1>17 DEF Run, Loose

\* Nobody is waiting: the streams are still.
LEMMA HeldLast ==
  ASSUME NEW c, NEW x, NEW s, Typed(c, x, s), NEW t \in Tx, Loose(c, x, s, t), c.curResp = None
  PROVE  /\ c.pendReq = c.pendResp /\ ~c.excess /\ s.buf = <<>> /\ s.net = <<>> /\ s.wire = <<>>
         /\ s.sent = {} /\ s.writer = None /\ (\A u \in Tx : Silent(x[u])) /\ s.reader = "ack"
         /\ (s.hup => c.nonPersistent) /\ ~PendingWrite(c)
         /\ IF First(c) THEN c.curReq = t ELSE c.curReq = None /\ c.pendReq = <<>>
         /\ IsInjective(c.pendResp) /\ Alone(c) /\ t \notin ToSet(c.pendResp)
         /\ (\A u \in ToSet(c.pendResp) : Waiting(x[u]) /\ x[u].comp = "idle")
         /\ (\A u \in Tx \ ToSet(c.pendResp) : u # t => Off(x[u]))
<1>1. /\ c.state = "EConnected" /\ Queues(c, t) /\ Mode(c, t) /\ Parsers(c, x, t) /\ Composers(c, x, s)
      /\ Wire(c, x, s) /\ Answers(c, x, s) /\ Pieces(c, x, s) /\ Token(c, x, s, t)
  BY DEF Loose
<1>2. t # None /\ None \notin Tx  BY Types
<1>3. /\ IF First(c) THEN c.curReq = t ELSE c.curReq = None /\ c.pendReq = <<>>
      /\ c.pendReq = c.pendResp /\ ~PendingWrite(c)
  BY <1>1, <1>2 DEF Mode
<1>4. Headless(c, x) = None0 /\ ~Midway(c, x)  BY DEF Headless, Midway, None0
<1>5. s.buf = <<>> /\ s.net = <<>> /\ s.wire = <<>>  BY <1>1, <1>3, <1>4, NothingElse
<1>6. s.sent = {}
  <2>1. ToSet(s.wire) = {}  BY <1>5, NoneIn
  <2> QED BY <1>1, <2>1 DEF Wire
<1>7. \A u \in Tx : Silent(x[u])
  <2>1. Silent(x[t])  BY <1>1, <1>2 DEF Parsers
  <2> QED BY <1>1, <1>2, <1>3, <2>1 DEF Composers
<1>8. s.writer = None
  <2>1. s.writer \in Tx \cup {None}  BY Types
  <2>2. s.writer \in Tx => x[s.writer].comp \in Writing  BY <1>1 DEF Composers
  <2> QED BY <1>7, <2>1, <2>2 DEF Silent, Writing
<1>9. Awaits(c) = ToSet(c.pendResp)  BY DEF Awaits
<1>10. ~c.excess /\ s.reader = "ack"  BY <1>1, <1>2, <1>5 DEF Token
<1>11. \A u \in ToSet(c.pendResp) : Waiting(x[u]) /\ x[u].comp = "idle"
  BY <1>1, <1>3 DEF Parsers, Composers
<1>12. \A u \in Tx \ ToSet(c.pendResp) : u # t => Off(x[u])  BY <1>1, <1>9 DEF Parsers
<1>13. IsInjective(c.pendResp) /\ Alone(c) /\ t \notin ToSet(c.pendResp)  BY <1>1, <1>9 DEF Queues
<1>14. s.hup => c.nonPersistent  BY <1>1 DEF Wire
<1> QED BY <1>3, <1>5, <1>6, <1>7, <1>8, <1>10, <1>11, <1>12, <1>13, <1>14

\* The next request that was held back is started: those behind the first one on a
\* connection go with it.
NextUsed(c, s, d, z, n, e) ==
  /\ d.state = "EConnected" /\ d.curReq = n /\ d.curResp = n /\ d.pendReq = Tail(e) /\ d.pendResp = Tail(e)
  /\ ~d.excess /\ d.nonPersistent = c.nonPersistent /\ ~First(d)
  /\ Still(z) /\ (z.hup => s.hup)
NextStarted(x, y, t, n) ==
  /\ \A u \in Tx : u # t /\ u # n => y[u] = x[u]
  /\ Off(y[t]) /\ y[t].comp = x[t].comp
  /\ Alike(x[n], y[n]) /\ y[n].comp = "start"

\* The next of the awaited responses becomes the current one when the holder lets go.
LEMMA HeldNext ==
  ASSUME NEW c, NEW x, NEW s, Typed(c, x, s), NEW t \in Tx, Loose(c, x, s, t), c.curResp = None,
         NEW e \in Seq(Tx), e = c.pendResp, e # <<>>, NEW n \in Tx, n = Head(e),
         NEW d, NEW y, NEW z, Typed(d, y, z), NextUsed(c, s, d, z, n, e), NextStarted(x, y, t, n)
  PROVE  Run(d, y, z, None)
<1>0. /\ d.state = "EConnected" /\ d.curReq = n /\ d.curResp = n /\ d.pendReq = Tail(e) /\ d.pendResp = Tail(e)
      /\ ~d.excess /\ d.nonPersistent = c.nonPersistent /\ ~First(d)
      /\ Still(z) /\ (z.hup => s.hup)
      /\ \A u \in Tx : u # t /\ u # n => y[u] = x[u]
      /\ Off(y[t]) /\ y[t].comp = x[t].comp
      /\ Alike(x[n], y[n]) /\ y[n].comp = "start"
  BY DEF NextUsed, NextStarted
<1>1. /\ c.pendReq = c.pendResp /\ (s.hup => c.nonPersistent) /\ IsInjective(e) /\ Alone(c) /\ t \notin ToSet(e)
      /\ (\A u \in ToSet(e) : Waiting(x[u]) /\ x[u].comp = "idle")
      /\ (\A u \in Tx \ ToSet(e) : u # t => Off(x[u]))
      /\ (\A u \in Tx : Silent(x[u]))
  BY HeldLast
<1>2. /\ Tail(e) \in Seq(Tx) /\ ToSet(e) = {n} \cup ToSet(Tail(e)) /\ n \in ToSet(e)
      /\ IsInjective(Tail(e)) /\ n \notin ToSet(Tail(e))
  BY <1>1, HeadAndTail
<1>3. n # None /\ None \notin Tx /\ n # t  BY <1>1, <1>2, Types
<1>4. ToSet(e) \subseteq Tx  BY SomeIn
<1>5. Awaits(d) = ToSet(e) /\ Awaits(c) = ToSet(e)  BY <1>0, <1>2, <1>3 DEF Awaits
<1>6. ~c.nonPersistent  BY <1>1 DEF Alone
<1>7. Alone(d)  BY <1>0, <1>1, <1>5, <1>6 DEF Alone
<1>8. \A u \in ToSet(Tail(e)) : y[u] = x[u]  BY <1>0, <1>1, <1>2, <1>4
<1>9. \A u \in Awaits(d) : Waiting(y[u])
  <2>1. Waiting(y[n])  BY <1>0, <1>1, <1>2 DEF Waiting, Alike
  <2> QED BY <1>1, <1>2, <1>5, <1>8, <2>1
<1>10. \A u \in Tx \ Awaits(d) : Off(y[u]) /\ Silent(y[u])
  <2>1. Silent(y[t])  BY <1>0, <1>1 DEF Silent
  <2> QED BY <1>0, <1>1, <1>2, <1>5, <2>1
<1>11. ~z.hup  BY <1>0, <1>1, <1>6
<1>12. Begins(d, y, z)
  <2>1. \A u \in ToSet(d.pendResp) : y[u].comp = "idle"  BY <1>0, <1>1, <1>2, <1>8
  <2> QED BY <1>0, <1>2, <1>7, <1>9, <1>10, <1>11, <2>1 DEF Begins
<1> QED BY <1>0, <1>12, BeginsRun

\* Nobody waits: the connection is idle, or waits for its close.
LEMMA HeldIdle ==
  ASSUME NEW c, NEW x, NEW s, Typed(c, x, s), NEW t \in Tx, Loose(c, x, s, t), c.curResp = None,
         c.pendResp = <<>>, NEW d, NEW y, NEW z, Typed(d, y, z), Vacant(d), ~d.excess,
         d.nonPersistent = c.nonPersistent,
         d.state = IF c.nonPersistent THEN "EClosing" ELSE "EIdleConnected",
         d.flags \subseteq c.flags \ {"EFirstTransaction", "ECannotPipeline"},
         \A u \in Tx : u # t => y[u] = x[u], Off(y[t]), y[t].comp = x[t].comp, Still(z), z.hup => s.hup
  PROVE  Rest(d, y, z)
<1>1. /\ (s.hup => c.nonPersistent) /\ ~PendingWrite(c)
      /\ (\A u \in Tx \ ToSet(c.pendResp) : u # t => Off(x[u]))
      /\ (\A u \in Tx : Silent(x[u]))
  BY HeldLast
<1>2. ToSet(c.pendResp) = {}  BY NoneIn
<1>3. \A u \in Tx : Off(y[u]) /\ Silent(y[u])
  <2>1. Silent(y[t])  BY <1>1 DEF Silent
  <2> QED BY <1>1, <1>2, <2>1
<1>4. ~First(d) /\ ~PendingWrite(d) /\ "ECannotPipeline" \notin d.flags
  BY <1>1 DEF First, PendingWrite
<1>5. c.nonPersistent \in BOOLEAN  BY Types
<1> QED BY <1>1, <1>3, <1>4, <1>5 DEF Rest, Vacant, Resting

-----------------------------------------------------------------------------

\* The received buffer is given back.
LEMMA GivenBack ==
  ASSUME NEW w \in World, w.sock.open, w.sock.reader = "ack"
  PROVE  LET v == ReceivedDataRes(w) IN
         /\ v \in World /\ v.cm = w.cm /\ v.tx = w.tx /\ v.panic = w.panic
         /\ v.sock.reader = "read" /\ v.sock.buf = <<>>
         /\ v.sock.net = w.sock.net /\ v.sock.writer = w.sock.writer
         /\ v.sock.wire = w.sock.wire /\ v.sock.sent = w.sock.sent /\ v.sock.hup = w.sock.hup
<1>1. w.sock \in Socket  BY DEF World
<1> DEFINE z == [w.sock EXCEPT !.reader = "read", !.buf = <<>>]
<1>2. /\ z \in Socket /\ z.reader = "read" /\ z.buf = <<>>
      /\ z.net = w.sock.net /\ z.writer = w.sock.writer
      /\ z.wire = w.sock.wire /\ z.sent = w.sock.sent /\ z.hup = w.sock.hup
  BY <1>1, EmptySeq DEF Socket
<1>3. ReceivedDataRes(w) = [w EXCEPT !.sock = z]  BY <1>1 DEF ReceivedDataRes, World, Socket
<1> HIDE DEF z
<1> QED BY <1>2, <1>3 DEF World

\* The manager moves on.
Moves(w, c) == [w EXCEPT !.cm = c]

\* Moves changes the manager and neither transactions nor streams.
LEMMA MovesIs ==
  ASSUME NEW w \in World, NEW c \in Manager
  PROVE  LET v == Moves(w, c) IN
         v \in World /\ v.cm = c /\ v.tx = w.tx /\ v.sock = w.sock /\ v.panic = w.panic
  BY DEF Moves, World

\* The first request has been answered: nobody is current.
FirstOver(c) == IF "EFirstTransaction" \in c.flags
                THEN [c EXCEPT !.flags = @ \ {"EFirstTransaction"}, !.curReq = None] ELSE c
NextUp(c, n, q, m, e) ==
  [c EXCEPT !.curReq = n, !.pendReq = q, !.curResp = m, !.pendResp = e,
            !.flags = @ \cup {"EPendingWriteInConnectedState"}]
Idles(c) == [c EXCEPT !.state = IF c.nonPersistent THEN "EClosing" ELSE "EIdleConnected",
                      !.flags = @ \ {"ECannotPipeline"}]

\* The end of the first transaction on a connection clears its flag and the current request.
LEMMA FirstOverIs ==
  ASSUME NEW c \in Manager
  PROVE  LET d == FirstOver(c) IN
         /\ d \in Manager /\ d.flags = c.flags \ {"EFirstTransaction"}
         /\ d.curReq = IF First(c) THEN None ELSE c.curReq
         /\ d.state = c.state /\ d.curResp = c.curResp /\ d.pendReq = c.pendReq /\ d.pendResp = c.pendResp
         /\ d.excess = c.excess /\ d.nonPersistent = c.nonPersistent
<1>1. CASE "EFirstTransaction" \in c.flags  BY <1>1 DEF FirstOver, First, Manager
<1>2. CASE "EFirstTransaction" \notin c.flags
  <2>1. c.flags \ {"EFirstTransaction"} = c.flags  BY <1>2 DEF Manager
  <2> QED BY <1>2, <2>1 DEF FirstOver, First
<1> QED BY <1>1, <1>2

\* The next transaction taken off the queues changes the current ones and the queues.
LEMMA NextUpIs ==
  ASSUME NEW c \in Manager, NEW n \in Tx, NEW q \in Seq(Tx), NEW m \in Tx, NEW e \in Seq(Tx)
  PROVE  LET d == NextUp(c, n, q, m, e) IN
         /\ d \in Manager /\ d.curReq = n /\ d.pendReq = q /\ d.curResp = m /\ d.pendResp = e
         /\ d.flags = c.flags \cup {"EPendingWriteInConnectedState"}
         /\ d.state = c.state /\ d.excess = c.excess /\ d.nonPersistent = c.nonPersistent
  BY DEF NextUp, Manager, Flags

\* A manager that becomes idle, or closes, keeps its queues.
LEMMA IdlesIs ==
  ASSUME NEW c \in Manager
  PROVE  LET d == Idles(c) IN
         /\ d \in Manager /\ d.curReq = c.curReq /\ d.pendReq = c.pendReq /\ d.curResp = c.curResp
         /\ d.pendResp = c.pendResp /\ d.flags = c.flags \ {"ECannotPipeline"}
         /\ d.state = (IF c.nonPersistent THEN "EClosing" ELSE "EIdleConnected")
         /\ d.excess = c.excess /\ d.nonPersistent = c.nonPersistent
  BY DEF Idles, Manager, States

\* NextOnConnection idles when nobody waits, and starts the first that was held back.
LEMMA NextOnConnectionIs ==
  ASSUME NEW w \in World, NEW c \in Manager, c = FirstOver(w.cm)
  PROVE  /\ c.pendReq = <<>> /\ c.pendResp = <<>> => NextOnConnection(w) = Moves(w, Idles(c))
         /\ c.pendReq # <<>> /\ c.pendResp # <<>> =>
              NextOnConnection(w) =
                StartRequest(Moves(w, NextUp(c, Head(c.pendReq), Tail(c.pendReq), Head(c.pendResp), Tail(c.pendResp))))
<1> DEFINE w1 == IF "EFirstTransaction" \in w.cm.flags
                 THEN [w EXCEPT !.cm.flags = @ \ {"EFirstTransaction"}, !.cm.curReq = None]
                 ELSE w
           GoesOn(d) == [w1 EXCEPT !.cm.curReq = Head(d.pendReq), !.cm.pendReq = Tail(d.pendReq),
                          !.cm.curResp = IF d.pendResp = <<>> THEN None ELSE Head(d.pendResp),
                          !.cm.pendResp = IF d.pendResp = <<>> THEN <<>> ELSE Tail(d.pendResp),
                          !.cm.flags = @ \cup {"EPendingWriteInConnectedState"}]
           Idle(d) == [w1 EXCEPT !.cm.state = IF d.nonPersistent THEN "EClosing" ELSE "EIdleConnected",
                                 !.cm.flags = @ \ {"ECannotPipeline"}]
<1>1. w1 = Moves(w, c)
  <2>1. CASE "EFirstTransaction" \in w.cm.flags
    <3>1. w1 = [w EXCEPT !.cm.flags = @ \ {"EFirstTransaction"}, !.cm.curReq = None]  BY <2>1
    <3> HIDE DEF w1
    <3>2. c = [w.cm EXCEPT !.flags = @ \ {"EFirstTransaction"}, !.curReq = None]  BY <2>1 DEF FirstOver
    <3> QED BY <3>1, <3>2 DEF Moves, World, Manager
  <2>2. CASE "EFirstTransaction" \notin w.cm.flags
    <3>1. w1 = w /\ c = w.cm  BY <2>2 DEF FirstOver
    <3> QED BY <3>1 DEF Moves, World
  <2> QED BY <2>1, <2>2
<1>2. NextOnConnection(w) =
        LET d == w1.cm IN
        IF d.pendReq # <<>> THEN StartRequest(GoesOn(d))
        ELSE IF d.nonPersistent /\ d.pendResp # <<>> THEN Panic(w1, "ResponseDataParsed: pending responses")
        ELSE Idle(d)
  BY Zenon DEF NextOnConnection
<1>3. w1 \in World /\ w1.cm = c /\ w1.tx = w.tx /\ w1.sock = w.sock /\ w1.panic = w.panic
  <2> HIDE DEF w1
  <2> QED BY <1>1, MovesIs
<1> HIDE DEF w1
<1>4. c.pendReq # <<>> /\ c.pendResp # <<>> =>
        GoesOn(c) = Moves(w, NextUp(c, Head(c.pendReq), Tail(c.pendReq), Head(c.pendResp), Tail(c.pendResp)))
  <2>1. SUFFICES ASSUME c.pendReq # <<>>, c.pendResp # <<>>
                 PROVE  GoesOn(c) = Moves(w, NextUp(c, Head(c.pendReq), Tail(c.pendReq), Head(c.pendResp), Tail(c.pendResp)))
    OBVIOUS
  <2>2. GoesOn(c) = [w1 EXCEPT !.cm.curReq = Head(c.pendReq), !.cm.pendReq = Tail(c.pendReq),
                          !.cm.curResp = Head(c.pendResp), !.cm.pendResp = Tail(c.pendResp),
                          !.cm.flags = @ \cup {"EPendingWriteInConnectedState"}]
    BY <2>1
  <2> HIDE DEF GoesOn
  <2>3. PICK n, q, m, e : n = Head(c.pendReq) /\ q = Tail(c.pendReq) /\ m = Head(c.pendResp) /\ e = Tail(c.pendResp)
    OBVIOUS
  <2>4. [w1 EXCEPT !.cm.curReq = n, !.cm.pendReq = q, !.cm.curResp = m, !.cm.pendResp = e,
                   !.cm.flags = @ \cup {"EPendingWriteInConnectedState"}]
          = [w1 EXCEPT !.cm = NextUp(w1.cm, n, q, m, e)]
    BY <1>3 DEF NextUp, World, Manager
  <2>5. [w1 EXCEPT !.cm = NextUp(w1.cm, n, q, m, e)] = Moves(w, NextUp(w1.cm, n, q, m, e))
    BY <1>1 DEF Moves, World
  <2> QED BY <1>3, <2>2, <2>3, <2>4, <2>5
<1>5. Idle(c) = Moves(w, Idles(c))
  <2>1. Idle(c) = [w1 EXCEPT !.cm = Idles(w1.cm)]
    BY <1>3 DEF Idles, World, Manager
  <2> QED BY <1>1, <1>3, <2>1 DEF Moves, World
<1> HIDE DEF GoesOn, Idle
<1> QED BY <1>2, <1>3, <1>4, <1>5

\* What the client's handler of t may still do to t does not matter: its response
\* has finished with the connection.
Finished(v, x, t) ==
  /\ v \in World /\ "EDiscardSndDataCnf" \notin v.cm.flags
  /\ v.cm.curReq # t /\ v.tx[t] = x[t] /\ \A u \in Tx : Tame(x[u], v.tx[u])
  /\ \A y \in [Tx -> Transaction] :
       Others(v.tx, y, t) /\ Off(y[t]) /\ y[t].comp = x[t].comp => Fit(v.cm, y, v.sock)

\* ResponseDataParsed of the last awaited response leaves the connection at rest.
LEMMA ParsedLast ==
  ASSUME NEW w \in World, Sound(w), NEW t \in Tx, Loose(w.cm, w.tx, w.sock, t), w.sock.open,
         w.cm.curResp = None, w.cm.pendResp = <<>>
  PROVE  LET v == ResponseDataParsed(w) IN Finished(v, w.tx, t) /\ v.panic = w.panic
<1> DEFINE c == w.cm
           x == w.tx
           s == w.sock
<1>1. Typed(c, x, s)  BY DEF Typed, World
<1>2. Loose(c, x, s, t) /\ s.open /\ c.curResp = None /\ c.pendResp = <<>>  OBVIOUS
<1> HIDE DEF c, x, s
<1>3. /\ c.pendReq = c.pendResp /\ ~c.excess /\ s.buf = <<>> /\ s.net = <<>> /\ s.wire = <<>>
      /\ s.sent = {} /\ s.writer = None /\ s.reader = "ack"
      /\ IF First(c) THEN c.curReq = t ELSE c.curReq = None /\ c.pendReq = <<>>
  BY <1>1, <1>2, HeldLast
<1>4. c \in Manager  BY <1>1 DEF Typed
<1> DEFINE d1 == FirstOver(c)
           d == Idles(d1)
           u == Moves(w, d)
           v == ReceivedDataRes(u)
<1>5. /\ d1 \in Manager /\ d1.flags = c.flags \ {"EFirstTransaction"}
      /\ d1.curReq = IF First(c) THEN None ELSE c.curReq
      /\ d1.state = c.state /\ d1.curResp = c.curResp /\ d1.pendReq = c.pendReq /\ d1.pendResp = c.pendResp
      /\ d1.excess = c.excess /\ d1.nonPersistent = c.nonPersistent
  BY <1>4, FirstOverIs
<1>6. ResponseDataParsed(w) = v
  <2>1. NextOnConnection(w) = u
    <3>1. d1 = FirstOver(w.cm) /\ d1.pendReq = <<>> /\ d1.pendResp = <<>>  BY <1>2, <1>3, <1>5 DEF c
    <3> HIDE DEF d1
    <3> QED BY <1>5, <3>1, NextOnConnectionIs
  <2>2. w.cm.state = "EConnected" /\ w.cm.curResp = None  BY <1>2 DEF c, Loose
  <2> HIDE DEF u
  <2> QED BY <2>1, <2>2 DEF ResponseDataParsed
<1> HIDE DEF d1
<1>7. /\ d \in Manager /\ d.curReq = d1.curReq /\ d.pendReq = d1.pendReq /\ d.curResp = d1.curResp
      /\ d.pendResp = d1.pendResp /\ d.flags = d1.flags \ {"ECannotPipeline"}
      /\ d.state = (IF d1.nonPersistent THEN "EClosing" ELSE "EIdleConnected")
      /\ d.excess = d1.excess /\ d.nonPersistent = d1.nonPersistent
  BY <1>5, IdlesIs
<1> HIDE DEF d
<1>8. u \in World /\ u.cm = d /\ u.tx = x /\ u.sock = s /\ u.panic = w.panic
  BY <1>7, MovesIs DEF x, s
<1> HIDE DEF u
<1>9. /\ v \in World /\ v.cm = u.cm /\ v.tx = u.tx /\ v.panic = u.panic
      /\ v.sock.reader = "read" /\ v.sock.buf = <<>>
      /\ v.sock.net = u.sock.net /\ v.sock.writer = u.sock.writer
      /\ v.sock.wire = u.sock.wire /\ v.sock.sent = u.sock.sent /\ v.sock.hup = u.sock.hup
  BY <1>2, <1>3, <1>8, GivenBack
<1> HIDE DEF v
<1>10. "EDiscardSndDataCnf" \notin v.cm.flags  BY <1>5, <1>7, <1>8, <1>9 DEF Sound, c
<1>11. v.cm.curReq # t
  <2>1. v.cm.curReq = None  BY <1>3, <1>5, <1>7, <1>8, <1>9
  <2> QED BY <1>1, <2>1, Types
<1>12. v.tx[t] = x[t] /\ \A r \in Tx : Tame(x[r], v.tx[r])  BY <1>8, <1>9 DEF Tame
<1>13. ASSUME NEW y \in [Tx -> Transaction], Others(v.tx, y, t), Off(y[t]), y[t].comp = x[t].comp
       PROVE  Fit(v.cm, y, v.sock)
  <2> DEFINE z == v.sock
  <2>1. Typed(d, y, z)  BY <1>7, <1>9 DEF Typed, World
  <2>2. Still(z) /\ (z.hup => s.hup)  BY <1>3, <1>8, <1>9 DEF Still
  <2>3. Vacant(d) /\ ~d.excess /\ d.nonPersistent = c.nonPersistent
    BY <1>2, <1>3, <1>5, <1>7 DEF Vacant
  <2>4. d.state = IF c.nonPersistent THEN "EClosing" ELSE "EIdleConnected"  BY <1>5, <1>7
  <2>5. d.flags \subseteq c.flags \ {"EFirstTransaction", "ECannotPipeline"}  BY <1>5, <1>7
  <2>6. \A r \in Tx : r # t => y[r] = x[r]  BY <1>8, <1>9, <1>13 DEF Others
  <2> HIDE DEF z
  <2>7. Rest(d, y, z)  BY <1>1, <1>2, <1>13, <2>1, <2>2, <2>3, <2>4, <2>5, <2>6, HeldIdle
  <2> QED BY <1>8, <1>9, <2>7 DEF Fit, z
<1>14. Finished(v, x, t) /\ v.panic = w.panic  BY <1>8, <1>9, <1>10, <1>11, <1>12, <1>13 DEF Finished
<1> QED BY <1>6, <1>14 DEF x

\* ResponseDataParsed of a response with others behind it, the current one over.
LEMMA ParsedNext ==
  ASSUME NEW w \in World, Sound(w), NEW t \in Tx, Loose(w.cm, w.tx, w.sock, t), w.sock.open,
         w.cm.curResp = None, w.cm.pendResp # <<>>
  PROVE  LET v == ResponseDataParsed(w) IN Finished(v, w.tx, t) /\ v.panic = w.panic
<1> DEFINE c == w.cm
           x == w.tx
           s == w.sock
<1>1. Typed(c, x, s)  BY DEF Typed, World
<1>2. Loose(c, x, s, t) /\ s.open /\ c.curResp = None /\ c.pendResp # <<>>  OBVIOUS
<1> HIDE DEF c, x, s
<1>3. /\ c.pendReq = c.pendResp /\ ~c.excess /\ s.buf = <<>> /\ s.net = <<>> /\ s.wire = <<>>
      /\ s.sent = {} /\ s.writer = None /\ s.reader = "ack"
      /\ IF First(c) THEN c.curReq = t ELSE c.curReq = None /\ c.pendReq = <<>>
      /\ t \notin ToSet(c.pendResp)
      /\ (\A r \in ToSet(c.pendResp) : Waiting(x[r]) /\ x[r].comp = "idle")
  BY <1>1, <1>2, HeldLast
<1>4. c \in Manager  BY <1>1 DEF Typed
<1>5. PICK e \in Seq(Tx) : e = c.pendResp /\ e # <<>>  BY <1>1, <1>2, Types
<1>6. PICK n \in Tx, f \in Seq(Tx) : n = Head(e) /\ f = Tail(e) /\ n \in ToSet(e)
  BY <1>5, HeadAndTail
<1>7. First(c)  BY <1>2, <1>3
<1> DEFINE d1 == FirstOver(c)
           d == NextUp(d1, n, f, n, f)
           u == Moves(w, d)
           b == StartRequest(u)
           v == ReceivedDataRes(b)
<1>8. /\ d1 \in Manager /\ d1.flags = c.flags \ {"EFirstTransaction"}
      /\ d1.curReq = IF First(c) THEN None ELSE c.curReq
      /\ d1.state = c.state /\ d1.curResp = c.curResp /\ d1.pendReq = c.pendReq /\ d1.pendResp = c.pendResp
      /\ d1.excess = c.excess /\ d1.nonPersistent = c.nonPersistent
  BY <1>4, FirstOverIs
<1>9. ResponseDataParsed(w) = v
  <2>1. NextOnConnection(w) = b
    <3>1. d1 = FirstOver(w.cm) /\ d1.pendReq # <<>> /\ d1.pendResp # <<>>  BY <1>2, <1>3, <1>8 DEF c
    <3>2. Head(d1.pendReq) = n /\ Tail(d1.pendReq) = f /\ Head(d1.pendResp) = n /\ Tail(d1.pendResp) = f
      BY <1>3, <1>5, <1>6, <1>8
    <3> HIDE DEF d1
    <3>3. NextOnConnection(w) =
            StartRequest(Moves(w, NextUp(d1, Head(d1.pendReq), Tail(d1.pendReq), Head(d1.pendResp), Tail(d1.pendResp))))
      BY <1>8, <3>1, NextOnConnectionIs
    <3> QED BY <3>2, <3>3
  <2>2. w.cm.state = "EConnected" /\ w.cm.curResp = None  BY <1>2 DEF c, Loose
  <2> HIDE DEF b
  <2> QED BY <2>1, <2>2 DEF ResponseDataParsed
<1> HIDE DEF d1
<1>10. /\ d \in Manager /\ d.curReq = n /\ d.pendReq = f /\ d.curResp = n /\ d.pendResp = f
       /\ d.flags = d1.flags \cup {"EPendingWriteInConnectedState"}
       /\ d.state = d1.state /\ d.excess = d1.excess /\ d.nonPersistent = d1.nonPersistent
  BY <1>8, NextUpIs
<1> HIDE DEF d
<1>11. u \in World /\ u.cm = d /\ u.tx = x /\ u.sock = s /\ u.panic = w.panic
  BY <1>10, MovesIs DEF x, s
<1> HIDE DEF u
<1>12. /\ b \in World /\ b.cm = u.cm /\ b.sock = u.sock /\ b.panic = u.panic
       /\ \A r \in Tx : r # n => b.tx[r] = u.tx[r]
       /\ b.tx[n].comp = "start" /\ Alike(u.tx[n], b.tx[n])
  <2>1. u.cm.curReq = n /\ u.tx[n].comp = "idle"  BY <1>3, <1>5, <1>6, <1>10, <1>11
  <2> QED BY <1>11, <2>1, StartIs
<1> HIDE DEF b
<1>13. /\ v \in World /\ v.cm = b.cm /\ v.tx = b.tx /\ v.panic = b.panic
       /\ v.sock.reader = "read" /\ v.sock.buf = <<>>
       /\ v.sock.net = b.sock.net /\ v.sock.writer = b.sock.writer
       /\ v.sock.wire = b.sock.wire /\ v.sock.sent = b.sock.sent /\ v.sock.hup = b.sock.hup
  BY <1>2, <1>3, <1>11, <1>12, GivenBack
<1> HIDE DEF v
<1>14. "EDiscardSndDataCnf" \notin v.cm.flags  BY <1>8, <1>10, <1>11, <1>12, <1>13 DEF Sound, c
<1>15. n # t  BY <1>3, <1>5, <1>6
<1>16. v.tx[t] = x[t] /\ \A r \in Tx : Tame(x[r], v.tx[r])
  BY <1>11, <1>12, <1>13, <1>15 DEF Tame, Alike
<1>17. ASSUME NEW y \in [Tx -> Transaction], Others(v.tx, y, t), Off(y[t]), y[t].comp = x[t].comp
       PROVE  Fit(v.cm, y, v.sock)
  <2> DEFINE z == v.sock
  <2>1. Typed(d, y, z)  BY <1>10, <1>13 DEF Typed, World
  <2>2. Still(z) /\ (z.hup => s.hup)  BY <1>3, <1>11, <1>12, <1>13 DEF Still
  <2>3. NextUsed(c, s, d, z, n, e)
    <3>1. /\ d.state = "EConnected" /\ d.curReq = n /\ d.curResp = n /\ d.pendReq = Tail(e) /\ d.pendResp = Tail(e)
          /\ ~d.excess /\ d.nonPersistent = c.nonPersistent /\ ~First(d)
      BY <1>2, <1>3, <1>6, <1>8, <1>10 DEF First, Loose
    <3> QED BY <2>2, <3>1 DEF NextUsed
  <2>4. NextStarted(x, y, t, n)
    <3>1. /\ \A r \in Tx : r # t /\ r # n => y[r] = x[r]
          /\ Alike(x[n], y[n]) /\ y[n].comp = "start"
      BY <1>11, <1>12, <1>13, <1>15, <1>17 DEF Others
    <3> QED BY <1>17, <3>1 DEF NextStarted
  <2> HIDE DEF z
  <2>5. Run(d, y, z, None)
    BY <1>1, <1>2, <1>5, <1>6, <2>1, <2>3, <2>4, HeldNext
  <2> QED BY <1>11, <1>12, <1>13, <2>5 DEF Fit, z
<1>18. Finished(v, x, t) /\ v.panic = w.panic
  BY <1>10, <1>11, <1>12, <1>13, <1>14, <1>15, <1>16, <1>17 DEF Finished
<1> QED BY <1>9, <1>18 DEF x

\* The excess data is given away, once.
Unburdened(c) == [c EXCEPT !.excess = FALSE]

\* ResponseDataParsed of a response when the next one is already the current one.
LEMMA ParsedOn ==
  ASSUME NEW w \in World, Sound(w), NEW t \in Tx, Loose(w.cm, w.tx, w.sock, t), w.sock.open,
         w.cm.curResp # None
  PROVE  LET v == ResponseDataParsed(w) IN Finished(v, w.tx, t) /\ v.panic = w.panic
<1> DEFINE c == w.cm
           x == w.tx
           s == w.sock
<1>1. Typed(c, x, s)  BY DEF Typed, World
<1>2. Loose(c, x, s, t) /\ s.open /\ c.curResp # None  OBVIOUS
<1> HIDE DEF c, x, s
<1>3. PICK q \in Tx : q = c.curResp  BY <1>1, <1>2, Types
<1>4. /\ c.state = "EConnected" /\ Queues(c, t) /\ Mode(c, t) /\ Parsers(c, x, t) /\ Token(c, x, s, t)
      /\ t # None /\ None \notin Tx /\ c \in Manager /\ x[q] \in Transaction
  BY <1>1, <1>2, Types DEF Loose, Typed
<1>5. x[q].parse = "wait" /\ s.reader = "ack" /\ q # t /\ c.curReq # t
  <2>1. q \in Awaits(c) /\ t \notin Awaits(c)  BY <1>3, <1>4 DEF Queues, Awaits
  <2>2. x[q].parse = "wait"  BY <1>2, <1>3, <1>4 DEF Parsers, Current
  <2>3. s.reader = "ack"  BY <1>4 DEF Token
  <2>4. ~First(c)  BY <1>2, <1>4 DEF Mode
  <2> QED BY <1>4, <2>1, <2>2, <2>3, <2>4 DEF Mode
<1> DEFINE d == Unburdened(c)
           u == Moves(w, d)
           v == IF c.excess THEN Feed(u, q) ELSE ReceivedDataRes(w)
<1>6. ResponseDataParsed(w) = v
  <2>1. [w EXCEPT !.cm.excess = FALSE] = u  BY DEF Moves, Unburdened, World, Manager, c
  <2>2. w.cm.state = "EConnected" /\ w.cm.curResp = q /\ q # None /\ w.cm.excess = c.excess
    BY <1>2, <1>3, <1>4 DEF c
  <2> HIDE DEF u
  <2> QED BY <2>1, <2>2 DEF ResponseDataParsed
<1>7. /\ d \in Manager /\ d.curReq = c.curReq /\ d.pendReq = c.pendReq /\ d.curResp = c.curResp
      /\ d.pendResp = c.pendResp /\ d.flags = c.flags /\ d.state = c.state /\ ~d.excess
      /\ d.nonPersistent = c.nonPersistent
  BY <1>4 DEF Unburdened, Manager
<1>8. ~c.excess => d = c
  <2>1. SUFFICES ASSUME ~c.excess PROVE d = c  OBVIOUS
  <2>2. c.excess = FALSE  BY <1>4, <2>1 DEF Manager
  <2> QED BY <1>4, <2>2 DEF Unburdened, Manager
<1> HIDE DEF d
<1>9. u \in World /\ u.cm = d /\ u.tx = x /\ u.sock = s /\ u.panic = w.panic
  BY <1>7, MovesIs DEF x, s
<1> HIDE DEF u
<1>10. /\ v \in World /\ v.cm = d /\ v.panic = w.panic /\ Others(x, v.tx, q)
       /\ SameButParse(x[q], v.tx[q]) /\ v.tx[q].parse = IF c.excess THEN "run" ELSE "wait"
       /\ v.sock.reader = IF c.excess THEN "ack" ELSE "read"
       /\ v.sock.buf = IF c.excess THEN s.buf ELSE <<>>
       /\ v.sock.net = s.net /\ v.sock.writer = s.writer /\ v.sock.wire = s.wire /\ v.sock.sent = s.sent
       /\ v.sock.hup = s.hup
  <2>1. CASE c.excess
    <3> DEFINE f == Feed(u, q)
    <3>1. /\ f \in World /\ f.cm = u.cm /\ f.sock = u.sock /\ f.panic = u.panic
          /\ Others(u.tx, f.tx, q) /\ f.tx[q].parse = "run" /\ SameButParse(u.tx[q], f.tx[q])
      <4>1. u.tx[q].parse = "wait"  BY <1>5, <1>9
      <4> QED BY <1>9, <4>1, FeedIs
    <3>2. v = f  BY <2>1
    <3> HIDE DEF v, f
    <3> QED BY <1>5, <1>9, <2>1, <3>1, <3>2
  <2>2. CASE ~c.excess
    <3> DEFINE f == ReceivedDataRes(w)
    <3>1. /\ f \in World /\ f.cm = w.cm /\ f.tx = w.tx /\ f.panic = w.panic
          /\ f.sock.reader = "read" /\ f.sock.buf = <<>>
          /\ f.sock.net = w.sock.net /\ f.sock.writer = w.sock.writer
          /\ f.sock.wire = w.sock.wire /\ f.sock.sent = w.sock.sent /\ f.sock.hup = w.sock.hup
      BY <1>2, <1>5, GivenBack DEF s
    <3>2. v = f  BY <2>2
    <3> HIDE DEF v, f
    <3>3. SameButParse(x[q], v.tx[q]) /\ Others(x, v.tx, q) /\ v.tx[q].parse = "wait"
      BY <1>5, <3>1, <3>2 DEF SameButParse, Others, x
    <3> QED BY <1>8, <2>2, <3>1, <3>2, <3>3 DEF c, s
  <2> QED BY <2>1, <2>2
<1> HIDE DEF v
<1>11. "EDiscardSndDataCnf" \notin v.cm.flags  BY <1>7, <1>10 DEF Sound, c
<1>12. v.tx[t] = x[t] /\ \A r \in Tx : Tame(x[r], v.tx[r])
  BY <1>5, <1>10 DEF Tame, Others, SameButParse
<1>13. ASSUME NEW y \in [Tx -> Transaction], Others(v.tx, y, t), Off(y[t]), y[t].comp = x[t].comp
       PROVE  Fit(v.cm, y, v.sock)
  <2> DEFINE z == v.sock
  <2>1. Typed(d, y, z)  BY <1>7, <1>10 DEF Typed, World
  <2>2. c.excess <=> s.buf # <<>>  BY <1>4 DEF Token
  <2>3. z.buf = s.buf  BY <1>10, <2>2
  <2>4. /\ \A r \in Tx : r # t /\ r # q => y[r] = x[r]
        /\ SameButParse(x[q], y[q]) /\ y[q].parse = IF c.excess THEN "run" ELSE "wait"
    BY <1>5, <1>10, <1>13 DEF Others
  <2>5. /\ z.reader = IF c.excess THEN "ack" ELSE "read"
        /\ z.net = s.net /\ z.writer = s.writer /\ z.wire = s.wire /\ z.sent = s.sent /\ z.hup = s.hup
    BY <1>10
  <2> HIDE DEF z
  <2>6. Run(d, y, z, None)
    BY <1>1, <1>2, <1>3, <1>7, <1>13, <2>1, <2>3, <2>4, <2>5, HeldReleased
  <2> QED BY <1>10, <2>6 DEF Fit, z
<1>14. Finished(v, x, t) /\ v.panic = w.panic
  BY <1>5, <1>7, <1>10, <1>11, <1>12, <1>13 DEF Finished
<1> QED BY <1>6, <1>14 DEF x

\* ResponseDataParsed.
LEMMA Parsed ==
  ASSUME NEW w \in World, Sound(w), NEW t \in Tx, Loose(w.cm, w.tx, w.sock, t), w.sock.open
  PROVE  LET v == ResponseDataParsed(w) IN Finished(v, w.tx, t) /\ v.panic = w.panic
  BY ParsedLast, ParsedNext, ParsedOn

\* What the end of a message makes of a transaction.
Done(r)      == [r EXCEPT !.msgDone = TRUE]
Unparsed(r)  == [r EXCEPT !.parse = "wait", !.hdr = FALSE]
Completed(r) == [r EXCEPT !.status = "completed"]
Holding(r)   == [r EXCEPT !.hold = TRUE]

\* Done marks a message complete and changes nothing else of a transaction.
LEMMA DoneIs ==
  ASSUME NEW r \in Transaction
  PROVE  LET q == Done(r) IN
         /\ q \in Transaction /\ q.msgDone /\ q.status = r.status /\ q.comp = r.comp /\ q.parse = r.parse
         /\ q.unread = r.unread /\ q.hold = r.hold /\ Tame(r, q)
  BY DEF Done, Transaction, Tame

\* Unparsed sends a parser back to wait and forgets the head.
LEMMA UnparsedIs ==
  ASSUME NEW r \in Transaction
  PROVE  LET q == Unparsed(r) IN
         /\ q \in Transaction /\ q.parse = "wait" /\ ~q.hdr /\ q.msgDone = r.msgDone /\ q.status = r.status
         /\ q.comp = r.comp /\ q.unread = r.unread /\ q.hold = r.hold /\ Tame(r, q)
  BY DEF Unparsed, Transaction, Tame, ParserStates

\* Completed changes the status of a transaction and nothing else.
LEMMA CompletedIs ==
  ASSUME NEW r \in Transaction
  PROVE  LET q == Completed(r) IN
         /\ q \in Transaction /\ q.status = "completed" /\ q.parse = r.parse /\ q.msgDone = r.msgDone
         /\ q.comp = r.comp /\ q.unread = r.unread /\ q.hold = r.hold /\ Tame(r, q)
  BY DEF Completed, Transaction, Tame, Statuses

\* Holding marks a transaction that must let go of the buffer and changes nothing else.
LEMMA HoldingIs ==
  ASSUME NEW r \in Transaction
  PROVE  LET q == Holding(r) IN
         /\ q \in Transaction /\ q.hold /\ q.status = r.status /\ q.parse = r.parse /\ q.msgDone = r.msgDone
         /\ q.comp = r.comp /\ q.unread = r.unread /\ Tame(r, q)
  BY DEF Holding, Transaction, Tame

\* ResponseComplete.
LEMMA ResponseCompleteIs ==
  ASSUME NEW w \in World
  PROVE  LET v == ResponseComplete(w, w.sock.buf # <<>>) IN
         /\ v \in World /\ v.tx = w.tx /\ v.sock = w.sock /\ v.panic = w.panic
         /\ Completes(w.cm, v.cm, w.sock.buf)
<1> DEFINE b == w.sock.buf # <<>>
           v == ResponseComplete(w, b)
<1>1. v \in World  BY ResponseCompleteKeeps DEF Keeps
<1>2. v.tx = w.tx /\ v.sock = w.sock /\ v.panic = w.panic  BY DEF ResponseComplete, World
<1>3. Completes(w.cm, v.cm, w.sock.buf)
  <2>0. w.cm \in Manager  BY DEF World
  <2>1. CASE w.cm.pendResp = <<>>
    <3> DEFINE d == [w.cm EXCEPT !.curResp = None]
    <3>1. v.cm = d  BY <2>1 DEF ResponseComplete, World
    <3>2. /\ d.state = w.cm.state /\ d.flags = w.cm.flags /\ d.curReq = w.cm.curReq /\ d.pendReq = w.cm.pendReq
          /\ d.nonPersistent = w.cm.nonPersistent /\ d.curResp = None /\ d.pendResp = <<>> /\ d.excess = w.cm.excess
      BY <2>0, <2>1 DEF Manager
    <3> HIDE DEF v, d
    <3> QED BY <2>1, <3>1, <3>2 DEF Completes
  <2>2. CASE w.cm.pendResp # <<>> /\ First(w.cm)
    <3> DEFINE d == [w.cm EXCEPT !.curResp = None, !.excess = b]
    <3> HIDE DEF b
    <3>1. v.cm = d  BY <2>2 DEF ResponseComplete, World, First
    <3>2. /\ d.state = w.cm.state /\ d.flags = w.cm.flags /\ d.curReq = w.cm.curReq /\ d.pendReq = w.cm.pendReq
          /\ d.nonPersistent = w.cm.nonPersistent /\ d.curResp = None /\ d.pendResp = w.cm.pendResp /\ d.excess = b
      BY <2>0, <2>2 DEF Manager
    <3> HIDE DEF v, d
    <3> QED BY <2>2, <3>1, <3>2 DEF Completes, b
  <2>3. CASE w.cm.pendResp # <<>> /\ ~First(w.cm)
    <3> DEFINE d == [w.cm EXCEPT !.curResp = Head(w.cm.pendResp), !.pendResp = Tail(@), !.excess = b]
    <3> HIDE DEF b
    <3>1. v.cm = d  BY <2>3 DEF ResponseComplete, World, First
    <3>2. /\ d.state = w.cm.state /\ d.flags = w.cm.flags /\ d.curReq = w.cm.curReq /\ d.pendReq = w.cm.pendReq
          /\ d.nonPersistent = w.cm.nonPersistent /\ d.excess = b
          /\ d.curResp = Head(w.cm.pendResp) /\ d.pendResp = Tail(w.cm.pendResp)
      BY <2>0, <2>3 DEF Manager
    <3> HIDE DEF v, d
    <3> QED BY <2>3, <3>1, <3>2 DEF Completes, b
  <2> QED BY <2>1, <2>2, <2>3
<1> QED BY <1>1, <1>2, <1>3

\* SetStatus(EResponseComplete), when the request is not the current one any more.
LEMMA TransactionCompleteIs ==
  ASSUME NEW w \in World, NEW t \in Tx, w.tx[t].status = "active", First(w.cm) \/ w.cm.curReq # t
  PROVE  TransactionComplete(w, t) = Put(w, t, Completed(w.tx[t]))
<1>1. CheckRequestComplete(w, t) = w  BY DEF CheckRequestComplete, First
<1>2. TransactionComplete(w, t) = [w EXCEPT !.tx[t].status = "completed"]
  BY <1>1 DEF TransactionComplete
<1>3. w.tx \in [Tx -> Transaction]  BY DEF World
<1> QED BY <1>2, <1>3 DEF Put, World, Completed

\* The message is complete: what the data packet is released from.
LEMMA CompleteIs ==
  ASSUME NEW w \in World, Sound(w), NEW t \in Tx, Fit(w.cm, w.tx, w.sock), w.sock.open, w.tx[t].parse = "end"
  PROVE  \E g, q :
           /\ MessageCompleteL(w, t) = ReleaseDataPacket(g, t)
           /\ Run(w.cm, w.tx, w.sock, None) /\ t = w.cm.curResp /\ w.tx[t].status = "active"
           /\ g \in World /\ Completes(w.cm, g.cm, w.sock.buf) /\ g.sock = w.sock /\ g.panic = w.panic
           /\ Others(w.tx, g.tx, t) /\ g.tx[t] = q
           /\ q \in Transaction /\ q.parse = "wait" /\ q.comp = w.tx[t].comp /\ q.unread = w.tx[t].unread
           /\ ~q.hold /\ q.msgDone /\ q.status = (IF w.tx[t].unread THEN "active" ELSE "completed")
           /\ Tame(w.tx[t], q)
<1> DEFINE c == w.cm
           x == w.tx
           s == w.sock
           u == Put(w, t, Done(x[t]))
           a == ResponseComplete(u, s.buf # <<>>)
           b == IF a.tx[t].unread THEN a ELSE TransactionComplete(a, t)
           g == [b EXCEPT !.tx[t].parse = "wait", !.tx[t].hdr = FALSE]
           v == ReleaseDataPacket(g, t)
<1>1. MessageCompleteL(w, t) = v
  <2>1. u = [w EXCEPT !.tx[t].msgDone = TRUE]  BY DEF Put, World, Done
  <2> HIDE DEF u
  <2> QED BY <2>1, Zenon DEF MessageCompleteL
<1>2. Typed(c, x, s) /\ x[t] \in Transaction  BY DEF Typed, World
<1>3. /\ Run(c, x, s, None) /\ t = c.curResp /\ Silent(x[t]) /\ x[t].status = "active" /\ ~x[t].hold
      /\ x[t].parse = "end"
  <2>1. x[t].parse # "wait"  OBVIOUS
  <2> HIDE DEF c, x, s
  <2>2. Fit(c, x, s)  BY DEF c, x, s
  <2>3. x[t].parse = "end"  BY DEF x
  <2> QED BY <1>2, <2>1, <2>2, <2>3, AtParse
<1>4. First(c) \/ c.curReq # t
  <2>1. SUFFICES ASSUME ~First(c), c.curReq = t PROVE FALSE  OBVIOUS
  <2>2. t # None  BY ConstantsAssumption
  <2>3. Composers(c, x, s)  BY <1>3 DEF Run, Loose
  <2> HIDE DEF c, x, s
  <2> QED BY <1>3, <2>1, <2>2, <2>3 DEF Composers, Silent, Working
<1>5. /\ u.cm = c /\ u.sock = s /\ u.panic = w.panic /\ u.tx[t] = Done(x[t]) /\ Others(x, u.tx, t)
      /\ u \in World
  <2>1. Done(x[t]) \in Transaction  BY <1>2, DoneIs
  <2> QED BY <2>1, PutIs DEF Others
<1> HIDE DEF u
<1>6. /\ a \in World /\ a.tx = u.tx /\ a.sock = s /\ a.panic = w.panic /\ Completes(c, a.cm, s.buf)
  <2>1. a = ResponseComplete(u, u.sock.buf # <<>>)  BY <1>5
  <2> HIDE DEF a
  <2> QED BY <1>5, <2>1, ResponseCompleteIs
<1> HIDE DEF a
<1> DEFINE r == IF x[t].unread THEN Done(x[t]) ELSE Completed(Done(x[t]))
<1>7. /\ Done(x[t]) \in Transaction /\ Done(x[t]).unread = x[t].unread /\ Done(x[t]).status = "active"
      /\ r \in Transaction /\ r.comp = x[t].comp /\ r.unread = x[t].unread /\ ~r.hold /\ r.msgDone
      /\ r.status = (IF x[t].unread THEN "active" ELSE "completed") /\ Tame(x[t], r)
  <2> DEFINE q == Done(x[t])
  <2>1. /\ q \in Transaction /\ q.msgDone /\ q.status = x[t].status /\ q.comp = x[t].comp
        /\ q.unread = x[t].unread /\ q.hold = x[t].hold /\ Tame(x[t], q)
    BY <1>2, DoneIs
  <2> HIDE DEF q
  <2>2. /\ Completed(q) \in Transaction /\ Completed(q).status = "completed" /\ Completed(q).msgDone = q.msgDone
        /\ Completed(q).comp = q.comp /\ Completed(q).unread = q.unread /\ Completed(q).hold = q.hold
        /\ Tame(q, Completed(q))
    BY <2>1, CompletedIs
  <2>3. r = IF x[t].unread THEN q ELSE Completed(q)  BY DEF q
  <2> HIDE DEF r, x
  <2>4. CASE x[t].unread
    <3>1. r = q  BY <2>3, <2>4
    <3> QED BY <1>3, <2>1, <2>4, <3>1 DEF q
  <2>5. CASE ~x[t].unread
    <3>1. r = Completed(q)  BY <2>3, <2>5
    <3>2. Tame(x[t], r)  BY <2>1, <2>2, <3>1 DEF Tame
    <3> QED BY <1>3, <2>1, <2>2, <2>5, <3>1, <3>2 DEF q
  <2> QED BY <2>4, <2>5
<1>8. /\ b \in World /\ b.cm = a.cm /\ b.sock = s /\ b.panic = w.panic /\ b.tx[t] = r /\ Others(x, b.tx, t)
  <2>1. a.tx[t] = Done(x[t]) /\ Others(x, a.tx, t)  BY <1>5, <1>6
  <2>2. CASE x[t].unread
    <3>1. b = a /\ r = Done(x[t])  BY <1>7, <2>1, <2>2
    <3> HIDE DEF b, r
    <3> QED BY <1>6, <2>1, <3>1
  <2>3. CASE ~x[t].unread
    <3>1. ~a.tx[t].unread /\ r = Completed(Done(x[t]))  BY <1>7, <2>1, <2>3
    <3>2. b = TransactionComplete(a, t)  BY <3>1
    <3>3. First(a.cm) \/ a.cm.curReq # t  BY <1>4, <1>6 DEF Completes, First
    <3>4. a.tx[t].status = "active"  BY <1>7, <2>1
    <3> HIDE DEF b, r
    <3>5. b = Put(a, t, Completed(a.tx[t]))  BY <1>6, <3>2, <3>3, <3>4, TransactionCompleteIs
    <3>6. b = Put(a, t, r)  BY <2>1, <3>1, <3>5
    <3> DEFINE z == Put(a, t, r)
    <3>7. /\ z.cm = a.cm /\ z.sock = a.sock /\ z.panic = a.panic
          /\ z.tx[t] = r
          /\ \A i \in Tx : i # t => z.tx[i] = a.tx[i]
          /\ z \in World
      BY <1>6, <1>7, PutIs
    <3>8. b = z  BY <3>6
    <3> HIDE DEF z
    <3> QED BY <1>6, <2>1, <3>7, <3>8 DEF Others
  <2> QED BY <2>2, <2>3
<1> HIDE DEF b
<1>9. /\ g \in World /\ g.cm = a.cm /\ g.sock = s /\ g.panic = w.panic /\ g.tx[t] = Unparsed(r)
      /\ Others(x, g.tx, t)
  <2>1. /\ g \in World /\ g.cm = b.cm /\ g.sock = b.sock /\ g.panic = b.panic
        /\ \A i \in Tx : i # t => g.tx[i] = b.tx[i]
        /\ g.tx[t] = [b.tx[t] EXCEPT !.parse = "wait", !.hdr = FALSE]
    BY <1>8, ResetIs
  <2> HIDE DEF g, r
  <2> QED BY <1>8, <2>1 DEF Unparsed, Others
<1> HIDE DEF g
<1> DEFINE q == Unparsed(r)
<1>10. /\ q \in Transaction /\ q.parse = "wait" /\ q.comp = x[t].comp /\ q.unread = x[t].unread /\ ~q.hold
       /\ q.msgDone /\ q.status = (IF x[t].unread THEN "active" ELSE "completed") /\ Tame(x[t], q)
  <2> HIDE DEF r
  <2>1. /\ q \in Transaction /\ q.parse = "wait" /\ ~q.hdr /\ q.msgDone = r.msgDone /\ q.status = r.status
        /\ q.comp = r.comp /\ q.unread = r.unread /\ q.hold = r.hold /\ Tame(r, q)
    BY <1>7, UnparsedIs
  <2> HIDE DEF q
  <2> QED BY <1>7, <2>1 DEF Tame
<1>11. g.tx[t] = q  BY <1>9
<1> HIDE DEF q, r
<1>12. Completes(c, g.cm, s.buf)  BY <1>6, <1>9
<1> HIDE DEF v
<1>13. MessageCompleteL(w, t) = ReleaseDataPacket(g, t)  BY <1>1 DEF v
<1> QED BY <1>3, <1>9, <1>10, <1>11, <1>12, <1>13

\* The end of the message.
LEMMA CompleteSorted ==
  ASSUME NEW w \in World, Sound(w), NEW t \in Tx, Fit(w.cm, w.tx, w.sock), w.sock.open, w.tx[t].parse = "end"
  PROVE  Sorted(MessageCompleteL(w, t))
<1> DEFINE c == w.cm
           x == w.tx
           s == w.sock
<1>1. PICK g, q :
         /\ MessageCompleteL(w, t) = ReleaseDataPacket(g, t)
         /\ Run(c, x, s, None) /\ t = c.curResp /\ x[t].status = "active"
         /\ g \in World /\ Completes(c, g.cm, s.buf) /\ g.sock = s /\ g.panic = w.panic
         /\ Others(x, g.tx, t) /\ g.tx[t] = q
         /\ q \in Transaction /\ q.parse = "wait" /\ q.comp = x[t].comp /\ q.unread = x[t].unread
         /\ ~q.hold /\ q.msgDone /\ q.status = (IF x[t].unread THEN "active" ELSE "completed")
         /\ Tame(x[t], q)
  BY CompleteIs
<1>2. Typed(c, x, s) /\ x[t].parse = "end"  BY DEF Typed, World
<1> DEFINE v == ReleaseDataPacket(g, t)
<1>3. ASSUME NEW y, y \in [Tx -> Transaction], Others(x, y, t), y[t].comp = x[t].comp
       PROVE  Loose(g.cm, y, s, t)
  <2>1. Typed(g.cm, y, s)  BY <1>1, <1>2, <1>3 DEF Typed, World
  <2> HIDE DEF c, x, s
  <2> QED BY <1>1, <1>2, <1>3, <2>1, CompletesLoose
<1>4. Sound(g)
  <2>1. \A i \in Tx : Tame(w.tx[i], g.tx[i])  BY <1>1 DEF Tame, Others
  <2>2. "EDiscardSndDataCnf" \notin g.cm.flags  BY <1>1 DEF Sound, Completes
  <2> QED BY <1>1, <2>1, <2>2, TameSound
<1>5. CASE x[t].unread
  <2> DEFINE z == Put(g, t, Holding(q))
  <2>1. v = z
    <3>1. v = [g EXCEPT !.tx[t].hold = TRUE]  BY <1>1, <1>5 DEF ReleaseDataPacket
    <3> HIDE DEF v
    <3> QED BY <1>1, <3>1 DEF Put, World, Holding
  <2>2. /\ Holding(q) \in Transaction /\ Holding(q).hold /\ Holding(q).status = q.status
        /\ Holding(q).parse = q.parse /\ Holding(q).msgDone = q.msgDone
        /\ Holding(q).comp = q.comp /\ Holding(q).unread = q.unread /\ Tame(q, Holding(q))
    BY <1>1, HoldingIs
  <2>3. /\ z.cm = g.cm /\ z.sock = g.sock /\ z.panic = g.panic /\ z.tx[t] = Holding(q)
        /\ \A i \in Tx : i # t => z.tx[i] = g.tx[i]
        /\ z \in World
    BY <1>1, <2>2, PutIs
  <2> HIDE DEF z
  <2>4. Others(x, z.tx, t) /\ z.tx[t].comp = x[t].comp /\ z.tx \in [Tx -> Transaction]
    BY <1>1, <2>2, <2>3 DEF Others, World
  <2>5. Loose(g.cm, z.tx, s, t)  BY <1>3, <2>4
  <2>6. Held(z.tx[t])  BY <1>1, <1>5, <2>2, <2>3 DEF Held
  <2>7. Run(z.cm, z.tx, z.sock, t)  BY <1>1, <2>3, <2>5, <2>6 DEF Run
  <2>8. Sound(z)
    <3>1. \A i \in Tx : Tame(g.tx[i], z.tx[i])  BY <1>1, <2>2, <2>3 DEF Tame
    <3>2. "EDiscardSndDataCnf" \notin z.cm.flags  BY <1>4, <2>3 DEF Sound
    <3> QED BY <1>4, <2>3, <3>1, <3>2, TameSound
  <2>9. Sorted(z)  BY <2>7, <2>8, RunSorted
  <2> QED BY <1>1, <2>1, <2>9
<1>6. CASE ~x[t].unread
  <2>1. v = ResponseDataParsed(g)  BY <1>1, <1>6 DEF ReleaseDataPacket
  <2>2. Loose(g.cm, g.tx, g.sock, t)
    <3>1. g.tx \in [Tx -> Transaction]  BY <1>1 DEF World
    <3>2. Loose(g.cm, g.tx, s, t)  BY <1>1, <1>3, <3>1
    <3> QED BY <1>1, <3>2
  <2> DEFINE z == ResponseDataParsed(g)
  <2>3. Finished(z, g.tx, t) /\ z.panic = g.panic
    <3>1. g.sock.open  BY <1>1
    <3> QED BY <1>1, <1>4, <2>2, <3>1, Parsed
  <2> HIDE DEF z, v
  <2>4. /\ z \in World /\ "EDiscardSndDataCnf" \notin z.cm.flags /\ z.tx[t] = q
        /\ \A i \in Tx : Tame(g.tx[i], z.tx[i])
    BY <1>1, <2>3 DEF Finished
  <2>5. Fit(z.cm, z.tx, z.sock)
    <3>1. z.tx \in [Tx -> Transaction]  BY <2>4 DEF World
    <3>2. Off(z.tx[t])  BY <1>1, <1>6, <2>4 DEF Off
    <3>3. Others(z.tx, z.tx, t)  BY DEF Others
    <3>4. z.tx[t].comp = g.tx[t].comp  BY <1>1, <2>4
    <3> QED BY <2>3, <3>1, <3>2, <3>3, <3>4 DEF Finished
  <2>6. Sound(z)  BY <1>4, <2>3, <2>4, TameSound
  <2>7. MessageCompleteL(w, t) = z  BY <1>1, <2>1 DEF z, v
  <2> QED BY <2>5, <2>6, <2>7 DEF Sorted
<1> QED BY <1>5, <1>6

\* ParserRun.
LEMMA ParserRunOrder ==
  ASSUME Ordered(world), Good(world)', NEW t \in Tx, ParserRun(t) PROVE Ordered(world)'
<1>1. /\ world \in World /\ Sound(world) /\ Fit(cm, tx, sock) /\ Typed(cm, tx, sock)
      /\ world.cm = cm /\ world.tx = tx /\ world.sock = sock /\ world.panic = panic
      /\ sock.open <=> cm.state \in ConnectedStates
  BY OrderedIs
<1>2. tx[t].parse # "wait"  BY DEF ParserRun
<1>3. sock.open
  <2>1. Run(cm, tx, sock, None)  BY <1>1, <1>2, AtParse
  <2> QED BY <1>1, <2>1 DEF Run, Loose, ConnectedStates
<1> DEFINE p == Head(sock.buf)
           v == IF tx[t].hdr THEN ParseTail(world, t) ELSE ParseHead(world, t, p)
           m == MessageCompleteL(world, t)
<1>4. CASE tx[t].parse = "run" /\ sock.buf # <<>> /\ tx[t].hdr = (p.part = "tail") /\ Becomes(v)
  <2> HIDE DEF v
  <2>1. PICK e : e = p  OBVIOUS
  <2>2. v = IF tx[t].hdr THEN ParseTail(world, t) ELSE ParseHead(world, t, e)  BY <2>1 DEF v
  <2>3. e = Head(sock.buf) /\ tx[t].hdr = (e.part = "tail")  BY <1>4, <2>1
  <2> HIDE DEF p
  <2>4. Sorted(v)  BY <1>1, <1>3, <1>4, <2>2, <2>3, PieceSorted
  <2> QED BY <1>4, <2>4, BecomesOrdered
<1>5. CASE tx[t].parse = "end" /\ Becomes(m)
  <2>1. Sorted(m)
    <3>1. ASSUME NEW w \in World, Sound(w), Fit(w.cm, w.tx, w.sock), w.sock.open, w.tx[t].parse = "end"
          PROVE  Sorted(MessageCompleteL(w, t))
      BY <3>1, CompleteSorted
    <3> QED BY <1>1, <1>3, <1>5, <3>1
  <2> HIDE DEF m
  <2> QED BY <1>5, <2>1, BecomesOrdered
<1> QED BY <1>4, <1>5 DEF ParserRun

\* Only the parser of t, which has finished or is the current one, has changed.
LEMMA LooseKept ==
  ASSUME NEW c, NEW x, NEW s, Typed(c, x, s), NEW h \in Tx \cup {None}, Loose(c, x, s, h), NEW t \in Tx,
         NEW y, Typed(c, y, s), Others(x, y, t), y[t].comp = x[t].comp,
         t = h \/ (t = c.curResp /\ y[t].hdr = x[t].hdr /\ y[t].parse = x[t].parse /\ y[t].len = x[t].len
                   /\ Current(y[t], h))
  PROVE  Loose(c, y, s, h)
<1>1. /\ c.state = "EConnected" /\ Queues(c, h) /\ Mode(c, h) /\ Parsers(c, x, h) /\ Composers(c, x, s)
      /\ Wire(c, x, s) /\ Answers(c, x, s) /\ Pieces(c, x, s) /\ Token(c, x, s, h)
  BY DEF Loose
<1>2. t # None /\ None \notin Tx /\ c.curResp \in Tx \cup {None}  BY Types
<1>3. t \notin ToSet(c.pendResp) /\ t \in Awaits(c) \cup {h}
  BY <1>1, <1>2 DEF Queues, Awaits
<1>4. ToSet(c.pendResp) \subseteq Tx
  <2>1. PICK r \in Seq(Tx) : r = c.pendResp  BY Types
  <2> QED BY <2>1, SomeIn
<1>5. t = h => t # c.curResp
  <2>1. SUFFICES ASSUME t = h, t = c.curResp PROVE FALSE  OBVIOUS
  <2> QED BY <1>1, <1>2, <2>1 DEF Queues, Awaits
<1>6. c.curResp # None => /\ y[c.curResp].hdr = x[c.curResp].hdr /\ y[c.curResp].parse = x[c.curResp].parse
                          /\ y[c.curResp].len = x[c.curResp].len /\ Current(y[c.curResp], h)
  BY <1>1, <1>2, <1>5 DEF Others, Parsers
<1>7. SameComposers(x, y)  BY DEF SameComposers, Others
<1>8. Parsers(c, y, h)
  <2>1. \A u \in ToSet(c.pendResp) : Waiting(y[u])  BY <1>1, <1>3, <1>4 DEF Parsers, Others
  <2>2. h # None => Silent(y[h])  BY <1>1, <1>7 DEF Parsers, SameComposers, Silent
  <2>3. \A u \in Tx \ Awaits(c) : u # h => Off(y[u])  BY <1>1, <1>3 DEF Parsers, Others
  <2> QED BY <1>6, <2>1, <2>2, <2>3 DEF Parsers
<1>9. Composers(c, y, s) /\ Wire(c, y, s) /\ Starting(c, y) = Starting(c, x)
  <2>1. PendingWrite(c) => c.curReq \in Tx /\ ~y[c.curReq].hdr
    <3>1. SUFFICES ASSUME PendingWrite(c) PROVE c.curReq \in Tx /\ ~y[c.curReq].hdr  OBVIOUS
    <3>2. c.curReq # None /\ c.curReq = c.curResp  BY <1>1, <3>1 DEF Mode
    <3> QED BY <1>1, <1>2, <1>6, <3>1, <3>2 DEF Composers
  <2> QED BY <1>1, <1>7, <2>1, ComposersKept
<1>10. Headless(c, y) = Headless(c, x) /\ Midway(c, y) = Midway(c, x)
  BY <1>6 DEF Headless, Midway
<1>11. Answers(c, y, s)  BY <1>1, <1>9, <1>10 DEF Answers
<1>12. Pieces(c, y, s)
  <2>1. \A p \in ToSet(s.buf) \cup ToSet(s.net) : p.t \in Tx
    <3>1. PICK b \in Seq(Piece), n \in Seq(Piece) : b = s.buf /\ n = s.net  BY Types
    <3>2. ToSet(b) \subseteq Piece /\ ToSet(n) \subseteq Piece  BY <3>1, SomeIn
    <3> QED BY <3>1, <3>2 DEF Piece
  <2>2. \A p \in ToSet(s.buf) \cup ToSet(s.net) :
          Given(p.t, y[p.t]) /\ (p.close => c.nonPersistent) /\ p.len # "unknown"
    BY <1>1, <1>7, <2>1 DEF Pieces, SameComposers, Given
  <2>3. \A p \in ToSet(s.buf) : Silent(y[p.t])  BY <1>1, <1>7, <2>1 DEF Pieces, SameComposers, Silent
  <2>4. Parts(s.buf \o s.net, Midway(c, y), c.curResp)  BY <1>1, <1>10 DEF Pieces
  <2>5. Midway(c, y) => y[c.curResp].len = "sized"
    BY <1>1, <1>6, <1>10 DEF Pieces, Midway
  <2> QED BY <2>2, <2>3, <2>4, <2>5 DEF Pieces
<1>13. Token(c, y, s, h)  BY <1>1, <1>6 DEF Token
<1> QED BY <1>1, <1>8, <1>9, <1>11, <1>12, <1>13 DEF Loose

\* The client reads.
Read(r)     == [r EXCEPT !.unread = FALSE]
Released(r) == [r EXCEPT !.hold = FALSE]

\* Read takes the data of a transaction and changes nothing else.
LEMMA ReadIs ==
  ASSUME NEW r \in Transaction
  PROVE  LET q == Read(r) IN
         /\ q \in Transaction /\ ~q.unread /\ q.status = r.status /\ q.comp = r.comp /\ q.parse = r.parse
         /\ q.hdr = r.hdr /\ q.len = r.len /\ q.hold = r.hold /\ q.msgDone = r.msgDone /\ Tame(r, q)
  BY DEF Read, Transaction, Tame

\* Released lets go of the buffer and changes nothing else.
LEMMA ReleasedIs ==
  ASSUME NEW r \in Transaction
  PROVE  LET q == Released(r) IN
         /\ q \in Transaction /\ ~q.hold /\ q.status = r.status /\ q.comp = r.comp /\ q.parse = r.parse
         /\ q.unread = r.unread /\ q.msgDone = r.msgDone /\ Tame(r, q)
  BY DEF Released, Transaction, Tame

\* Put, in a lemma's form.
LEMMA PutOthers ==
  ASSUME NEW w \in World, NEW t \in Tx, NEW r \in Transaction, NEW v, v = Put(w, t, r)
  PROVE  /\ v \in World /\ v.cm = w.cm /\ v.sock = w.sock /\ v.panic = w.panic /\ v.tx[t] = r
         /\ Others(w.tx, v.tx, t)
<1> DEFINE z == Put(w, t, r)
<1>1. /\ z \in World /\ z.cm = w.cm /\ z.sock = w.sock /\ z.panic = w.panic /\ z.tx[t] = r
      /\ \A i \in Tx : i # t => z.tx[i] = w.tx[i]
  BY PutIs
<1>2. v = z  OBVIOUS
<1> HIDE DEF z
<1> QED BY <1>1, <1>2 DEF Others

\* The last part is read: the transaction is complete.
LEMMA LastRead ==
  ASSUME NEW w \in World, Sound(w), NEW t \in Tx, Loose(w.cm, w.tx, w.sock, t), w.sock.open,
         w.tx[t].status = "active", w.tx[t].parse = "wait", ~w.tx[t].unread
  PROVE  Sorted(TransactionComplete([ResponseDataParsed(w) EXCEPT !.tx[t].hold = FALSE], t))
<1> DEFINE v == ResponseDataParsed(w)
           u == [v EXCEPT !.tx[t].hold = FALSE]
           z == TransactionComplete(u, t)
<1>1. Finished(v, w.tx, t) /\ v.panic = w.panic  BY Parsed
<1> HIDE DEF v
<1>2. /\ v \in World /\ "EDiscardSndDataCnf" \notin v.cm.flags /\ v.cm.curReq # t /\ v.tx[t] = w.tx[t]
      /\ \A i \in Tx : Tame(w.tx[i], v.tx[i])
  BY <1>1 DEF Finished
<1>3. w.tx[t] \in Transaction /\ v.tx \in [Tx -> Transaction]  BY <1>2 DEF World
<1> DEFINE q == Released(w.tx[t])
           r == Completed(q)
<1>4. /\ q \in Transaction /\ ~q.hold /\ q.status = "active" /\ q.comp = w.tx[t].comp /\ q.parse = "wait"
      /\ ~q.unread /\ Tame(w.tx[t], q)
  BY <1>3, ReleasedIs
<1>5. u = Put(v, t, q)  BY <1>2, <1>3 DEF Put, World, Released
<1> HIDE DEF u, q
<1>6. /\ u \in World /\ u.cm = v.cm /\ u.sock = v.sock /\ u.panic = v.panic /\ u.tx[t] = q
      /\ Others(v.tx, u.tx, t)
  BY <1>2, <1>4, <1>5, PutOthers
<1>7. z = Put(u, t, r)
  <2>1. z = Put(u, t, Completed(u.tx[t]))  BY <1>2, <1>4, <1>6, TransactionCompleteIs
  <2> QED BY <1>6, <2>1
<1>8. /\ r \in Transaction /\ r.status = "completed" /\ r.parse = q.parse
      /\ r.comp = q.comp /\ r.unread = q.unread /\ r.hold = q.hold /\ Tame(q, r)
  BY <1>4, CompletedIs
<1> HIDE DEF z, r
<1>9. /\ z \in World /\ z.cm = u.cm /\ z.sock = u.sock /\ z.panic = u.panic /\ z.tx[t] = r
      /\ Others(u.tx, z.tx, t)
  BY <1>6, <1>7, <1>8, PutOthers
<1>10. Fit(v.cm, z.tx, v.sock)
  <2>1. z.tx \in [Tx -> Transaction]  BY <1>9 DEF World
  <2>2. Others(v.tx, z.tx, t)  BY <1>6, <1>9 DEF Others
  <2>3. Off(z.tx[t])  BY <1>4, <1>8, <1>9 DEF Off
  <2>4. z.tx[t].comp = w.tx[t].comp  BY <1>4, <1>8, <1>9
  <2> QED BY <1>1, <2>1, <2>2, <2>3, <2>4 DEF Finished
<1>11. Sound(z)
  <2>1. \A i \in Tx : Tame(w.tx[i], z.tx[i])
    <3>1. Tame(w.tx[t], z.tx[t])  BY <1>4, <1>8, <1>9 DEF Tame
    <3>2. \A i \in Tx : i # t => z.tx[i] = v.tx[i]  BY <1>6, <1>9 DEF Others
    <3> QED BY <1>2, <3>1, <3>2
  <2>2. z.panic = w.panic /\ "EDiscardSndDataCnf" \notin z.cm.flags  BY <1>1, <1>2, <1>6, <1>9
  <2> QED BY <2>1, <2>2, TameSound
<1>12. Sorted(z)  BY <1>6, <1>9, <1>10, <1>11 DEF Sorted
<1> QED BY <1>12 DEF z, u, v

\* ReleaseData.
LEMMA ReleaseDataOrder ==
  ASSUME Ordered(world), Good(world)', NEW t \in Tx, ReleaseData(t) PROVE Ordered(world)'
<1>1. /\ world \in World /\ Sound(world) /\ Fit(cm, tx, sock) /\ Typed(cm, tx, sock)
      /\ world.cm = cm /\ world.tx = tx /\ world.sock = sock /\ world.panic = panic
      /\ sock.open <=> cm.state \in ConnectedStates
  BY OrderedIs
<1>2. tx[t].status = "active" /\ tx[t].unread  BY DEF ReleaseData
<1>3. ~Rest(cm, tx, sock) /\ ~Make(cm, tx, sock)
  <2>1. ~Off(tx[t]) /\ ~Waiting(tx[t])  BY <1>2 DEF Off, Waiting
  <2> QED BY <2>1 DEF Rest, Make
<1>4. PICK h \in Tx \cup {None} : Run(cm, tx, sock, h)  BY <1>1, <1>3 DEF Fit
<1>5. Loose(cm, tx, sock, h) /\ cm.state = "EConnected" /\ sock.open /\ Parsers(cm, tx, h)
      /\ (h # None => Held(tx[h]))
  BY <1>1, <1>4 DEF Run, Loose, ConnectedStates
<1>6. t = h \/ (t # h /\ t = cm.curResp /\ Current(tx[t], h))
  <2>1. SUFFICES ASSUME t # h PROVE t = cm.curResp /\ Current(tx[t], h)  OBVIOUS
  <2>2. t \in Awaits(cm) /\ t \notin ToSet(cm.pendResp)  BY <1>2, <1>5, <2>1 DEF Parsers, Off, Waiting
  <2>3. t = cm.curResp /\ t # None  BY <2>2, ConstantsAssumption DEF Awaits
  <2> QED BY <1>5, <2>3 DEF Parsers
<1> DEFINE u == Put(world, t, Read(tx[t]))
           a == IF tx[t].hold THEN [ResponseDataParsed(u) EXCEPT !.tx[t].hold = FALSE] ELSE u
           v == IF tx[t].msgDone THEN TransactionComplete(a, t) ELSE a
<1>7. Becomes(v)
  <2>1. u = [world EXCEPT !.tx[t].unread = FALSE]  BY <1>1 DEF Put, World, Read
  <2> HIDE DEF u
  <2>2. Becomes(LET w1 == [world EXCEPT !.tx[t].unread = FALSE]
                    w2 == IF tx[t].hold THEN [ResponseDataParsed(w1) EXCEPT !.tx[t].hold = FALSE] ELSE w1
                IN  IF tx[t].msgDone THEN TransactionComplete(w2, t) ELSE w2)
    BY Zenon DEF ReleaseData
  <2> QED BY <2>1, <2>2, Zenon
<1> DEFINE q == Read(tx[t])
<1>8. /\ q \in Transaction /\ ~q.unread /\ q.status = "active" /\ q.comp = tx[t].comp /\ q.parse = tx[t].parse
      /\ q.hdr = tx[t].hdr /\ q.len = tx[t].len /\ q.hold = tx[t].hold /\ q.msgDone = tx[t].msgDone
      /\ Tame(tx[t], q)
  <2>1. tx[t] \in Transaction  BY <1>1, Types
  <2> QED BY <1>2, <2>1, ReadIs
<1>9. u = Put(world, t, q)  OBVIOUS
<1> HIDE DEF u, q
<1>10. /\ u \in World /\ u.cm = cm /\ u.sock = sock /\ u.panic = panic /\ u.tx[t] = q
       /\ Others(tx, u.tx, t)
  BY <1>1, <1>8, <1>9, PutOthers
<1>11. Sound(u)
  <2>1. \A i \in Tx : Tame(world.tx[i], u.tx[i])  BY <1>1, <1>8, <1>10 DEF Tame, Others
  <2>2. "EDiscardSndDataCnf" \notin u.cm.flags  BY <1>1, <1>10 DEF Sound
  <2> QED BY <1>1, <1>10, <2>1, <2>2, TameSound
<1>12. Loose(cm, u.tx, sock, h)
  <2>1. Typed(cm, u.tx, sock)  BY <1>1, <1>10 DEF Typed, World
  <2>2. t = cm.curResp /\ Current(tx[t], h) => Current(u.tx[t], h)  BY <1>8, <1>10 DEF Current, Silent
  <2>3. t = h \/ (t = cm.curResp /\ u.tx[t].hdr = tx[t].hdr /\ u.tx[t].parse = tx[t].parse
                  /\ u.tx[t].len = tx[t].len /\ Current(u.tx[t], h))
    BY <1>6, <1>8, <1>10, <2>2
  <2> QED BY <1>1, <1>5, <1>8, <1>10, <2>1, <2>3, LooseKept
<1>13. CASE t = h
  <2>1. tx[t].hold /\ tx[t].msgDone /\ tx[t].parse = "wait"
    <3>1. h # None  BY <1>13, ConstantsAssumption
    <3> QED BY <1>5, <1>13, <3>1 DEF Held
  <2>2. v = TransactionComplete([ResponseDataParsed(u) EXCEPT !.tx[t].hold = FALSE], t)  BY <2>1
  <2>3. Loose(u.cm, u.tx, u.sock, t) /\ u.sock.open /\ u.tx[t].status = "active" /\ u.tx[t].parse = "wait"
        /\ ~u.tx[t].unread
    BY <1>5, <1>8, <1>10, <1>12, <1>13, <2>1
  <2>4. Sorted(TransactionComplete([ResponseDataParsed(u) EXCEPT !.tx[t].hold = FALSE], t))
    BY <1>10, <1>11, <2>3, LastRead
  <2>5. Sorted(v)  BY <2>2, <2>4
  <2> HIDE DEF v
  <2> QED BY <1>7, <2>5, BecomesOrdered
<1>14. CASE t # h
  <2>1. ~tx[t].hold /\ ~tx[t].msgDone  BY <1>6, <1>14 DEF Current
  <2>2. v = u  BY <2>1
  <2>3. Held(tx[h]) /\ h \in Tx => Held(u.tx[h])  BY <1>10, <1>14 DEF Others
  <2>4. Run(u.cm, u.tx, u.sock, h)  BY <1>5, <1>10, <1>12, <2>3 DEF Run
  <2>5. Sorted(u)  BY <1>11, <2>4, RunSorted
  <2> HIDE DEF v
  <2> QED BY <1>7, <2>2, <2>5, BecomesOrdered
<1> QED BY <1>13, <1>14

-----------------------------------------------------------------------------
(* A transaction joins those that use the connection                       *)

\* The places and the queues with one more transaction, and its new record.
Joins(c, x, d, y, t) ==
  /\ x[t].status # "active" /\ ~c.nonPersistent /\ t \notin OwnConnection
  /\ c.curReq # None => c.curResp # None
  /\ d.state = c.state /\ d.flags = c.flags /\ d.excess = c.excess /\ ~d.nonPersistent
  /\ d.curReq = (IF c.curReq = None THEN t ELSE c.curReq)
  /\ d.curResp = (IF c.curResp = None THEN t ELSE c.curResp)
  /\ d.pendReq = (IF c.curReq = None THEN c.pendReq ELSE Append(c.pendReq, t))
  /\ d.pendResp = (IF c.curResp = None THEN c.pendResp ELSE Append(c.pendResp, t))
  /\ Others(x, y, t) /\ Waiting(y[t]) /\ y[t].comp = (IF c.curReq = None THEN "start" ELSE "idle")

\* Who joins is new to the connection.
LEMMA JoinerIsNew ==
  ASSUME NEW c, NEW x, NEW s, Typed(c, x, s), NEW h \in Tx \cup {None}, Run(c, x, s, h),
         NEW t \in Tx, x[t].status # "active"
  PROVE  /\ t \notin Awaits(c) /\ t # h /\ t # c.curReq /\ t # c.curResp /\ t # None
         /\ t \notin ToSet(c.pendReq) /\ t \notin ToSet(c.pendResp) /\ t \notin ToSet(s.wire)
         /\ (\A p \in ToSet(s.buf) \cup ToSet(s.net) : p.t # t /\ p.t \in Tx)
         /\ Silent(x[t]) /\ ToSet(c.pendReq) \subseteq Tx /\ ToSet(c.pendResp) \subseteq Tx
<1>1. /\ Queues(c, h) /\ Mode(c, h) /\ Parsers(c, x, h) /\ Composers(c, x, s)
      /\ Answers(c, x, s) /\ Pieces(c, x, s) /\ (h # None => Held(x[h]))
  BY DEF Run, Loose
<1>2. t # None /\ None \notin Tx  BY ConstantsAssumption
<1>3. t \notin Awaits(c)
  <2>1. \A u \in ToSet(c.pendResp) : x[u].status = "active"  BY <1>1 DEF Parsers, Waiting
  <2>2. c.curResp # None => x[c.curResp].status = "active"  BY <1>1 DEF Parsers, Current
  <2> QED BY <2>1, <2>2 DEF Awaits
<1>4. t # h  BY <1>1, <1>2 DEF Held
<1>5. t # c.curResp /\ t \notin ToSet(c.pendResp)  BY <1>2, <1>3 DEF Awaits
<1>6. t # c.curReq
  <2>1. CASE First(c)  BY <1>1, <1>2, <1>4, <1>5, <2>1 DEF Mode
  <2>2. CASE ~First(c)  BY <1>1, <1>2, <1>3, <2>2 DEF Mode
  <2> QED BY <2>1, <2>2
<1>7. t \notin ToSet(c.pendReq)  BY <1>1, <1>5 DEF Queues
<1>8. ToSet(c.pendReq) \subseteq Tx /\ ToSet(c.pendResp) \subseteq Tx
  <2>1. PICK a \in Seq(Tx), b \in Seq(Tx) : a = c.pendReq /\ b = c.pendResp  BY Types
  <2>2. ToSet(a) \subseteq Tx /\ ToSet(b) \subseteq Tx  BY SomeIn
  <2> QED BY <2>1, <2>2
<1>9. /\ t \notin ToSet(s.wire)
      /\ \A p \in ToSet(s.buf) \cup ToSet(s.net) : p.t # t /\ p.t \in Tx
  <2> DEFINE R == ToSet(Headless(c, x) \o c.pendResp)
  <2>1. R \subseteq Awaits(c)  BY <1>1, AwaitedOnce
  <2>2. /\ \A p \in ToSet(s.buf) \cup ToSet(s.net) :
              /\ p \in Piece /\ p.t \in Awaits(c) /\ p.t \notin ToSet(c.pendReq) \cup ToSet(s.wire)
              /\ p.t \in R \/ (Midway(c, x) /\ p.t = c.curResp)
        /\ ToSet(s.wire) \subseteq R /\ ToSet(c.pendReq) \subseteq R
        /\ ToSet(s.wire) \cap ToSet(c.pendReq) = {}
        /\ ToSet(Starting(c, x)) \subseteq R
    BY <1>1, Owners
  <2> HIDE DEF R
  <2> QED BY <1>3, <2>1, <2>2 DEF Piece
<1>10. Silent(x[t])  BY <1>1, <1>6 DEF Composers
<1> QED BY <1>2, <1>3, <1>4, <1>5, <1>6, <1>7, <1>8, <1>9, <1>10

\* The answers with it.
LEMMA JoinAnswers ==
  ASSUME NEW c, NEW x, NEW s, Typed(c, x, s), NEW h \in Tx \cup {None}, Run(c, x, s, h),
         NEW t \in Tx, NEW d, NEW y, Joins(c, x, d, y, t)
  PROVE  Answers(d, y, s) /\ Pieces(d, y, s)
<1>1. /\ Queues(c, h) /\ Mode(c, h) /\ Answers(c, x, s) /\ Pieces(c, x, s)
  BY DEF Run, Loose
<1>2. /\ t # c.curReq /\ t # c.curResp /\ t # None
      /\ (\A p \in ToSet(s.buf) \cup ToSet(s.net) : p.t # t /\ p.t \in Tx)
  BY JoinerIsNew DEF Joins
<1>3. /\ HeadsIn(s.buf \o s.net) \in Seq(Tx) /\ Starting(c, x) \in Seq(Tx) /\ Headless(c, x) \in Seq(Tx)
      /\ s.wire \in Seq(Tx) /\ c.pendReq \in Seq(Tx) /\ c.pendResp \in Seq(Tx)
      /\ c.curReq \in Tx \cup {None} /\ c.curResp \in Tx \cup {None}
  BY AnswersAre, Types
<1> DEFINE a == HeadsIn(s.buf \o s.net)
           w == s.wire
<1>4. Line(a, w, Starting(c, x), c.pendReq) = Cat(Headless(c, x), c.pendResp)
  BY <1>1, AnswersLine
<1>5. a \in Seq(Tx) /\ w \in Seq(Tx)  BY <1>3
<1>6. /\ ~c.nonPersistent /\ (c.curReq # None => c.curResp # None) /\ ~d.nonPersistent
      /\ d.curReq = (IF c.curReq = None THEN t ELSE c.curReq)
      /\ d.curResp = (IF c.curResp = None THEN t ELSE c.curResp)
      /\ d.pendReq = (IF c.curReq = None THEN c.pendReq ELSE Append(c.pendReq, t))
      /\ d.pendResp = (IF c.curResp = None THEN c.pendResp ELSE Append(c.pendResp, t))
      /\ (\A u \in Tx : u # t => y[u] = x[u])
      /\ y[t].comp = (IF c.curReq = None THEN "start" ELSE "idle")
      /\ ~y[t].hdr
  BY DEF Joins, Others, Waiting
<1> HIDE DEF a
<1>7. c.curReq = None => ~First(c) /\ c.pendReq = None0 /\ Starting(c, x) = None0
  BY <1>1 DEF Mode, None0, Starting
<1>8. c.curReq = None => Starting(d, y) = One(t)  BY <1>2, <1>6 DEF Starting, One
<1>9. c.curReq # None => Starting(d, y) = Starting(c, x)  BY <1>2, <1>3, <1>6 DEF Starting
<1>10. c.curResp = None => Headless(d, y) = One(t) /\ Headless(c, x) = None0
  BY <1>2, <1>6 DEF Headless, One, None0
<1>11. c.curResp # None => Headless(d, y) = Headless(c, x)  BY <1>2, <1>3, <1>6 DEF Headless
<1>12. Line(a, w, Starting(d, y), d.pendReq) = Cat(Headless(d, y), d.pendResp)
  <2>1. CASE c.curReq = None /\ c.curResp = None
    <3>1. c.pendResp = None0  BY <1>1, <1>7, <2>1 DEF Mode, None0
    <3>2. None0 \in Seq(Tx) /\ One(t) \in Seq(Tx) /\ Cat(None0, None0) = None0  BY CatNone, OneType
    <3>3. Line(a, w, None0, None0) = None0  BY <1>4, <1>7, <1>10, <2>1, <3>1, <3>2
    <3>4. a = None0 /\ w = None0  BY <1>5, <3>2, <3>3, LineEmpty
    <3>5. Line(None0, None0, One(t), None0) = Cat(One(t), None0)
      <4>1. Line(None0, None0, One(t), None0) = Cat(None0, Cat(None0, Cat(One(t), None0)))
        BY <3>2, Regroup
      <4> QED BY <3>2, <4>1, CatNone
    <3> QED BY <1>6, <1>7, <1>8, <1>10, <2>1, <3>1, <3>4, <3>5
  <2>2. CASE c.curReq = None /\ c.curResp # None
    <3>1. Line(a, w, None0, None0) = Cat(Headless(c, x), c.pendResp)  BY <1>4, <1>7, <2>2
    <3>2. Line(a, w, One(t), None0) = Cat(Headless(c, x), Append(c.pendResp, t))
      BY <1>3, <1>5, <3>1, LineStarted
    <3> QED BY <1>6, <1>7, <1>8, <1>11, <2>2, <3>2
  <2>3. CASE c.curReq # None
    <3>1. Line(a, w, Starting(c, x), Append(c.pendReq, t)) = Cat(Headless(c, x), Append(c.pendResp, t))
      <4> DEFINE b == Starting(c, x)
                 g == Headless(c, x)
                 q == c.pendReq
                 r == c.pendResp
      <4>1. /\ b \in Seq(Tx) /\ g \in Seq(Tx) /\ q \in Seq(Tx) /\ r \in Seq(Tx)
            /\ a \in Seq(Tx) /\ w \in Seq(Tx) /\ Line(a, w, b, q) = Cat(g, r)
        BY <1>3, <1>4, <1>5
      <4> HIDE DEF b, g, q, r, w
      <4>2. Line(a, w, b, Append(q, t)) = Cat(g, Append(r, t))  BY <4>1, LineExtended
      <4> QED BY <4>2 DEF b, g, q, r
    <3> QED BY <1>6, <1>9, <1>11, <2>3, <3>1
  <2> QED BY <2>1, <2>2, <2>3
<1>13. Answers(d, y, s)  BY <1>12, AnswersLine DEF a
<1>14. Midway(d, y) = Midway(c, x)  BY <1>2, <1>3, <1>6 DEF Midway
<1>15. Midway(c, x) => c.curResp # None /\ d.curResp = c.curResp /\ y[c.curResp].len = x[c.curResp].len
  BY <1>2, <1>3, <1>6 DEF Midway
<1>16. Parts(s.buf \o s.net, Midway(d, y), d.curResp)
  <2>1. Parts(s.buf \o s.net, Midway(c, x), c.curResp)  BY <1>1 DEF Pieces
  <2>2. CASE Midway(c, x)  BY <1>14, <1>15, <2>1, <2>2
  <2>3. CASE ~Midway(c, x)  BY <1>14, <2>1, <2>3 DEF Parts
  <2> QED BY <2>2, <2>3
<1>17. Pieces(d, y, s)
  <2>1. \A p \in ToSet(s.buf) \cup ToSet(s.net) : y[p.t] = x[p.t]  BY <1>2, <1>6
  <2>2. /\ (Midway(c, x) => x[c.curResp].len = "sized")
        /\ (\A p \in ToSet(s.buf) \cup ToSet(s.net) :
              Given(p.t, x[p.t]) /\ (p.close => c.nonPersistent) /\ p.len # "unknown")
        /\ (\A p \in ToSet(s.buf) : Silent(x[p.t]))
    BY <1>1 DEF Pieces
  <2>3. Midway(d, y) => y[d.curResp].len = "sized"  BY <1>14, <1>15, <2>2
  <2> QED BY <1>6, <1>16, <2>1, <2>2, <2>3 DEF Pieces
<1> QED BY <1>13, <1>17

\* A transaction that joins a connection in use, as the last to be answered, keeps it in order.
LEMMA JoinRun ==
  ASSUME NEW c, NEW x, NEW s, Typed(c, x, s), NEW h \in Tx \cup {None}, Run(c, x, s, h),
         NEW t \in Tx, NEW d, NEW y, Joins(c, x, d, y, t)
  PROVE  Run(d, y, s, h)
<1>1. /\ c.state = "EConnected" /\ Queues(c, h) /\ Mode(c, h) /\ Parsers(c, x, h) /\ Composers(c, x, s)
      /\ Wire(c, x, s) /\ Token(c, x, s, h) /\ (h # None => Held(x[h]))
  BY DEF Run, Loose
<1>2. /\ t \notin Awaits(c) /\ t # h /\ t # c.curReq /\ t # c.curResp /\ t # None
      /\ t \notin ToSet(c.pendReq) /\ t \notin ToSet(c.pendResp) /\ t \notin ToSet(s.wire)
      /\ Silent(x[t]) /\ ToSet(c.pendReq) \subseteq Tx /\ ToSet(c.pendResp) \subseteq Tx
  BY JoinerIsNew DEF Joins
<1>3. /\ ~c.nonPersistent /\ t \notin OwnConnection
      /\ (c.curReq # None => c.curResp # None)
      /\ d.state = c.state /\ d.flags = c.flags /\ d.excess = c.excess /\ ~d.nonPersistent
      /\ d.curReq = (IF c.curReq = None THEN t ELSE c.curReq)
      /\ d.curResp = (IF c.curResp = None THEN t ELSE c.curResp)
      /\ d.pendReq = (IF c.curReq = None THEN c.pendReq ELSE Append(c.pendReq, t))
      /\ d.pendResp = (IF c.curResp = None THEN c.pendResp ELSE Append(c.pendResp, t))
      /\ (\A u \in Tx : u # t => y[u] = x[u])
      /\ Waiting(y[t]) /\ y[t].comp = (IF c.curReq = None THEN "start" ELSE "idle")
  BY DEF Joins, Others
<1>4. c.pendReq \in Seq(Tx) /\ c.pendResp \in Seq(Tx) /\ None \notin Tx
      /\ c.curReq \in Tx \cup {None} /\ c.curResp \in Tx \cup {None}
  BY Types
<1>5. IsInjective(c.pendReq) /\ IsInjective(c.pendResp) /\ ToSet(c.pendReq) \subseteq ToSet(c.pendResp)
      /\ c.curResp \notin ToSet(c.pendResp) /\ h \notin Awaits(c) /\ (c.curResp = None => h # None)
      /\ \A u \in Awaits(c) : u \notin OwnConnection
  BY <1>1, <1>3 DEF Queues, Alone
<1>6. /\ ToSet(Append(c.pendReq, t)) = ToSet(c.pendReq) \cup {t} /\ IsInjective(Append(c.pendReq, t))
      /\ ToSet(Append(c.pendResp, t)) = ToSet(c.pendResp) \cup {t} /\ IsInjective(Append(c.pendResp, t))
  <2>1. PICK a \in Seq(Tx), b \in Seq(Tx) : a = c.pendReq /\ b = c.pendResp  BY <1>4
  <2>2. /\ ToSet(Append(a, t)) = ToSet(a) \cup {t} /\ IsInjective(Append(a, t))
        /\ ToSet(Append(b, t)) = ToSet(b) \cup {t} /\ IsInjective(Append(b, t))
    BY <1>2, <1>5, <2>1, Appended
  <2> QED BY <2>1, <2>2
<1>7. Awaits(d) = Awaits(c) \cup {t}
  <2>1. CASE c.curResp = None  BY <1>2, <1>3, <2>1 DEF Awaits
  <2>2. CASE c.curResp # None  BY <1>2, <1>3, <1>6, <2>2 DEF Awaits
  <2> QED BY <2>1, <2>2
<1>8. c.curReq = None => ~First(c) /\ c.pendReq = <<>> /\ ~PendingWrite(c)  BY <1>1 DEF Mode
<1>9. c.curResp = None => c.curReq = None /\ c.pendResp = <<>>
  <2>1. CASE First(c)  BY <1>1, <1>3, <2>1 DEF Mode
  <2>2. CASE ~First(c)  BY <1>1, <2>2 DEF Mode
  <2> QED BY <2>1, <2>2
<1>10. First(d) = First(c) /\ PendingWrite(d) = PendingWrite(c)  BY <1>3 DEF First, PendingWrite
<1>11. ToSet(<<>>) = {} /\ IsInjective(<<>>)  BY NoneIn
<1>12. Alone(d)
  <2>1. \A u \in Awaits(d) : u \notin OwnConnection  BY <1>3, <1>5, <1>7
  <2> QED BY <1>3, <2>1 DEF Alone
<1>13. /\ ToSet(d.pendReq) = (IF c.curReq = None THEN {} ELSE ToSet(c.pendReq) \cup {t})
       /\ ToSet(d.pendResp) = (IF c.curResp = None THEN {} ELSE ToSet(c.pendResp) \cup {t})
       /\ IsInjective(d.pendReq) /\ IsInjective(d.pendResp)
  BY <1>3, <1>5, <1>6, <1>8, <1>9, <1>11
<1>14. Queues(d, h)
  <2>1. ToSet(d.pendReq) \subseteq ToSet(d.pendResp)  BY <1>3, <1>5, <1>13
  <2>2. d.curResp \notin ToSet(d.pendResp)  BY <1>2, <1>3, <1>5, <1>13
  <2>3. h \notin Awaits(d) /\ d.curResp # None  BY <1>2, <1>3, <1>5, <1>7
  <2> QED BY <1>12, <1>13, <2>1, <2>2, <2>3 DEF Queues
<1>15. Mode(d, h)
  <2>1. CASE First(c)
    <3>1. /\ c.curReq # None /\ c.pendReq = c.pendResp /\ ~PendingWrite(c)
          /\ c.curResp # None /\ h = None /\ c.curResp = c.curReq
      BY <1>1, <1>8, <1>9, <2>1 DEF Mode
    <3> QED BY <1>3, <1>10, <2>1, <3>1 DEF Mode
  <2>2. CASE ~First(c)
    <3>1. d.curReq \in Awaits(d) \ ToSet(d.pendReq)
      <4>1. CASE c.curReq = None  BY <1>3, <1>7, <1>13, <4>1
      <4>2. CASE c.curReq # None
        <5>1. c.curReq \in Awaits(c) \ ToSet(c.pendReq)  BY <1>1, <2>2, <4>2 DEF Mode
        <5> QED BY <1>2, <1>3, <1>7, <1>13, <4>2, <5>1
      <4> QED BY <4>1, <4>2
    <3>2. d.curReq # None /\ d.curResp # None  BY <1>2, <1>3
    <3>3. PendingWrite(d) => d.curReq = d.curResp /\ d.pendReq = d.pendResp /\ h = None
      <4>1. PendingWrite(c) => c.curReq # None /\ c.curReq = c.curResp /\ c.pendReq = c.pendResp /\ h = None
        BY <1>1, <2>2 DEF Mode
      <4> QED BY <1>3, <1>10, <4>1
    <3> QED BY <1>10, <2>2, <3>1, <3>2, <3>3 DEF Mode
  <2> QED BY <2>1, <2>2
<1>16. Parsers(d, y, h)
  <2>1. \A u \in ToSet(d.pendResp) : Waiting(y[u])
    <3>1. \A u \in ToSet(c.pendResp) : u # t /\ u \in Tx /\ Waiting(x[u])  BY <1>1, <1>2 DEF Parsers
    <3> QED BY <1>3, <1>13, <3>1
  <2>2. Current(y[d.curResp], h)
    <3>1. CASE c.curResp = None  BY <1>3, <3>1 DEF Waiting, Current
    <3>2. CASE c.curResp # None
      <4>1. Current(x[c.curResp], h) /\ y[c.curResp] = x[c.curResp]  BY <1>1, <1>2, <1>3, <1>4, <3>2 DEF Parsers
      <4> QED BY <1>3, <3>2, <4>1
    <3> QED BY <3>1, <3>2
  <2>3. h # None => Silent(y[h])  BY <1>1, <1>2, <1>3 DEF Parsers
  <2>4. \A u \in Tx \ Awaits(d) : u # h => Off(y[u])  BY <1>1, <1>3, <1>7 DEF Parsers
  <2> QED BY <2>1, <2>2, <2>3, <2>4 DEF Parsers
<1>17. Composers(d, y, s)
  <2>1. \A u \in Tx : u # d.curReq => Silent(y[u])
    <3>1. \A u \in Tx : u # c.curReq => Silent(x[u])  BY <1>1 DEF Composers
    <3>2. CASE c.curReq = None  BY <1>3, <1>4, <3>1, <3>2
    <3>3. CASE c.curReq # None
      <4>1. Silent(y[t])  BY <1>3, <3>3 DEF Silent
      <4> QED BY <1>3, <3>1, <3>3, <4>1
    <3> QED BY <3>2, <3>3
  <2>2. \A u \in ToSet(d.pendReq) : y[u].comp = "idle"
    <3>1. \A u \in ToSet(c.pendReq) : u # t /\ u \in Tx /\ x[u].comp = "idle"  BY <1>1, <1>2 DEF Composers
    <3> QED BY <1>3, <1>13, <3>1
  <2>3. ~First(d) => y[d.curReq].comp \in Working
    <3>1. CASE c.curReq = None  BY <1>3, <3>1 DEF Working
    <3>2. CASE c.curReq # None
      <4>1. y[c.curReq] = x[c.curReq] /\ d.curReq = c.curReq  BY <1>2, <1>3, <1>4, <3>2
      <4> QED BY <1>1, <1>10, <3>2, <4>1 DEF Composers
    <3> QED BY <3>1, <3>2
  <2>4. PendingWrite(d) => y[d.curReq].comp \in {"start", "headers"} /\ ~y[d.curReq].hdr
    <3> SUFFICES ASSUME PendingWrite(c) PROVE y[d.curReq].comp \in {"start", "headers"} /\ ~y[d.curReq].hdr
      BY <1>10
    <3>1. y[c.curReq] = x[c.curReq] /\ d.curReq = c.curReq  BY <1>2, <1>3, <1>4, <1>8
    <3> QED BY <1>1, <3>1 DEF Composers
  <2>5. /\ \A u \in Tx : x[u].comp \in OfBody => u \in HasBody
        /\ \A u \in Tx : x[u].comp \in Writing <=> s.writer = u
    BY <1>1 DEF Composers
  <2>6. y[t].comp \notin OfBody /\ y[t].comp \notin Writing /\ x[t].comp \notin Writing
    <3>1. y[t].comp \in {"start", "idle"}  BY <1>3
    <3>2. x[t].comp \in {"sent", "idle"}  BY <1>2 DEF Silent
    <3> QED BY <3>1, <3>2 DEF OfBody, Writing
  <2>7. s.writer # t  BY <2>5, <2>6
  <2>8. \A u \in Tx : y[u].comp \in OfBody => u \in HasBody  BY <1>3, <2>5, <2>6
  <2>9. \A u \in Tx : y[u].comp \in Writing <=> s.writer = u  BY <1>3, <2>5, <2>6, <2>7
  <2> QED BY <2>1, <2>2, <2>3, <2>4, <2>8, <2>9 DEF Composers
<1>18. Wire(d, y, s)
  <2>1. /\ IsInjective(s.wire) /\ s.sent \subseteq ToSet(s.wire)
        /\ (\A u \in ToSet(s.wire) : x[u].comp # "start" /\ (u \in s.sent <=> Given(u, x[u])))
        /\ (\A u \in Tx : Given(u, x[u]) \/ x[u].comp = "start" \/ u \in ToSet(s.wire))
        /\ ~s.hup
    BY <1>1, <1>3 DEF Wire
  <2>2. ToSet(s.wire) \subseteq Tx
    <3>1. PICK a \in Seq(Tx) : a = s.wire  BY Types
    <3>2. ToSet(a) \subseteq Tx  BY SomeIn
    <3> QED BY <3>1, <3>2
  <2>3. \A u \in ToSet(s.wire) : y[u] = x[u]  BY <1>2, <1>3, <2>2
  <2>4. Given(t, y[t]) \/ y[t].comp = "start"  BY <1>3 DEF Given
  <2>5. \A u \in Tx : Given(u, y[u]) \/ y[u].comp = "start" \/ u \in ToSet(s.wire)  BY <1>3, <2>1, <2>4
  <2> QED BY <2>1, <2>3, <2>5 DEF Wire
<1>19. Token(d, y, s, h)
  <2>1. CASE c.curResp = None
    <3>1. d.curResp = t /\ y[t].parse = "wait"  BY <1>3, <2>1 DEF Waiting
    <3> QED BY <1>1, <1>3, <2>1, <3>1 DEF Token
  <2>2. CASE c.curResp # None
    <3>1. d.curResp = c.curResp /\ y[c.curResp] = x[c.curResp]  BY <1>2, <1>3, <1>4, <2>2
    <3> QED BY <1>1, <1>3, <3>1 DEF Token
  <2> QED BY <2>1, <2>2
<1>20. Answers(d, y, s) /\ Pieces(d, y, s)  BY JoinAnswers
<1>21. h # None => Held(y[h])  BY <1>1, <1>2, <1>3
<1>22. d.state = "EConnected"  BY <1>1, <1>3
<1> QED BY <1>14, <1>15, <1>16, <1>17, <1>18, <1>19, <1>20, <1>21, <1>22 DEF Run, Loose

-----------------------------------------------------------------------------
(* The parts of a submission                                               *)

\* The transaction has a new composer and a new parser.
LEMMA AssignedIs ==
  ASSUME NEW w \in World, NEW t \in Tx, NEW new \in BOOLEAN
  PROVE  LET v == Assigned(w, t, new) IN
         /\ v \in World /\ v.cm = w.cm /\ v.sock = w.sock /\ v.panic = w.panic
         /\ Others(w.tx, v.tx, t)
         /\ Waiting(v.tx[t]) /\ v.tx[t].comp = "idle" /\ v.tx[t].len = "none"
         /\ v.tx[t].pipeline = w.tx[t].pipeline
<1> DEFINE r == [NewTransaction(t) EXCEPT
                   !.status = "active", !.pipeline = w.tx[t].pipeline,
                   !.retries = w.tx[t].retries + (IF new THEN 1 ELSE 0),
                   !.submissions = w.tx[t].submissions + 1]
           v == Assigned(w, t, new)
<1>1. v \in World  BY AssignedKeeps DEF Keeps
<1>2. v = Put(w, t, r)  BY DEF Assigned, Put
<1>3. Waiting(r) /\ r.comp = "idle" /\ r.len = "none" /\ r.pipeline = w.tx[t].pipeline
  BY DEF NewTransaction, Waiting
<1> HIDE DEF v, r
<1>4. /\ v.cm = w.cm /\ v.sock = w.sock /\ v.panic = w.panic /\ v.tx[t] = r
      /\ \A u \in Tx : u # t => v.tx[u] = w.tx[u]
  BY <1>2, PutIs
<1> QED BY <1>1, <1>3, <1>4 DEF v, Others

\* A transaction that may not be pipelined keeps the others away.
LEMMA DisabledIs ==
  ASSUME NEW w \in World, w.cm.state \in Resting, "ECannotPipeline" \notin w.cm.flags
  PROVE  LET v == DisablePipelining(w) IN
         /\ v \in World /\ v.tx = w.tx /\ v.sock = w.sock /\ v.panic = w.panic
         /\ v.cm.flags = w.cm.flags \cup {"ECannotPipeline"} /\ v.cm.state = w.cm.state
         /\ v.cm.curReq = w.cm.curReq /\ v.cm.curResp = w.cm.curResp /\ v.cm.pendReq = w.cm.pendReq
         /\ v.cm.pendResp = w.cm.pendResp /\ v.cm.excess = w.cm.excess
         /\ v.cm.nonPersistent = w.cm.nonPersistent
<1> DEFINE c == [w.cm EXCEPT !.flags = w.cm.flags \cup {"ECannotPipeline"}]
           v == DisablePipelining(w)
<1>1. v = Moves(w, c)  BY DEF DisablePipelining, Moves, World, Manager, Resting
<1>2. /\ c \in Manager /\ c.flags = w.cm.flags \cup {"ECannotPipeline"} /\ c.state = w.cm.state
      /\ c.curReq = w.cm.curReq /\ c.curResp = w.cm.curResp /\ c.pendReq = w.cm.pendReq
      /\ c.pendResp = w.cm.pendResp /\ c.excess = w.cm.excess
      /\ c.nonPersistent = w.cm.nonPersistent
  BY DEF World, Manager, Flags
<1> HIDE DEF v, c
<1>3. v \in World /\ v.cm = c /\ v.tx = w.tx /\ v.sock = w.sock /\ v.panic = w.panic
  BY <1>1, <1>2, MovesIs
<1> QED BY <1>2, <1>3 DEF v

\* The connection is closed before it is made again.
LEMMA ClosedIs ==
  ASSUME NEW w \in World, w.sock.open
  PROVE  LET v == CloseConnection(w) IN
         /\ v \in World /\ v.tx = w.tx /\ v.panic = w.panic /\ Still(v.sock) /\ ~v.sock.hup
         /\ v.cm.flags \subseteq w.cm.flags \ {"EPendingWriteInConnectedState"} /\ v.cm.state = "EIdle"
         /\ v.cm.curReq = w.cm.curReq /\ v.cm.curResp = w.cm.curResp /\ v.cm.pendReq = w.cm.pendReq
         /\ v.cm.pendResp = w.cm.pendResp /\ v.cm.excess = w.cm.excess
<1> DEFINE u == Unplug(w)
           c == [u.cm EXCEPT !.state = "EIdle",
                     !.flags = u.cm.flags \ {"ECannotPipeline", "EPendingWriteInConnectedState"}]
           v == CloseConnection(w)
<1>1. u \in World /\ u.cm = w.cm /\ u.tx = w.tx /\ u.panic = w.panic /\ Still(u.sock) /\ ~u.sock.hup
  BY UnplugIs
<1>2. v = SetIdleState(u)  BY DEF CloseConnection, Unplug
<1> HIDE DEF u, v
<1>3. v = Moves(u, c)  BY <1>1, <1>2 DEF SetIdleState, Moves, World, Manager
<1>4. /\ c \in Manager /\ c.state = "EIdle"
      /\ c.flags = u.cm.flags \ {"ECannotPipeline", "EPendingWriteInConnectedState"}
      /\ c.curReq = u.cm.curReq /\ c.curResp = u.cm.curResp /\ c.pendReq = u.cm.pendReq
      /\ c.pendResp = u.cm.pendResp /\ c.excess = u.cm.excess
  BY <1>1 DEF World, Manager, States
<1> HIDE DEF c
<1>5. v \in World /\ v.cm = c /\ v.tx = u.tx /\ v.sock = u.sock /\ v.panic = u.panic
  BY <1>1, <1>3, <1>4, MovesIs
<1> QED BY <1>1, <1>4, <1>5 DEF v

\* The request and the response take their places.
LEMMA EnqueueIs ==
  ASSUME NEW w \in World, NEW t \in Tx,
         w.cm.curReq # None \/ w.cm.curResp # None => "ECannotPipeline" \notin w.cm.flags
  PROVE  LET v == Enqueue(w, t)
             c == w.cm
         IN  /\ v \in World /\ v.tx = w.tx /\ v.sock = w.sock /\ v.panic = w.panic
             /\ v.cm.flags = c.flags /\ v.cm.state = c.state /\ v.cm.excess = c.excess
             /\ v.cm.nonPersistent = (t \in OwnConnection)
             /\ v.cm.curReq = (IF c.curReq = None THEN t ELSE c.curReq)
             /\ v.cm.pendReq = (IF c.curReq = None THEN c.pendReq ELSE Append(c.pendReq, t))
             /\ v.cm.curResp = (IF c.curResp = None THEN t ELSE c.curResp)
             /\ v.cm.pendResp = (IF c.curResp = None THEN c.pendResp ELSE Append(c.pendResp, t))
<1> DEFINE d == w.cm
           c == [d EXCEPT !.host = HostOf[t], !.secure = t \in Secure,
                          !.nonPersistent = t \in OwnConnection,
                          !.curReq   = IF d.curReq = None THEN t ELSE d.curReq,
                          !.pendReq  = IF d.curReq = None THEN @ ELSE Append(@, t),
                          !.curResp  = IF d.curResp = None THEN t ELSE d.curResp,
                          !.pendResp = IF d.curResp = None THEN @ ELSE Append(@, t)]
           v == Enqueue(w, t)
<1>1. v = [w EXCEPT !.cm = c]  BY DEF Enqueue, World
<1>2. v \in World  BY EnqueueKeeps DEF Keeps
<1> DEFINE req  == IF d.curReq = None THEN t ELSE d.curReq
           reqs == IF d.curReq = None THEN d.pendReq ELSE Append(d.pendReq, t)
           resp == IF d.curResp = None THEN t ELSE d.curResp
           resps == IF d.curResp = None THEN d.pendResp ELSE Append(d.pendResp, t)
           sec == t \in Secure
           own == t \in OwnConnection
           c1 == [d EXCEPT !.host = HostOf[t], !.secure = sec, !.nonPersistent = own,
                           !.curReq = req, !.pendReq = reqs, !.curResp = resp, !.pendResp = resps]
<1>3. c = c1  BY DEF World, Manager
<1> HIDE DEF req, resp, reqs, resps, sec, own, v, c
<1>4. /\ c1.flags = d.flags /\ c1.state = d.state /\ c1.excess = d.excess /\ c1.nonPersistent = own
      /\ c1.curReq = req /\ c1.pendReq = reqs /\ c1.curResp = resp /\ c1.pendResp = resps
  BY DEF World, Manager
<1> HIDE DEF c1
<1>5. v.cm = c1 /\ v.tx = w.tx /\ v.sock = w.sock /\ v.panic = w.panic  BY <1>1, <1>3 DEF World
<1> QED BY <1>2, <1>4, <1>5 DEF req, reqs, resp, resps, own, v

\* A connection is made, or the one that is there is upgraded or used again.
MakesConnection(w) ==
  [w EXCEPT !.cm.connector = TRUE, !.cm.state = "EConnecting",
            !.cm.flags = IF "ECannotPipeline" \in @ THEN @ ELSE @ \cup {"EFirstTransaction"}]
UsesAgain(w) ==
  [w EXCEPT !.cm.state = "EConnected", !.cm.flags = @ \cup {"EPendingWriteInConnectedState"}]

\* The connection that is there is of no use to t; t takes its place after it is closed.
Unusable(w, t) ==
  LET oldSecure == w.cm.state = "EIdleConnected" /\ w.cm.secure
  IN  \/ w.cm.state = "EClosing"
      \/ /\ w.cm.state = "EIdleConnected"
         /\ w.cm.host # HostOf[t] \/ (oldSecure /\ t \notin Secure)
Entered(w, t) == Enqueue(IF Unusable(w, t) THEN CloseConnection(w) ELSE w, t)

\* What SubmitL does in each state of the manager once the transaction has entered.
LEMMA SubmitIs ==
  ASSUME NEW w \in World, NEW t \in Tx, NEW v, v = Entered(w, t)
  PROVE  LET k == v.cm.state
             z == SubmitL(w, t)
         IN  /\ k = "EIdle" => z = MakesConnection(v)
             /\ k = "EIdleConnected" => z \in {UpgradeConnectionL(v), StartRequest(UsesAgain(v))}
             /\ k = "EConnected" /\ v.cm.curReq = t => z = StartRequest(v)
             /\ k = "EConnected" /\ v.cm.curReq # t => z = v
             /\ k \in Making => z = v
<1> DEFINE oldSecure == w.cm.state = "EIdleConnected" /\ w.cm.secure
           u == Entered(w, t)
           k == u.cm.state
           z == SubmitL(w, t)
<1>1. z = CASE k = "EIdle" -> MakesConnection(u)
            [] k = "EIdleConnected" ->
                 IF t \in Secure /\ ~oldSecure THEN UpgradeConnectionL(u) ELSE StartRequest(UsesAgain(u))
            [] k = "EConnected" /\ u.cm.curReq = t -> StartRequest(u)
            [] OTHER -> u
  BY Zenon DEF SubmitL, MakesConnection, UsesAgain, Entered, Unusable
<1>2. u = v  OBVIOUS
<1> HIDE DEF u, z, oldSecure
<1>3. z = CASE v.cm.state = "EIdle" -> MakesConnection(v)
            [] v.cm.state = "EIdleConnected" ->
                 IF t \in Secure /\ ~oldSecure THEN UpgradeConnectionL(v) ELSE StartRequest(UsesAgain(v))
            [] v.cm.state = "EConnected" /\ v.cm.curReq = t -> StartRequest(v)
            [] OTHER -> v
  BY <1>1, <1>2
<1>4. CASE v.cm.state = "EIdle"
  <2>1. z = MakesConnection(v)  BY <1>3, <1>4
  <2> QED BY <1>4, <2>1 DEF Making, z
<1>5. CASE v.cm.state = "EIdleConnected"
  <2>1. z \in {UpgradeConnectionL(v), StartRequest(UsesAgain(v))}  BY <1>3, <1>5
  <2> QED BY <1>5, <2>1 DEF Making, z
<1>6. CASE v.cm.state = "EConnected"
  <2>1. v.cm.curReq = t => z = StartRequest(v)  BY <1>3, <1>6
  <2>2. v.cm.curReq # t => z = v  BY <1>3, <1>6
  <2> QED BY <1>6, <2>1, <2>2 DEF Making, z
<1>7. CASE v.cm.state \in Making
  <2>1. z = v  BY <1>3, <1>7 DEF Making
  <2> QED BY <1>7, <2>1 DEF Making, z
<1>8. CASE v.cm.state \notin {"EIdle", "EIdleConnected", "EConnected"} \cup Making
  BY <1>8
<1> QED BY <1>4, <1>5, <1>6, <1>7, <1>8

\* MakesConnection changes the state and the flags, never the queues.
LEMMA MakesIs ==
  ASSUME NEW w \in World
  PROVE  LET v == MakesConnection(w) IN
         /\ v \in World /\ v.tx = w.tx /\ v.sock = w.sock /\ v.panic = w.panic
         /\ v.cm.flags \subseteq w.cm.flags \cup {"EFirstTransaction"} /\ v.cm.state = "EConnecting"
         /\ v.cm.curReq = w.cm.curReq /\ v.cm.curResp = w.cm.curResp /\ v.cm.pendReq = w.cm.pendReq
         /\ v.cm.pendResp = w.cm.pendResp /\ v.cm.excess = w.cm.excess
         /\ v.cm.nonPersistent = w.cm.nonPersistent
<1> DEFINE f == IF "ECannotPipeline" \in w.cm.flags THEN w.cm.flags
                ELSE w.cm.flags \cup {"EFirstTransaction"}
           c == [w.cm EXCEPT !.connector = TRUE, !.state = "EConnecting", !.flags = f]
           v == MakesConnection(w)
<1>1. v = Moves(w, c)  BY DEF MakesConnection, Moves, World, Manager
<1>2. f \in SUBSET Flags /\ f \subseteq w.cm.flags \cup {"EFirstTransaction"}  BY DEF World, Manager, Flags
<1> HIDE DEF v, f
<1>3. /\ c \in Manager /\ c.flags = f /\ c.state = "EConnecting"
      /\ c.curReq = w.cm.curReq /\ c.curResp = w.cm.curResp /\ c.pendReq = w.cm.pendReq
      /\ c.pendResp = w.cm.pendResp /\ c.excess = w.cm.excess /\ c.nonPersistent = w.cm.nonPersistent
  BY <1>2 DEF World, Manager, States
<1> HIDE DEF c
<1>4. v \in World /\ v.cm = c /\ v.tx = w.tx /\ v.sock = w.sock /\ v.panic = w.panic
  BY <1>1, <1>3, MovesIs
<1> QED BY <1>2, <1>3, <1>4 DEF v

\* UpgradeConnectionL changes the state, never the queues.
LEMMA UpgradeIs ==
  ASSUME NEW w \in World
  PROVE  LET v == UpgradeConnectionL(w) IN
         /\ v \in World /\ v.tx = w.tx /\ v.sock = w.sock /\ v.panic = w.panic
         /\ v.cm.flags = w.cm.flags /\ v.cm.state = "EUpgrading"
         /\ v.cm.curReq = w.cm.curReq /\ v.cm.curResp = w.cm.curResp /\ v.cm.pendReq = w.cm.pendReq
         /\ v.cm.pendResp = w.cm.pendResp /\ v.cm.excess = w.cm.excess
         /\ v.cm.nonPersistent = w.cm.nonPersistent
  BY DEF UpgradeConnectionL, World, Manager, States

\* An idle connection that is used again changes its state and its flags, never the queues.
LEMMA AgainIs ==
  ASSUME NEW w \in World
  PROVE  LET v == UsesAgain(w) IN
         /\ v \in World /\ v.tx = w.tx /\ v.sock = w.sock /\ v.panic = w.panic
         /\ v.cm.flags = w.cm.flags \cup {"EPendingWriteInConnectedState"} /\ v.cm.state = "EConnected"
         /\ v.cm.curReq = w.cm.curReq /\ v.cm.curResp = w.cm.curResp /\ v.cm.pendReq = w.cm.pendReq
         /\ v.cm.pendResp = w.cm.pendResp /\ v.cm.excess = w.cm.excess
         /\ v.cm.nonPersistent = w.cm.nonPersistent
<1> DEFINE f == w.cm.flags \cup {"EPendingWriteInConnectedState"}
           c == [w.cm EXCEPT !.state = "EConnected", !.flags = f]
           v == UsesAgain(w)
<1>1. v = Moves(w, c)  BY DEF UsesAgain, Moves, World, Manager
<1>2. f \in SUBSET Flags  BY DEF World, Manager, Flags
<1> HIDE DEF v, f
<1>3. /\ c \in Manager /\ c.flags = f /\ c.state = "EConnected"
      /\ c.curReq = w.cm.curReq /\ c.curResp = w.cm.curResp /\ c.pendReq = w.cm.pendReq
      /\ c.pendResp = w.cm.pendResp /\ c.excess = w.cm.excess /\ c.nonPersistent = w.cm.nonPersistent
  BY <1>2 DEF World, Manager, States
<1> HIDE DEF c
<1>4. v \in World /\ v.cm = c /\ v.tx = w.tx /\ v.sock = w.sock /\ v.panic = w.panic
  BY <1>1, <1>3, MovesIs
<1> QED BY <1>3, <1>4 DEF v, f

-----------------------------------------------------------------------------
(* A transaction is submitted                                              *)

\* t is the only one that the connection will have to do with.
Lone(w, t) ==
  /\ w \in World /\ Sound(w) /\ t \in Tx
  /\ Waiting(w.tx[t]) /\ w.tx[t].comp = "idle"
  /\ \A u \in Tx : u # t => Off(w.tx[u]) /\ Silent(w.tx[u])
  /\ Vacant(w.cm) /\ ~w.cm.excess /\ Still(w.sock) /\ ~PendingWrite(w.cm)
Only(w, t) ==
  /\ w \in World /\ Sound(w) /\ t \in Tx
  /\ Waiting(w.tx[t]) /\ w.tx[t].comp = "idle"
  /\ \A u \in Tx : u # t => Off(w.tx[u]) /\ Silent(w.tx[u])
  /\ w.cm.curReq = t /\ w.cm.curResp = t /\ w.cm.pendReq = <<>> /\ w.cm.pendResp = <<>>
  /\ ~w.cm.excess /\ (t \in OwnConnection => w.cm.nonPersistent) /\ Still(w.sock)

\* Only depends on the places, not on the state and the flags.
LEMMA OnlyKept ==
  ASSUME NEW w, NEW t, Only(w, t), NEW v \in World, v.tx = w.tx, v.sock = w.sock, v.panic = w.panic,
         v.cm.curReq = w.cm.curReq, v.cm.curResp = w.cm.curResp, v.cm.pendReq = w.cm.pendReq,
         v.cm.pendResp = w.cm.pendResp, v.cm.excess = w.cm.excess,
         v.cm.nonPersistent = w.cm.nonPersistent,
         v.cm.flags \subseteq w.cm.flags \cup {"EFirstTransaction", "EPendingWriteInConnectedState"}
  PROVE  Only(v, t)
<1>1. Sound(v)  BY DEF Only, Sound
<1> QED BY <1>1 DEF Only

\* A transaction that enters a manager at rest is the only one there.
LEMMA LoneEnters ==
  ASSUME NEW w, NEW t, Lone(w, t)
  PROVE  LET v == Enqueue(w, t) IN
         Only(v, t) /\ v.cm.flags = w.cm.flags /\ v.cm.state = w.cm.state /\ v.sock = w.sock
<1> DEFINE v == Enqueue(w, t)
           c == w.cm
<1>1. w \in World /\ t \in Tx /\ c.curReq = None /\ c.curResp = None /\ c.pendReq = <<>> /\ c.pendResp = <<>>
  BY DEF Lone, Vacant
<1>2. /\ v \in World /\ v.tx = w.tx /\ v.sock = w.sock /\ v.panic = w.panic
      /\ v.cm.flags = c.flags /\ v.cm.state = c.state /\ v.cm.excess = c.excess
      /\ v.cm.nonPersistent = (t \in OwnConnection)
      /\ v.cm.curReq = (IF c.curReq = None THEN t ELSE c.curReq)
      /\ v.cm.pendReq = (IF c.curReq = None THEN c.pendReq ELSE Append(c.pendReq, t))
      /\ v.cm.curResp = (IF c.curResp = None THEN t ELSE c.curResp)
      /\ v.cm.pendResp = (IF c.curResp = None THEN c.pendResp ELSE Append(c.pendResp, t))
  BY <1>1, EnqueueIs
<1> HIDE DEF v
<1>3. Sound(v)  BY <1>2 DEF Lone, Sound
<1>4. Only(v, t)  BY <1>1, <1>2, <1>3 DEF Lone, Only
<1> QED BY <1>2, <1>4 DEF v

\* When one transaction is all there is, its response alone is awaited.
LEMMA OnlyAwaits ==
  ASSUME NEW w, NEW t, Only(w, t) PROVE Awaits(w.cm) = {t} /\ Alone(w.cm) /\ t # None /\ ToSet(w.cm.pendResp) = {}
<1>1. t # None /\ w.cm.curResp = t /\ w.cm.pendResp = <<>> /\ w.cm.pendReq = <<>>  BY ConstantsAssumption DEF Only
<1>2. ToSet(w.cm.pendResp) = {}  BY <1>1, NoneIn
<1>3. Awaits(w.cm) = {t}  BY <1>1, <1>2 DEF Awaits
<1> QED BY <1>1, <1>2, <1>3 DEF Only, Alone

\* One transaction, for which the connection is made, is in order.
LEMMA OnlyMakes ==
  ASSUME NEW w, NEW t, Only(w, t), w.cm.state \in Making, ~w.sock.hup, ~PendingWrite(w.cm)
  PROVE  Sorted(w)
<1>1. Awaits(w.cm) = {t} /\ Alone(w.cm) /\ t # None /\ ToSet(w.cm.pendResp) = {}  BY OnlyAwaits
<1>2. IsInjective(w.cm.pendResp)  BY NoneIn DEF Only
<1>3. Make(w.cm, w.tx, w.sock)  BY <1>1, <1>2 DEF Only, Make
<1> QED BY <1>3, MakeSorted DEF Only

\* One transaction, started on a connection that is there, is in order.
LEMMA OnlyStarts ==
  ASSUME NEW w, NEW t, Only(w, t), w.cm.state = "EConnected", ~w.sock.hup, ~First(w.cm)
  PROVE  Sorted(StartRequest(w))
<1>1. Awaits(w.cm) = {t} /\ Alone(w.cm) /\ t # None /\ ToSet(w.cm.pendResp) = {}  BY OnlyAwaits
<1>2. IsInjective(w.cm.pendResp)  BY NoneIn DEF Only
<1>3. Ready(w)  BY <1>1, <1>2 DEF Only, Ready
<1> DEFINE u == StartRequest(w)
           e == w.sock
<1>4. e \in Socket /\ Still(e) /\ ~e.hup /\ w \in World /\ Sound(w)  BY DEF Only, World
<1> HIDE DEF e
<1>5. Sound(u) /\ Run(u.cm, u.tx, e, None) /\ u.sock = w.sock  BY <1>3, <1>4, ReadyStarts
<1> HIDE DEF u
<1>6. Run(u.cm, u.tx, u.sock, None)  BY <1>5 DEF e
<1>7. None \in Tx \cup {None}  OBVIOUS
<1>8. Sorted(u)  BY <1>5, <1>6, <1>7, RunSorted
<1> QED BY <1>8 DEF u

\* The manager was not in use.
LEMMA LoneSubmits ==
  ASSUME NEW w, NEW t, Lone(w, t), w.cm.state \in Resting, w.sock.open <=> w.cm.state \in ConnectedStates,
         w.cm.state # "EIdle" => ~First(w.cm), w.sock.hup => w.cm.state = "EClosing"
  PROVE  Sorted(SubmitL(w, t))
<1> DEFINE u == IF Unusable(w, t) THEN CloseConnection(w) ELSE w
           v == Enqueue(u, t)
<1>0. w \in World /\ t \in Tx  BY DEF Lone
<1>1. Lone(u, t) /\ ~u.sock.hup /\ u.cm.state \in {"EIdle", "EIdleConnected"}
      /\ (u.cm.state = "EIdleConnected" => ~First(u.cm))
  <2>1. CASE Unusable(w, t)
    <3>1. w.sock.open  BY <2>1 DEF Unusable, ConnectedStates
    <3> DEFINE z == CloseConnection(w)
    <3>2. /\ z \in World /\ z.tx = w.tx /\ z.panic = w.panic /\ Still(z.sock) /\ ~z.sock.hup
          /\ z.cm.flags \subseteq w.cm.flags \ {"EPendingWriteInConnectedState"} /\ z.cm.state = "EIdle"
          /\ z.cm.curReq = w.cm.curReq /\ z.cm.curResp = w.cm.curResp /\ z.cm.pendReq = w.cm.pendReq
          /\ z.cm.pendResp = w.cm.pendResp /\ z.cm.excess = w.cm.excess
      BY <1>0, <3>1, ClosedIs
    <3> HIDE DEF z
    <3>3. Sound(z)  BY <3>2 DEF Lone, Sound
    <3>4. Lone(z, t)  BY <3>2, <3>3 DEF Lone, Vacant, PendingWrite
    <3>5. u = z  BY <2>1 DEF z
    <3> QED BY <3>2, <3>4, <3>5
  <2>2. CASE ~Unusable(w, t)
    <3>1. w.cm.state # "EClosing"  BY <2>2 DEF Unusable
    <3> QED BY <2>2, <3>1 DEF Resting
  <2> QED BY <2>1, <2>2
<1> HIDE DEF u
<1>2. Only(v, t) /\ v.cm.flags = u.cm.flags /\ v.cm.state = u.cm.state /\ v.sock = u.sock
  BY <1>1, LoneEnters
<1>3. v = Entered(w, t)  BY DEF Entered, u
<1> HIDE DEF v
<1>4. v \in World /\ ~PendingWrite(v.cm)  BY <1>1, <1>2 DEF Only, Lone, PendingWrite
<1> DEFINE z == SubmitL(w, t)
<1>5. /\ v.cm.state = "EIdle" => z = MakesConnection(v)
      /\ v.cm.state = "EIdleConnected" => z \in {UpgradeConnectionL(v), StartRequest(UsesAgain(v))}
  BY <1>0, <1>3, SubmitIs
<1> HIDE DEF z
<1>6. CASE v.cm.state = "EIdle"
  <2> DEFINE y == MakesConnection(v)
  <2>1. /\ y \in World /\ y.tx = v.tx /\ y.sock = v.sock /\ y.panic = v.panic
        /\ y.cm.flags \subseteq v.cm.flags \cup {"EFirstTransaction"} /\ y.cm.state = "EConnecting"
        /\ y.cm.curReq = v.cm.curReq /\ y.cm.curResp = v.cm.curResp /\ y.cm.pendReq = v.cm.pendReq
        /\ y.cm.pendResp = v.cm.pendResp /\ y.cm.excess = v.cm.excess
        /\ y.cm.nonPersistent = v.cm.nonPersistent
    BY <1>4, MakesIs
  <2>2. z = y  BY <1>5, <1>6
  <2> HIDE DEF y
  <2>3. Only(y, t)  BY <1>2, <2>1, OnlyKept
  <2>4. ~y.sock.hup /\ ~PendingWrite(y.cm) /\ y.cm.state \in Making
    BY <1>1, <1>2, <1>4, <2>1 DEF PendingWrite, Making
  <2> QED BY <2>2, <2>3, <2>4, OnlyMakes DEF z
<1>7. CASE v.cm.state = "EIdleConnected"
  <2>1. CASE z = UpgradeConnectionL(v)
    <3> DEFINE y == UpgradeConnectionL(v)
    <3>1. /\ y \in World /\ y.tx = v.tx /\ y.sock = v.sock /\ y.panic = v.panic
          /\ y.cm.flags = v.cm.flags /\ y.cm.state = "EUpgrading"
          /\ y.cm.curReq = v.cm.curReq /\ y.cm.curResp = v.cm.curResp /\ y.cm.pendReq = v.cm.pendReq
          /\ y.cm.pendResp = v.cm.pendResp /\ y.cm.excess = v.cm.excess
          /\ y.cm.nonPersistent = v.cm.nonPersistent
      BY <1>4, UpgradeIs
    <3>2. z = y  BY <2>1
    <3> HIDE DEF y
    <3>3. Only(y, t)  BY <1>2, <3>1, OnlyKept
    <3>4. ~y.sock.hup /\ ~PendingWrite(y.cm) /\ y.cm.state \in Making
      BY <1>1, <1>2, <1>4, <3>1 DEF PendingWrite, Making
    <3> QED BY <3>2, <3>3, <3>4, OnlyMakes DEF z
  <2>2. CASE z = StartRequest(UsesAgain(v))
    <3> DEFINE y == UsesAgain(v)
    <3>1. /\ y \in World /\ y.tx = v.tx /\ y.sock = v.sock /\ y.panic = v.panic
          /\ y.cm.flags = v.cm.flags \cup {"EPendingWriteInConnectedState"} /\ y.cm.state = "EConnected"
          /\ y.cm.curReq = v.cm.curReq /\ y.cm.curResp = v.cm.curResp /\ y.cm.pendReq = v.cm.pendReq
          /\ y.cm.pendResp = v.cm.pendResp /\ y.cm.excess = v.cm.excess
          /\ y.cm.nonPersistent = v.cm.nonPersistent
      BY <1>4, AgainIs
    <3>2. z = StartRequest(y)  BY <2>2
    <3> HIDE DEF y
    <3>3. Only(y, t)  BY <1>2, <3>1, OnlyKept
    <3>4. ~y.sock.hup /\ ~First(y.cm)  BY <1>1, <1>2, <1>7, <3>1 DEF First
    <3>5. Sorted(StartRequest(y))  BY <3>1, <3>3, <3>4, OnlyStarts
    <3> QED BY <3>2, <3>5 DEF z
  <2> QED BY <1>5, <1>7, <2>1, <2>2
<1> QED BY <1>1, <1>2, <1>6, <1>7 DEF z

-----------------------------------------------------------------------------
(* A transaction is submitted while the manager is in use                  *)

\* One more transaction waits for the connection to be made.
LEMMA JoinMake ==
  ASSUME NEW c, NEW x, NEW s, Typed(c, x, s), Make(c, x, s), NEW t \in Tx, x[t].status # "active",
         ~c.nonPersistent, t \notin OwnConnection, NEW d, NEW y, d.state = c.state, d.flags = c.flags,
         d.excess = c.excess, ~d.nonPersistent, d.curReq = c.curReq, d.curResp = c.curResp,
         d.pendReq = Append(c.pendReq, t), d.pendResp = Append(c.pendResp, t),
         Others(x, y, t), Waiting(y[t]), y[t].comp = "idle"
  PROVE  Make(d, y, s)
<1>1. /\ c.state \in Making /\ c.curReq \in Tx /\ c.curResp = c.curReq /\ c.pendReq = c.pendResp /\ ~c.excess
      /\ IsInjective(c.pendResp) /\ c.curResp \notin ToSet(c.pendResp) /\ Alone(c)
      /\ (\A u \in Awaits(c) : Waiting(x[u]) /\ x[u].comp = "idle")
      /\ (\A u \in Tx \ Awaits(c) : Off(x[u]) /\ Silent(x[u]))
      /\ Still(s) /\ ~s.hup /\ ~PendingWrite(c)
  BY DEF Make
<1>2. t \notin Awaits(c)  BY <1>1 DEF Waiting
<1>3. c.curResp \in Tx /\ None \notin Tx /\ c.curResp # None  BY <1>1, ConstantsAssumption
<1>4. t \notin ToSet(c.pendResp) /\ t # c.curResp  BY <1>2, <1>3 DEF Awaits
<1>5. PICK q \in Seq(Tx) : q = c.pendResp  BY Types
<1>6. ToSet(Append(q, t)) = ToSet(q) \cup {t} /\ IsInjective(Append(q, t)) /\ ToSet(q) \subseteq Tx
  <2>1. IsInjective(q) /\ t \notin ToSet(q)  BY <1>1, <1>4, <1>5
  <2>2. ToSet(Append(q, t)) = ToSet(q) \cup {t} /\ IsInjective(Append(q, t))  BY <2>1, Appended
  <2> QED BY <2>2, SomeIn
<1>7. Awaits(d) = Awaits(c) \cup {t}  BY <1>5, <1>6 DEF Awaits
<1>8. Awaits(c) \subseteq Tx  BY <1>3, <1>5, <1>6 DEF Awaits
<1>9. Alone(d)
  <2>1. \A u \in Awaits(c) : u \notin OwnConnection  BY <1>1 DEF Alone
  <2> QED BY <1>7, <2>1 DEF Alone
<1>10. \A u \in Awaits(d) : Waiting(y[u]) /\ y[u].comp = "idle"
  BY <1>1, <1>2, <1>7, <1>8 DEF Others
<1>11. \A u \in Tx \ Awaits(d) : Off(y[u]) /\ Silent(y[u])  BY <1>1, <1>7 DEF Others
<1>12. IsInjective(d.pendResp) /\ d.curResp \notin ToSet(d.pendResp)
  BY <1>1, <1>4, <1>5, <1>6
<1>13. ~PendingWrite(d)  BY <1>1 DEF PendingWrite
<1> QED BY <1>1, <1>9, <1>10, <1>11, <1>12, <1>13 DEF Make

\* The transaction joins those that use the connection.
LEMMA JoinSubmits ==
  ASSUME NEW w \in World, Sound(w), NEW s, s = w.sock, NEW x, x \in [Tx -> Transaction],
         Make(w.cm, x, s) \/ (\E h \in Tx \cup {None} : Run(w.cm, x, s, h)),
         NEW t \in Tx, x[t].status # "active", t \notin OwnConnection, ~w.cm.nonPersistent,
         "ECannotPipeline" \notin w.cm.flags, w.cm.curReq # None => w.cm.curResp # None,
         Others(x, w.tx, t), Waiting(w.tx[t]), w.tx[t].comp = "idle"
  PROVE  Sorted(SubmitL(w, t))
<1> DEFINE v == Enqueue(w, t)
           c == w.cm
           z == SubmitL(w, t)
<1>1. /\ v \in World /\ v.tx = w.tx /\ v.sock = w.sock /\ v.panic = w.panic
      /\ v.cm.flags = c.flags /\ v.cm.state = c.state /\ v.cm.excess = c.excess
      /\ v.cm.nonPersistent = (t \in OwnConnection)
      /\ v.cm.curReq = (IF c.curReq = None THEN t ELSE c.curReq)
      /\ v.cm.pendReq = (IF c.curReq = None THEN c.pendReq ELSE Append(c.pendReq, t))
      /\ v.cm.curResp = (IF c.curResp = None THEN t ELSE c.curResp)
      /\ v.cm.pendResp = (IF c.curResp = None THEN c.pendResp ELSE Append(c.pendResp, t))
  BY EnqueueIs
<1>2. Typed(c, x, s) /\ t # None  BY ConstantsAssumption DEF Typed, World
<1>3. w.cm.state \in Making \cup {"EConnected"}  BY DEF Make, Run, Loose
<1>4. v = Entered(w, t)
  <2>1. ~Unusable(w, t)  BY <1>3 DEF Unusable, Making
  <2> QED BY <2>1 DEF Entered
<1> HIDE DEF v
<1>5. /\ v.cm.state = "EConnected" /\ v.cm.curReq = t => z = StartRequest(v)
      /\ v.cm.state = "EConnected" /\ v.cm.curReq # t => z = v
      /\ v.cm.state \in Making => z = v
  BY <1>4, SubmitIs
<1> HIDE DEF z
<1>6. Sound(v)  BY <1>1 DEF Sound
<1>7. CASE Make(c, x, s)
  <2>1. c.curReq # None /\ c.curResp # None /\ c.state \in Making
    BY <1>7, ConstantsAssumption DEF Make
  <2>2. Make(v.cm, v.tx, s)
    <3>1. /\ v.cm.curReq = c.curReq /\ v.cm.curResp = c.curResp
          /\ v.cm.pendReq = Append(c.pendReq, t) /\ v.cm.pendResp = Append(c.pendResp, t)
          /\ ~v.cm.nonPersistent
      BY <1>1, <2>1
    <3>2. Others(x, v.tx, t) /\ Waiting(v.tx[t]) /\ v.tx[t].comp = "idle"  BY <1>1
    <3> QED BY <1>1, <1>2, <1>7, <3>1, <3>2, JoinMake
  <2>3. Make(v.cm, v.tx, v.sock)  BY <1>1, <2>2
  <2>4. Sorted(v)  BY <1>6, <2>3, MakeSorted
  <2> QED BY <1>1, <1>5, <2>1, <2>4 DEF z
<1>8. ASSUME NEW h \in Tx \cup {None}, Run(c, x, s, h) PROVE Sorted(z)
  <2>1. v.cm.state = "EConnected" /\ t # c.curReq
    <3>1. t # c.curReq  BY <1>2, <1>8, JoinerIsNew
    <3> QED BY <1>1, <1>8, <3>1 DEF Run, Loose
  <2> DEFINE y == IF c.curReq = None THEN Composer(v, t, "start") ELSE v
  <2>2. z = y
    <3>1. CASE c.curReq = None
      <4>1. v.cm.curReq = t /\ v.tx[t].comp = "idle"  BY <1>1, <3>1
      <4>2. StartRequest(v) = Composer(v, t, "start")  BY <1>2, <4>1 DEF StartRequest, Composer
      <4> QED BY <1>5, <2>1, <3>1, <4>1, <4>2
    <3>2. CASE c.curReq # None  BY <1>1, <1>5, <2>1, <3>2
    <3> QED BY <3>1, <3>2
  <2>3. /\ y \in World /\ y.cm = v.cm /\ y.sock = v.sock /\ y.panic = v.panic
        /\ Others(v.tx, y.tx, t) /\ Alike(v.tx[t], y.tx[t])
        /\ y.tx[t].comp = (IF c.curReq = None THEN "start" ELSE "idle")
    <3>1. CASE c.curReq = None
      <4>1. "start" \in ComposerStates  BY DEF ComposerStates
      <4> DEFINE e == Composer(v, t, "start")
      <4>2. /\ e \in World /\ e.cm = v.cm /\ e.sock = v.sock /\ e.panic = v.panic
            /\ \A u \in Tx : u # t => e.tx[u] = v.tx[u]
            /\ e.tx[t].comp = "start" /\ Alike(v.tx[t], e.tx[t])
        BY <1>1, <4>1, ComposerIs
      <4>3. y = e  BY <3>1
      <4> HIDE DEF e, y
      <4> QED BY <3>1, <4>2, <4>3 DEF Others
    <3>2. CASE c.curReq # None
      <4>1. y = v  BY <3>2
      <4> HIDE DEF y
      <4> QED BY <1>1, <3>2, <4>1 DEF Others, Alike
    <3> QED BY <3>1, <3>2
  <2> HIDE DEF y
  <2>4. Joins(c, x, y.cm, y.tx, t)
    <3>1. Others(x, y.tx, t)  BY <1>1, <2>3 DEF Others
    <3>2. Waiting(y.tx[t])  BY <1>1, <2>3 DEF Waiting, Alike
    <3> QED BY <1>1, <2>3, <3>1, <3>2 DEF Joins
  <2> DEFINE d == y.cm
             k == y.tx
  <2>5. Joins(c, x, d, k, t)  BY <2>4
  <2> HIDE DEF d, k
  <2>6. Run(d, k, s, h)  BY <1>2, <1>8, <2>5, JoinRun
  <2>7. Run(y.cm, y.tx, y.sock, h)  BY <1>1, <2>3, <2>6 DEF d, k
  <2>8. Sound(y)
    <3>1. \A u \in Tx : Tame(v.tx[u], y.tx[u])  BY <2>3 DEF Tame, Others, Alike
    <3>2. "EDiscardSndDataCnf" \notin y.cm.flags  BY <1>6, <2>3 DEF Sound
    <3> QED BY <1>6, <2>3, <3>1, <3>2, TameSound
  <2>9. Sorted(y)  BY <2>7, <2>8, RunSorted
  <2> QED BY <2>2, <2>9
<1> QED BY <1>7, <1>8 DEF z

\* Submit.
LEMMA SubmitOrder ==
  ASSUME Calm, Ordered(world), Good(world)', NEW t \in Tx, Submit(t)
  PROVE  Ordered(world)'
<1>1. /\ world \in World /\ Sound(world) /\ Fit(cm, tx, sock) /\ Typed(cm, tx, sock)
      /\ world.cm = cm /\ world.tx = tx /\ world.sock = sock /\ world.panic = panic
      /\ (sock.open <=> cm.state \in ConnectedStates)
  BY OrderedIs
<1> DEFINE available == cm.state = "EIdleConnected" /\ cm.host = HostOf[t]
           busy      == cm.state \in {"EConnecting", "EUpgrading", "EConnected"}
           new == ~available /\ ~busy
           a == Assigned(world, t, new)
           b == IF tx[t].pipeline THEN a ELSE DisablePipelining(a)
<1>2. /\ Selectable(t) /\ tx[t].status \in {"new", "retry"}
      /\ cm.curReq # None /\ cm.curResp = None => "firstUnread" \in Env
      /\ Becomes(SubmitL(b, t))
  BY DEF Submit
<1>3. new \in BOOLEAN  OBVIOUS
<1> HIDE DEF new
<1>4. /\ a \in World /\ a.cm = cm /\ a.sock = sock /\ a.panic = panic
      /\ Others(tx, a.tx, t) /\ Waiting(a.tx[t]) /\ a.tx[t].comp = "idle" /\ a.tx[t].len = "none"
      /\ a.tx[t].pipeline = tx[t].pipeline
  <2> DEFINE w == world
  <2>1. w \in World /\ w.cm = cm /\ w.tx = tx /\ w.sock = sock /\ w.panic = panic  BY <1>1
  <2> HIDE DEF w
  <2> DEFINE e == Assigned(w, t, new)
  <2>2. /\ e \in World /\ e.cm = w.cm /\ e.sock = w.sock /\ e.panic = w.panic
        /\ Others(w.tx, e.tx, t)
        /\ Waiting(e.tx[t]) /\ e.tx[t].comp = "idle" /\ e.tx[t].len = "none"
        /\ e.tx[t].pipeline = w.tx[t].pipeline
    BY <1>3, <2>1, AssignedIs
  <2>3. a = e  BY DEF w
  <2> HIDE DEF e
  <2> QED BY <2>1, <2>2, <2>3
<1> HIDE DEF a
<1>5. Sound(a)
  <2>1. \A u \in Tx : (tx[u].pipeline => u \in Pipelinable) /\ tx[u].len # "unknown"
    BY <1>1 DEF Sound
  <2>2. \A u \in Tx : (a.tx[u].pipeline => u \in Pipelinable) /\ a.tx[u].len # "unknown"
    <3> SUFFICES ASSUME NEW u \in Tx
                 PROVE  (a.tx[u].pipeline => u \in Pipelinable) /\ a.tx[u].len # "unknown"
      OBVIOUS
    <3>1. CASE u = t  BY <1>4, <2>1, <3>1
    <3>2. CASE u # t  BY <1>4, <2>1, <3>2 DEF Others
    <3> QED BY <3>1, <3>2
  <2> QED BY <1>1, <1>4, <2>2 DEF Sound
<1>6. CASE Rest(cm, tx, sock)
  <2>1. cm.state \in Resting /\ "ECannotPipeline" \notin cm.flags /\ ~PendingWrite(cm)
        /\ Vacant(cm) /\ ~cm.excess /\ Still(sock) /\ (cm.state # "EIdle" => ~First(cm))
        /\ (sock.hup => cm.state = "EClosing")
        /\ \A u \in Tx : Off(tx[u]) /\ Silent(tx[u])
    BY <1>6 DEF Rest, Vacant
  <2>2. Lone(a, t)  BY <1>4, <1>5, <2>1 DEF Lone, Others
  <2>3. Lone(b, t) /\ b.cm.state = cm.state /\ b.sock = sock /\ (First(b.cm) => First(cm))
    <3>1. CASE tx[t].pipeline  BY <1>4, <2>2, <3>1
    <3>2. CASE ~tx[t].pipeline
      <4> DEFINE v == DisablePipelining(a)
      <4>1. /\ v \in World /\ v.tx = a.tx /\ v.sock = a.sock /\ v.panic = a.panic
            /\ v.cm.flags = a.cm.flags \cup {"ECannotPipeline"} /\ v.cm.state = a.cm.state
            /\ v.cm.curReq = a.cm.curReq /\ v.cm.curResp = a.cm.curResp /\ v.cm.pendReq = a.cm.pendReq
            /\ v.cm.pendResp = a.cm.pendResp /\ v.cm.excess = a.cm.excess
            /\ v.cm.nonPersistent = a.cm.nonPersistent
        BY <1>4, <2>1, DisabledIs
      <4>2. b = v  BY <3>2
      <4> HIDE DEF v, b
      <4>3. Sound(v)  BY <1>5, <4>1 DEF Sound
      <4>4. Lone(v, t)  BY <2>2, <4>1, <4>3 DEF Lone, Vacant, PendingWrite
      <4>5. First(v.cm) => First(cm)  BY <1>4, <4>1 DEF First
      <4> QED BY <1>4, <4>1, <4>2, <4>4, <4>5
    <3> QED BY <3>1, <3>2
  <2> HIDE DEF b
  <2>4. Sorted(SubmitL(b, t))  BY <1>1, <2>1, <2>3, LoneSubmits
  <2> QED BY <1>2, <2>4, BecomesOrdered
<1>7. CASE Make(cm, tx, sock) \/ \E h \in Tx \cup {None} : Run(cm, tx, sock, h)
  <2>1. cm.state \in Making \cup {"EConnected"}  BY <1>7 DEF Make, Run, Loose
  <2>2. "ECannotPipeline" \notin cm.flags /\ ~cm.nonPersistent /\ tx[t].pipeline
    BY <1>2, <2>1 DEF Selectable, Making, CannotPipeline
  <2>3. t \notin OwnConnection
    <3>1. t \in Pipelinable  BY <1>1, <2>2 DEF Sound
    <3> QED BY <3>1 DEF Calm
  <2>4. cm.curReq # None => cm.curResp # None  BY <1>2 DEF Calm
  <2>5. b = a  BY <2>2
  <2>6. tx[t].status # "active" /\ tx \in [Tx -> Transaction]  BY <1>1, <1>2 DEF Typed
  <2> DEFINE x == tx
             s == sock
  <2>7. /\ Make(a.cm, x, s) \/ (\E h \in Tx \cup {None} : Run(a.cm, x, s, h))
        /\ s = a.sock /\ x \in [Tx -> Transaction] /\ x[t].status # "active"
        /\ ~a.cm.nonPersistent /\ "ECannotPipeline" \notin a.cm.flags
        /\ (a.cm.curReq # None => a.cm.curResp # None)
        /\ Others(x, a.tx, t) /\ Waiting(a.tx[t]) /\ a.tx[t].comp = "idle"
    BY <1>4, <1>7, <2>2, <2>4, <2>6
  <2> HIDE DEF x, s, b
  <2>8. Sorted(SubmitL(a, t))  BY <1>4, <1>5, <2>3, <2>7, JoinSubmits
  <2> QED BY <1>2, <2>5, <2>8, BecomesOrdered
<1> QED BY <1>1, <1>6, <1>7 DEF Fit

-----------------------------------------------------------------------------
(* A transaction is cancelled                                              *)

\* It leaves the queues; it is told so.
Left(w, t) == [w EXCEPT !.cm.pendReq = Without(@, t), !.cm.pendResp = Without(@, t)]
Cancelled(w, t) == [w EXCEPT !.tx[t].status = "cancelled"]
SameFields(c, d) ==
  /\ d.state = c.state /\ d.flags = c.flags /\ d.curReq = c.curReq /\ d.curResp = c.curResp
  /\ d.excess = c.excess /\ d.nonPersistent = c.nonPersistent
SameButStatus(r, q) ==
  /\ q.parse = r.parse /\ q.unread = r.unread /\ q.hold = r.hold /\ q.comp = r.comp
  /\ Tame(r, q)

\* Left takes a transaction out of both queues and changes nothing else.
LEMMA LeftIs ==
  ASSUME NEW w \in World, NEW t \in Tx
  PROVE  LET v == Left(w, t) IN
         /\ v \in World /\ v.tx = w.tx /\ v.sock = w.sock /\ v.panic = w.panic
         /\ SameFields(w.cm, v.cm)
         /\ v.cm.pendReq = Without(w.cm.pendReq, t) /\ v.cm.pendResp = Without(w.cm.pendResp, t)
<1> DEFINE p == Without(w.cm.pendReq, t)
           q == Without(w.cm.pendResp, t)
           c == [w.cm EXCEPT !.pendReq = p, !.pendResp = q]
           v == Left(w, t)
<1>1. w.cm.pendReq \in Seq(Tx) /\ w.cm.pendResp \in Seq(Tx)  BY DEF World, Manager
<1>2. p \in Seq(Tx) /\ q \in Seq(Tx)
  <2>1. PICK a \in Seq(Tx), b \in Seq(Tx) : a = w.cm.pendReq /\ b = w.cm.pendResp  BY <1>1
  <2>2. Without(a, t) \in Seq(Tx) /\ Without(b, t) \in Seq(Tx)  BY WithoutType
  <2> QED BY <2>1, <2>2
<1>3. v = Moves(w, c)  BY DEF Left, Moves, World, Manager
<1> HIDE DEF p, q, v
<1>4. c \in Manager /\ SameFields(w.cm, c) /\ c.pendReq = p /\ c.pendResp = q
  BY <1>2 DEF World, Manager, SameFields
<1> HIDE DEF c
<1>5. v \in World /\ v.cm = c /\ v.tx = w.tx /\ v.sock = w.sock /\ v.panic = w.panic
  BY <1>3, <1>4, MovesIs
<1> QED BY <1>4, <1>5 DEF v, p, q

\* Cancelled changes the status of a transaction and nothing else.
LEMMA CancelledIs ==
  ASSUME NEW w \in World, NEW t \in Tx
  PROVE  LET v == Cancelled(w, t) IN
         /\ v \in World /\ v.cm = w.cm /\ v.sock = w.sock /\ v.panic = w.panic
         /\ Others(w.tx, v.tx, t)
         /\ v.tx[t].status = "cancelled" /\ SameButStatus(w.tx[t], v.tx[t])
<1> DEFINE q == [w.tx[t] EXCEPT !.status = "cancelled"]
           v == Put(w, t, q)
<1>1. w.tx[t] \in Transaction  BY DEF World
<1>2. q \in Transaction /\ q.status = "cancelled" /\ SameButStatus(w.tx[t], q)
  BY <1>1 DEF Transaction, Statuses, SameButStatus, Tame
<1>3. Cancelled(w, t) = v  BY DEF Cancelled, Put
<1> HIDE DEF q
<1>4. /\ v \in World /\ v.cm = w.cm /\ v.sock = w.sock /\ v.panic = w.panic /\ v.tx[t] = q
      /\ \A u \in Tx : u # t => v.tx[u] = w.tx[u]
  BY <1>2, PutIs
<1> HIDE DEF v
<1>5. Cancelled(w, t) = v  BY <1>3 DEF v
<1> QED BY <1>2, <1>4, <1>5 DEF Others

\* The world of the cancellation, for one whose request is held back and for the one
\* for which the connection is being made.
Unconnected(w) == SetIdleState([w EXCEPT !.cm.connector = FALSE])
\* CancelSubmission of a transaction that is held back, and of the one for which the
\* connection is being made.
LEMMA CancelIs ==
  ASSUME NEW w \in World, NEW t \in Tx, NEW reconnects
  PROVE  /\ /\ Contains(w.cm.pendReq, t) /\ Contains(w.cm.pendResp, t)
            /\ w.cm.curReq # t /\ w.cm.curResp # t /\ w.cm.curReq # None
            => CancelSubmission(w, t, reconnects) = Left(w, t)
         /\ /\ ~Contains(w.cm.pendReq, t) /\ ~Contains(w.cm.pendResp, t)
            /\ w.cm.curResp = t /\ w.cm.state = "EConnecting"
            => CancelSubmission(w, t, reconnects)
                 = Vacate(NotifyPendingTransactions(Unconnected(w), "nonPipelining"))
<1> DEFINE v == Left(w, t)
           inReq  == Contains(w.cm.pendReq, t)
           inResp == Contains(w.cm.pendResp, t)
           stop   == inResp /\ ~inReq
           w2 == IF v.cm.state = "EConnecting" THEN SetIdleState([v EXCEPT !.cm.connector = FALSE])
                 ELSE CancelCurrent(v, t, stop)
           z == CancelSubmission(w, t, reconnects)
<1>0. z = IF inReq /\ ~inResp THEN Panic(w, "CancelSubmission: request without response")
          ELSE IF stop \/ t \in {v.cm.curReq, v.cm.curResp}
               THEN AfterCancelCurrent(w2, t, stop, reconnects)
          ELSE IF "ECannotPipeline" \in w.cm.flags /\ w.cm.curReq = None /\ w.cm.curResp = None
               THEN CloseConnection(v)
          ELSE v
  BY Zenon DEF CancelSubmission, Left
<1>a. inReq \in BOOLEAN /\ inResp \in BOOLEAN  BY DEF Contains
<1>1. SameFields(w.cm, v.cm)  BY LeftIs
<1> HIDE DEF z, inReq, inResp
<1>2. ASSUME inReq, inResp, w.cm.curReq # t, w.cm.curResp # t, w.cm.curReq # None PROVE z = v
  <2>1. v.cm.curReq = w.cm.curReq /\ v.cm.curResp = w.cm.curResp  BY <1>1 DEF SameFields
  <2> HIDE DEF v, w2
  <2> QED BY <1>0, <1>2, <2>1
<1>3. ASSUME ~inReq, ~inResp, w.cm.curResp = t, w.cm.state = "EConnecting"
      PROVE  z = Vacate(NotifyPendingTransactions(Unconnected(w), "nonPipelining"))
  <2> DEFINE u == Unconnected(w)
  <2>1. v = w
    <3>1. Without(w.cm.pendReq, t) = w.cm.pendReq /\ Without(w.cm.pendResp, t) = w.cm.pendResp
      BY <1>3 DEF Without, inReq, inResp
    <3>2. v.cm = w.cm
      <4>1. v.cm = [w.cm EXCEPT !.pendReq = Without(w.cm.pendReq, t),
                                !.pendResp = Without(w.cm.pendResp, t)]
        BY DEF Left, World, Manager
      <4>2. [w.cm EXCEPT !.pendReq = w.cm.pendReq, !.pendResp = w.cm.pendResp] = w.cm
        BY DEF World, Manager
      <4> HIDE DEF v
      <4> QED BY <3>1, <4>1, <4>2
    <3>3. v \in World /\ v.tx = w.tx /\ v.sock = w.sock /\ v.panic = w.panic  BY LeftIs
    <3> HIDE DEF v
    <3> QED BY <3>2, <3>3 DEF World
  <2>2. w2 = u
    <3> HIDE DEF v
    <3> QED BY <1>3, <2>1 DEF Unconnected
  <2> HIDE DEF v, w2
  <2>3. stop = FALSE  BY <1>3
  <2> HIDE DEF stop
  <2>4. z = AfterCancelCurrent(u, t, FALSE, reconnects)
    BY <1>0, <1>3, <2>1, <2>2, <2>3
  <2>5. u.cm.curResp = t /\ u.cm.state = "EIdle" /\ t # None
    BY <1>3, ConstantsAssumption DEF Unconnected, SetIdleState, World, Manager
  <2> HIDE DEF u, z
  <2>6. AfterCancelCurrent(u, t, FALSE, reconnects)
          = Vacate(NotifyPendingTransactions(u, "nonPipelining"))
    BY <2>5, Zenon DEF AfterCancelCurrent, Vacate
  <2> QED BY <2>4, <2>6 DEF u
<1> QED BY <1>2, <1>3 DEF z, v, inReq, inResp

-----------------------------------------------------------------------------
(* What a cancellation leaves                                              *)

\* The world c, x in which t has left the queues and is off.
Leaves(c, x, d, y, t) ==
  /\ SameFields(c, d)
  /\ d.pendReq = Without(c.pendReq, t) /\ d.pendResp = Without(c.pendResp, t)
  /\ Others(x, y, t) /\ Off(y[t]) /\ y[t].comp = x[t].comp

\* The queues that are left.
LEMMA LeaverQueues ==
  ASSUME NEW c, NEW x, NEW s, Typed(c, x, s), IsInjective(c.pendReq), IsInjective(c.pendResp),
         c.curResp \notin ToSet(c.pendResp), ToSet(c.pendReq) \subseteq ToSet(c.pendResp),
         NEW t \in Tx, t \in ToSet(c.pendReq), NEW d, NEW y, Leaves(c, x, d, y, t)
  PROVE  /\ IsInjective(d.pendReq) /\ IsInjective(d.pendResp)
         /\ ToSet(d.pendReq) = ToSet(c.pendReq) \ {t} /\ ToSet(d.pendResp) = ToSet(c.pendResp) \ {t}
         /\ Awaits(d) = Awaits(c) \ {t} /\ t \in Awaits(c)
         /\ t # c.curResp /\ t # None
         /\ ToSet(c.pendReq) \subseteq Tx /\ ToSet(c.pendResp) \subseteq Tx
<1>1. PICK a \in Seq(Tx), b \in Seq(Tx) : a = c.pendReq /\ b = c.pendResp  BY Types
<1>2. /\ IsInjective(Without(a, t)) /\ ToSet(Without(a, t)) = ToSet(a) \ {t}
      /\ IsInjective(Without(b, t)) /\ ToSet(Without(b, t)) = ToSet(b) \ {t}
  BY <1>1, TakenOut
<1>3. ToSet(a) \subseteq Tx /\ ToSet(b) \subseteq Tx  BY SomeIn
<1>4. d.pendReq = Without(a, t) /\ d.pendResp = Without(b, t) /\ d.curResp = c.curResp
  BY <1>1 DEF Leaves, SameFields
<1>5. t \in ToSet(c.pendResp) /\ t # c.curResp /\ t # None  BY ConstantsAssumption
<1>6. Awaits(d) = Awaits(c) \ {t} /\ t \in Awaits(c)  BY <1>1, <1>2, <1>4, <1>5 DEF Awaits
<1> QED BY <1>1, <1>2, <1>3, <1>4, <1>5, <1>6

\* While the connection is being made.
LEMMA LeaveMake ==
  ASSUME NEW c, NEW x, NEW s, Typed(c, x, s), Make(c, x, s), NEW t \in Tx, t \in ToSet(c.pendReq),
         NEW d, NEW y, Leaves(c, x, d, y, t)
  PROVE  Make(d, y, s)
<1>1. /\ c.state \in Making /\ c.curReq \in Tx /\ c.curResp = c.curReq /\ c.pendReq = c.pendResp /\ ~c.excess
      /\ IsInjective(c.pendResp) /\ c.curResp \notin ToSet(c.pendResp) /\ Alone(c)
      /\ (\A u \in Awaits(c) : Waiting(x[u]) /\ x[u].comp = "idle")
      /\ (\A u \in Tx \ Awaits(c) : Off(x[u]) /\ Silent(x[u]))
      /\ Still(s) /\ ~s.hup /\ ~PendingWrite(c)
  BY DEF Make
<1>2. /\ IsInjective(d.pendResp) /\ ToSet(d.pendResp) = ToSet(c.pendResp) \ {t}
      /\ Awaits(d) = Awaits(c) \ {t} /\ t \in Awaits(c) /\ t # c.curResp
      /\ ToSet(c.pendResp) \subseteq Tx
  BY <1>1, LeaverQueues
<1>3. /\ d.state = c.state /\ d.flags = c.flags /\ d.curReq = c.curReq /\ d.curResp = c.curResp
      /\ d.excess = c.excess /\ d.nonPersistent = c.nonPersistent /\ d.pendReq = d.pendResp
      /\ (\A u \in Tx : u # t => y[u] = x[u]) /\ Off(y[t]) /\ y[t].comp = x[t].comp
  BY <1>1 DEF Leaves, SameFields, Others
<1>4. Awaits(c) \subseteq Tx  BY <1>1, <1>2 DEF Awaits
<1>5. ~c.nonPersistent
  <2>1. ToSet(<<>>) = {}  BY NoneIn
  <2> QED BY <1>1, <2>1 DEF Alone
<1>6. Alone(d)  BY <1>1, <1>2, <1>3, <1>5 DEF Alone
<1>7. \A u \in Awaits(d) : Waiting(y[u]) /\ y[u].comp = "idle"  BY <1>1, <1>2, <1>3, <1>4
<1>8. \A u \in Tx \ Awaits(d) : Off(y[u]) /\ Silent(y[u])
  <2>1. Silent(y[t])  BY <1>1, <1>2, <1>3 DEF Silent
  <2> QED BY <1>1, <1>2, <1>3, <2>1
<1>9. ~PendingWrite(d)  BY <1>1, <1>3 DEF PendingWrite
<1> QED BY <1>1, <1>2, <1>3, <1>6, <1>7, <1>8, <1>9 DEF Make

\* What is taken out of the end of two equal lines leaves them equal.
LEMMA LeavesBoth ==
  ASSUME NEW a \in Seq(Tx), NEW q \in Seq(Tx), NEW b \in Seq(Tx), NEW p \in Seq(Tx),
         Cat(a, q) = Cat(b, p), IsInjective(Cat(b, p)), NEW e \in Tx, e \in ToSet(q) /\ e \in ToSet(p)
  PROVE  Cat(a, Without(q, e)) = Cat(b, Without(p, e))
<1>1. e \in ToSet(q)  OBVIOUS
<1>2. e \in ToSet(p)  OBVIOUS
<1> QED BY <1>1, <1>2, TakenOutOfBoth

\* While the connection is in use.
LEMMA LeaveRun ==
  ASSUME NEW c, NEW x, NEW s, Typed(c, x, s), NEW h \in Tx \cup {None}, Run(c, x, s, h),
         NEW t \in Tx, t \in ToSet(c.pendReq), NEW d, NEW y, Typed(d, y, s), Leaves(c, x, d, y, t)
  PROVE  Run(d, y, s, h)
<1>1. /\ c.state = "EConnected" /\ Queues(c, h) /\ Mode(c, h) /\ Parsers(c, x, h) /\ Composers(c, x, s)
      /\ Wire(c, x, s) /\ Answers(c, x, s) /\ Pieces(c, x, s) /\ Token(c, x, s, h) /\ (h # None => Held(x[h]))
  BY DEF Run, Loose
<1>2. /\ IsInjective(d.pendReq) /\ IsInjective(d.pendResp)
      /\ ToSet(d.pendReq) = ToSet(c.pendReq) \ {t} /\ ToSet(d.pendResp) = ToSet(c.pendResp) \ {t}
      /\ Awaits(d) = Awaits(c) \ {t} /\ t \in Awaits(c)
      /\ t # c.curResp /\ t # None
      /\ ToSet(c.pendReq) \subseteq Tx /\ ToSet(c.pendResp) \subseteq Tx
  BY <1>1, LeaverQueues DEF Queues
<1>3. /\ d.state = c.state /\ d.flags = c.flags /\ d.curReq = c.curReq /\ d.curResp = c.curResp
      /\ d.excess = c.excess /\ d.nonPersistent = c.nonPersistent
      /\ d.pendReq = Without(c.pendReq, t) /\ d.pendResp = Without(c.pendResp, t)
      /\ (\A u \in Tx : u # t => y[u] = x[u]) /\ Off(y[t]) /\ y[t].comp = x[t].comp
  BY DEF Leaves, SameFields, Others
<1>4. ToSet(<<>>) = {}  BY NoneIn
<1>5. c.pendReq # <<>> /\ c.pendResp # <<>> /\ ~c.nonPersistent
  <2>1. t \in ToSet(c.pendResp)  BY <1>1 DEF Queues
  <2>2. c.pendReq # <<>> /\ c.pendResp # <<>>  BY <1>4, <2>1
  <2> QED BY <1>1, <2>2 DEF Queues, Alone
<1>6. h # t /\ h \notin Awaits(c)  BY <1>1, <1>2 DEF Queues
<1>7. c.curReq \in Tx /\ c.curReq # t /\ c.curReq # None
  <2>1. c.curReq \in Tx \cup {None}  BY Types
  <2>2. CASE First(c)  BY <1>1, <1>2, <1>6, <2>1, <2>2 DEF Mode
  <2>3. CASE ~First(c)  BY <1>1, <1>5, <2>1, <2>3 DEF Mode
  <2> QED BY <2>2, <2>3
<1>8. c.curResp \in Tx \cup {None} /\ None \notin Tx  BY Types
<1>9. First(d) = First(c) /\ PendingWrite(d) = PendingWrite(c)  BY <1>3 DEF First, PendingWrite
<1>10. Queues(d, h)
  <2>1. Alone(d)  BY <1>1, <1>2, <1>3, <1>5 DEF Alone, Queues
  <2> QED BY <1>1, <1>2, <1>3, <2>1 DEF Queues
<1>11. Mode(d, h)
  <2>1. CASE First(c)
    <3>1. /\ c.pendReq = c.pendResp /\ ~PendingWrite(c)
          /\ IF h = None THEN c.curResp = c.curReq ELSE c.curResp = None /\ c.curReq = h
      BY <1>1, <2>1 DEF Mode
    <3> QED BY <1>3, <1>7, <1>9, <2>1, <3>1 DEF Mode
  <2>2. CASE ~First(c)
    <3>1. /\ c.curReq \in Awaits(c) \ ToSet(c.pendReq) /\ c.curResp # None
          /\ (PendingWrite(c) => c.curReq = c.curResp /\ c.pendReq = c.pendResp /\ h = None)
      BY <1>1, <1>5, <1>7, <2>2 DEF Mode
    <3>2. d.curReq \in Awaits(d) \ ToSet(d.pendReq)  BY <1>2, <1>3, <1>7, <3>1
    <3> QED BY <1>3, <1>7, <1>9, <2>2, <3>1, <3>2 DEF Mode
  <2> QED BY <2>1, <2>2
<1>12. Parsers(d, y, h)
  <2>1. \A u \in ToSet(d.pendResp) : Waiting(y[u])  BY <1>1, <1>2, <1>3 DEF Parsers
  <2>2. d.curResp # None => Current(y[d.curResp], h)  BY <1>1, <1>2, <1>3, <1>8 DEF Parsers
  <2>3. h # None => Silent(y[h])  BY <1>1, <1>3, <1>6 DEF Parsers
  <2>4. \A u \in Tx \ Awaits(d) : u # h => Off(y[u])  BY <1>1, <1>2, <1>3 DEF Parsers
  <2> QED BY <2>1, <2>2, <2>3, <2>4 DEF Parsers
<1>13. \A u \in Tx : y[u].comp = x[u].comp
  <2> SUFFICES ASSUME NEW u \in Tx PROVE y[u].comp = x[u].comp  OBVIOUS
  <2> QED BY <1>3
<1>14. \A u \in Tx : Given(u, y[u]) <=> Given(u, x[u])  BY <1>13 DEF Given
<1>15. Composers(d, y, s)
  <2>1. \A u \in Tx : Silent(y[u]) <=> Silent(x[u])  BY <1>13 DEF Silent
  <2>2. y[c.curReq] = x[c.curReq]  BY <1>3, <1>7
  <2> QED BY <1>1, <1>2, <1>3, <1>7, <1>9, <1>13, <2>1, <2>2 DEF Composers
<1>16. ToSet(s.wire) \subseteq Tx /\ t \notin ToSet(s.wire)
       /\ \A p \in ToSet(s.buf) \cup ToSet(s.net) : p.t \in Tx /\ p.t # t
  <2>1. PICK e \in Seq(Tx) : e = s.wire  BY Types
  <2>2. ToSet(e) \subseteq Tx  BY SomeIn
  <2>3. /\ \A p \in ToSet(s.buf) \cup ToSet(s.net) : p \in Piece /\ p.t \notin ToSet(c.pendReq)
        /\ ToSet(s.wire) \cap ToSet(c.pendReq) = {}
    BY <1>1, Owners
  <2> QED BY <2>1, <2>2, <2>3 DEF Piece
<1>17. Wire(d, y, s)  BY <1>1, <1>3, <1>13, <1>14, <1>16 DEF Wire
<1>18. c.curResp # None => y[c.curResp] = x[c.curResp]  BY <1>2, <1>3, <1>8
<1>19. Headless(d, y) = Headless(c, x) /\ Midway(d, y) = Midway(c, x) /\ Starting(d, y) = Starting(c, x)
  <2>1. Headless(d, y) = Headless(c, x)  BY <1>3, <1>18 DEF Headless
  <2>2. Midway(d, y) = Midway(c, x)  BY <1>3, <1>18 DEF Midway
  <2>3. Starting(d, y) = Starting(c, x)  BY <1>3, <1>7 DEF Starting
  <2> QED BY <2>1, <2>2, <2>3
<1>20. Answers(d, y, s)
  <2>1. PICK q \in Seq(Tx), p \in Seq(Tx), b \in Seq(Tx) :
           q = c.pendReq /\ p = c.pendResp /\ b = Headless(c, x)
    BY Types, AnswersAre
  <2> DEFINE a == HeadsIn(s.buf \o s.net) \o s.wire \o Starting(c, x)
  <2>2. a \in Seq(Tx)
    <3>1. PICK e \in Seq(Tx), f \in Seq(Tx), g \in Seq(Tx) :
             e = HeadsIn(s.buf \o s.net) /\ f = s.wire /\ g = Starting(c, x)
      BY Types, AnswersAre
    <3>2. e \o f \in Seq(Tx)  BY BothIn
    <3>3. (e \o f) \o g \in Seq(Tx)
      <4> DEFINE k == e \o f
      <4>1. k \in Seq(Tx)  BY <3>2
      <4> HIDE DEF k
      <4>2. k \o g \in Seq(Tx)  BY <4>1, BothIn
      <4> QED BY <4>2 DEF k
    <3> QED BY <3>1, <3>3
  <2>3. a \o q = b \o p  BY <1>1, <2>1 DEF Answers
  <2>4. IsInjective(b \o p)  BY <1>1, <2>1, AwaitedOnce
  <2>5. t \in ToSet(q) /\ t \in ToSet(p)  BY <1>1, <2>1 DEF Queues
  <2> HIDE DEF a
  <2>6. a \o Without(q, t) = b \o Without(p, t)
    <3>1. Cat(a, q) = Cat(b, p) /\ IsInjective(Cat(b, p))  BY <2>3, <2>4 DEF Cat
    <3>2. Cat(a, Without(q, t)) = Cat(b, Without(p, t))  BY <2>2, <2>5, <3>1, LeavesBoth
    <3> QED BY <3>2 DEF Cat
  <2>7. d.pendReq = Without(q, t) /\ d.pendResp = Without(p, t) /\ Headless(d, y) = b
        /\ HeadsIn(s.buf \o s.net) \o s.wire \o Starting(d, y) = a
    BY <1>3, <1>19, <2>1 DEF a
  <2> QED BY <2>6, <2>7 DEF Answers
<1>21. Pieces(d, y, s)
  <2>1. /\ Parts(s.buf \o s.net, Midway(c, x), c.curResp)
        /\ (Midway(c, x) => x[c.curResp].len = "sized")
        /\ (\A p \in ToSet(s.buf) \cup ToSet(s.net) :
              Given(p.t, x[p.t]) /\ (p.close => c.nonPersistent) /\ p.len # "unknown")
        /\ (\A p \in ToSet(s.buf) : Silent(x[p.t]))
    BY <1>1 DEF Pieces
  <2>2. Parts(s.buf \o s.net, Midway(d, y), d.curResp)  BY <1>3, <1>19, <2>1
  <2>3. Midway(d, y) => y[d.curResp].len = "sized"
    <3>1. Midway(c, x) => c.curResp # None  BY DEF Midway
    <3> QED BY <1>3, <1>18, <1>19, <2>1, <3>1
  <2>4. \A p \in ToSet(s.buf) \cup ToSet(s.net) : y[p.t] = x[p.t]  BY <1>3, <1>16
  <2>5. \A p \in ToSet(s.buf) \cup ToSet(s.net) :
           Given(p.t, y[p.t]) /\ (p.close => d.nonPersistent) /\ p.len # "unknown"
    BY <1>3, <2>1, <2>4
  <2>6. \A p \in ToSet(s.buf) : Silent(y[p.t])  BY <2>1, <2>4
  <2> QED BY <2>2, <2>3, <2>5, <2>6 DEF Pieces
<1>22. Token(d, y, s, h)  BY <1>1, <1>3, <1>18 DEF Token
<1>23. h # None => Held(y[h])  BY <1>1, <1>3, <1>6
<1> QED BY <1>1, <1>3, <1>10, <1>11, <1>12, <1>15, <1>17, <1>20, <1>21, <1>22, <1>23 DEF Run, Loose

-----------------------------------------------------------------------------
(* Cancel                                                                  *)

\* The one for which the connection is being made is cancelled: the others are told,
\* and the manager is as new.
LEMMA AbandonRest ==
  ASSUME NEW w \in World, Sound(w), NEW s, s = w.sock, Make(w.cm, w.tx, s), NEW t \in Tx,
         t = w.cm.curResp, NEW v,
         v = Cancelled(Vacate(NotifyPendingTransactions(Unconnected(w), "nonPipelining")), t)
  PROVE  /\ Sorted(v) /\ v \in World /\ Vacant(v.cm) /\ v.tx[t].status = "cancelled"
         /\ \A e \in Tx \ {t} : IF e \in ToSet(w.cm.pendResp) THEN v.tx[e].status \in {"retry", "failed"}
                              ELSE v.tx[e].status = w.tx[e].status
<1> DEFINE c == w.cm
           u == Unconnected(w)
           a == NotifyPendingTransactions(u, "nonPipelining")
           b == Vacate(a)
<1>1. /\ c.curReq \in Tx /\ c.curResp = c.curReq /\ c.pendReq = c.pendResp /\ ~c.excess
      /\ c.curResp \notin ToSet(c.pendResp)
      /\ (\A e \in Awaits(c) : Waiting(w.tx[e]) /\ w.tx[e].comp = "idle")
      /\ (\A e \in Tx \ Awaits(c) : Off(w.tx[e]) /\ Silent(w.tx[e]))
      /\ Still(s) /\ ~s.hup
  BY DEF Make
<1>2. /\ u \in World /\ u.tx = w.tx /\ u.sock = w.sock /\ u.panic = w.panic
      /\ u.cm.state = "EIdle" /\ u.cm.pendResp = c.pendResp /\ u.cm.excess = c.excess
      /\ u.cm.flags = c.flags \ {"ECannotPipeline", "EPendingWriteInConnectedState"}
  BY DEF Unconnected, SetIdleState, World, Manager, States
<1> HIDE DEF u
<1>3. /\ a.cm = [u.cm EXCEPT !.pendReq = <<>>, !.pendResp = <<>>]
      /\ a.tx = [e \in Tx |-> IF e \in ToSet(u.cm.pendResp)
                              THEN Failed(e, u.tx[e], u.cm.nonPersistent, "nonPipelining") ELSE u.tx[e]]
      /\ a.sock = u.sock /\ a.panic = u.panic
  BY <1>2, NotifyIs
<1>4. a \in World /\ b \in World  BY <1>2, NotifyKeeps, NotifyAndVacateKeeps DEF Keeps, Vacate
<1> HIDE DEF a
<1>5. /\ b.cm = [a.cm EXCEPT !.curReq = None, !.curResp = None]
      /\ b.tx = a.tx /\ b.sock = a.sock /\ b.panic = a.panic
  BY <1>4 DEF World, Manager, Vacate
<1> HIDE DEF b
<1>6. /\ Vacant(b.cm) /\ b.cm.state = "EIdle" /\ ~b.cm.excess
      /\ b.cm.flags = c.flags \ {"ECannotPipeline", "EPendingWriteInConnectedState"}
  BY <1>1, <1>2, <1>3, <1>5 DEF World, Manager, Vacant
<1>7. /\ v \in World /\ v.cm = b.cm /\ v.sock = b.sock /\ v.panic = b.panic
      /\ Others(b.tx, v.tx, t) /\ v.tx[t].status = "cancelled" /\ SameButStatus(b.tx[t], v.tx[t])
  <2> DEFINE z == Cancelled(b, t)
  <2>1. /\ z \in World /\ z.cm = b.cm /\ z.sock = b.sock /\ z.panic = b.panic
        /\ Others(b.tx, z.tx, t) /\ z.tx[t].status = "cancelled" /\ SameButStatus(b.tx[t], z.tx[t])
    BY <1>4, CancelledIs
  <2>2. v = z  BY DEF u, a, b
  <2> HIDE DEF z
  <2> QED BY <2>1, <2>2
<1>8. ASSUME NEW e \in Tx
      PROVE  /\ Off(v.tx[e]) /\ Silent(v.tx[e]) /\ Tame(w.tx[e], v.tx[e])
             /\ e # t => IF e \in ToSet(c.pendResp) THEN v.tx[e].status \in {"retry", "failed"}
                         ELSE v.tx[e].status = w.tx[e].status
  <2>1. w.tx[e] \in Transaction  BY DEF World
  <2>2. CASE e = t
    <3>1. t \in Awaits(c) /\ t \notin ToSet(c.pendResp)  BY <1>1, ConstantsAssumption DEF Awaits
    <3>2. b.tx[t] = w.tx[t]  BY <1>2, <1>3, <1>5, <3>1
    <3>3. Waiting(w.tx[t]) /\ w.tx[t].comp = "idle"  BY <1>1, <3>1
    <3> QED BY <1>7, <2>2, <3>2, <3>3 DEF SameButStatus, Waiting, Off, Silent
  <2>3. CASE e # t /\ e \in ToSet(c.pendResp)
    <3>1. v.tx[e] = Failed(e, w.tx[e], u.cm.nonPersistent, "nonPipelining")
      BY <1>2, <1>3, <1>5, <1>7, <2>3 DEF Others
    <3>2. Waiting(w.tx[e]) /\ w.tx[e].comp = "idle"  BY <1>1, <2>3 DEF Awaits
    <3> QED BY <2>1, <2>3, <3>1, <3>2, FailedIs DEF Waiting, Off, Silent
  <2>4. CASE e # t /\ e \notin ToSet(c.pendResp)
    <3>1. v.tx[e] = w.tx[e]  BY <1>2, <1>3, <1>5, <1>7, <2>4 DEF Others
    <3>2. e \notin Awaits(c)  BY <2>4 DEF Awaits
    <3> QED BY <1>1, <2>4, <3>1, <3>2 DEF Tame
  <2> QED BY <2>2, <2>3, <2>4
<1>9. v.panic = w.panic /\ v.sock = s  BY <1>2, <1>3, <1>5, <1>7
<1>10. Sound(v)
  <2>1. "EDiscardSndDataCnf" \notin v.cm.flags  BY <1>6, <1>7 DEF Sound
  <2>2. \A e \in Tx : Tame(w.tx[e], v.tx[e])  BY <1>8
  <2> QED BY <1>9, <2>1, <2>2, TameSound
<1>11. Rest(v.cm, v.tx, v.sock)
  BY <1>1, <1>6, <1>7, <1>8, <1>9 DEF Rest, Resting, Vacant, PendingWrite
<1>12. Sorted(v)  BY <1>10, <1>11, RestSorted
<1>13. \A e \in Tx \ {t} : IF e \in ToSet(c.pendResp) THEN v.tx[e].status \in {"retry", "failed"}
                         ELSE v.tx[e].status = w.tx[e].status
  BY <1>8
<1>14. Vacant(v.cm)  BY <1>6, <1>7
<1> QED BY <1>7, <1>12, <1>13, <1>14

\* One whose request is held back is cancelled.
LEMMA HeldBackCancelled ==
  ASSUME NEW w \in World, Sound(w), NEW s, s = w.sock,
         Make(w.cm, w.tx, s) \/ \E h \in Tx \cup {None} : Run(w.cm, w.tx, s, h),
         NEW t \in Tx, t \in ToSet(w.cm.pendReq), w.tx[t].parse = "wait", ~w.tx[t].unread, ~w.tx[t].hold,
         NEW v, v = Cancelled(Left(w, t), t)
  PROVE  Sorted(v)
<1> DEFINE c == w.cm
           x == w.tx
           a == Left(w, t)
<1>1. /\ a \in World /\ a.tx = x /\ a.sock = s /\ a.panic = w.panic /\ SameFields(c, a.cm)
      /\ a.cm.pendReq = Without(c.pendReq, t) /\ a.cm.pendResp = Without(c.pendResp, t)
  BY LeftIs
<1> HIDE DEF a
<1>2. /\ v \in World /\ v.cm = a.cm /\ v.sock = a.sock /\ v.panic = a.panic
      /\ Others(a.tx, v.tx, t) /\ v.tx[t].status = "cancelled" /\ SameButStatus(a.tx[t], v.tx[t])
  <2> DEFINE z == Cancelled(a, t)
  <2>1. /\ z \in World /\ z.cm = a.cm /\ z.sock = a.sock /\ z.panic = a.panic
        /\ Others(a.tx, z.tx, t) /\ z.tx[t].status = "cancelled" /\ SameButStatus(a.tx[t], z.tx[t])
    BY <1>1, CancelledIs
  <2>2. v = z  BY DEF a
  <2> HIDE DEF z
  <2> QED BY <2>1, <2>2
<1> DEFINE d == v.cm
           y == v.tx
<1>3. Leaves(c, x, d, y, t)
  BY <1>1, <1>2 DEF Leaves, SameButStatus, Off
<1>4. Sound(v)
  <2>1. "EDiscardSndDataCnf" \notin v.cm.flags  BY <1>1, <1>2 DEF Sound, SameFields
  <2>2. \A e \in Tx : Tame(w.tx[e], v.tx[e])
    <3> SUFFICES ASSUME NEW e \in Tx PROVE Tame(w.tx[e], v.tx[e])  OBVIOUS
    <3>1. CASE e = t  BY <1>1, <1>2, <3>1 DEF SameButStatus
    <3>2. CASE e # t  BY <1>1, <1>2, <3>2 DEF Others, Tame
    <3> QED BY <3>1, <3>2
  <2> QED BY <1>1, <1>2, <2>1, <2>2, TameSound
<1>5. Typed(c, x, s) /\ Typed(d, y, s) /\ v.sock = s  BY <1>1, <1>2 DEF Typed, World
<1>6. Make(c, x, s) \/ \E h \in Tx \cup {None} : Run(c, x, s, h)  OBVIOUS
<1>7. t \in ToSet(c.pendReq)  OBVIOUS
<1> HIDE DEF c, x, d, y
<1>8. CASE Make(c, x, s)
  <2>1. Make(d, y, s)  BY <1>3, <1>5, <1>7, <1>8, LeaveMake
  <2> QED BY <1>4, <1>5, <2>1, MakeSorted DEF d, y
<1>9. ASSUME NEW h \in Tx \cup {None}, Run(c, x, s, h) PROVE Sorted(v)
  <2>1. Run(d, y, s, h)  BY <1>3, <1>5, <1>7, <1>9, LeaveRun
  <2>2. Run(v.cm, v.tx, v.sock, h)  BY <1>5, <2>1 DEF d, y
  <2> QED BY <1>4, <2>2, RunSorted
<1> QED BY <1>6, <1>8, <1>9

\* Cancel.
LEMMA CancelOrder ==
  ASSUME Calm, Ordered(world), Good(world)', NEW t \in Tx, Cancel(t)
  PROVE  Ordered(world)'
<1>1. /\ world \in World /\ Sound(world) /\ Fit(cm, tx, sock) /\ Typed(cm, tx, sock)
      /\ world.cm = cm /\ world.tx = tx /\ world.sock = sock /\ world.panic = panic
      /\ (sock.open <=> cm.state \in ConnectedStates)
  BY OrderedIs
<1>2. /\ tx[t].status = "active" /\ ~tx[t].msgDone /\ (~sock.open \/ Contains(cm.pendReq, t))
      /\ \E reconnects \in Reconnects : Becomes(Cancelled(CancelSubmission(world, t, reconnects), t))
  BY DEF Cancel, Calm, Cancelled
<1>3. PICK reconnects \in Reconnects : Becomes(Cancelled(CancelSubmission(world, t, reconnects), t))
  BY <1>2
<1>4. /\ Contains(cm.pendReq, t) <=> t \in ToSet(cm.pendReq)
      /\ Contains(cm.pendResp, t) <=> t \in ToSet(cm.pendResp)
  <2>1. PICK a \in Seq(Tx), b \in Seq(Tx) : a = cm.pendReq /\ b = cm.pendResp  BY <1>1, Types
  <2>2. (Contains(a, t) <=> t \in ToSet(a)) /\ (Contains(b, t) <=> t \in ToSet(b))  BY SomeIn
  <2> QED BY <2>1, <2>2
<1> DEFINE w == world
           u == CancelSubmission(w, t, reconnects)
           v == Cancelled(u, t)
           s == sock
<1>5. /\ w \in World /\ Sound(w) /\ w.cm = cm /\ w.tx = tx /\ w.sock = s /\ Becomes(v)
  BY <1>1, <1>3
<1> HIDE DEF w
<1>6. /\ /\ Contains(w.cm.pendReq, t) /\ Contains(w.cm.pendResp, t)
         /\ w.cm.curReq # t /\ w.cm.curResp # t /\ w.cm.curReq # None
         => u = Left(w, t)
      /\ /\ ~Contains(w.cm.pendReq, t) /\ ~Contains(w.cm.pendResp, t)
         /\ w.cm.curResp = t /\ w.cm.state = "EConnecting"
         => u = Vacate(NotifyPendingTransactions(Unconnected(w), "nonPipelining"))
  BY <1>5, CancelIs
<1> HIDE DEF u
<1>7. ASSUME Make(cm, tx, s) \/ (\E h \in Tx \cup {None} : Run(cm, tx, s, h)),
             t \in ToSet(cm.pendReq), t \in ToSet(cm.pendResp), Waiting(tx[t]),
             cm.curReq # t, cm.curResp # t, cm.curReq # None
      PROVE  Sorted(v)
  <2>1. u = Left(w, t)  BY <1>4, <1>5, <1>6, <1>7
  <2>2. v = Cancelled(Left(w, t), t)  BY <2>1
  <2> HIDE DEF v, s
  <2>3. Make(w.cm, w.tx, s) \/ (\E h \in Tx \cup {None} : Run(w.cm, w.tx, s, h))  BY <1>5, <1>7
  <2>4. t \in ToSet(w.cm.pendReq) /\ w.tx[t].parse = "wait" /\ ~w.tx[t].unread /\ ~w.tx[t].hold
    BY <1>5, <1>7 DEF Waiting
  <2> QED BY <1>5, <2>2, <2>3, <2>4, HeldBackCancelled
<1>8. CASE Rest(cm, tx, sock)  BY <1>2, <1>8 DEF Rest, Off
<1>9. CASE Make(cm, tx, sock)
  <2>1. /\ cm.state \in Making /\ cm.curReq \in Tx /\ cm.curResp = cm.curReq /\ cm.pendReq = cm.pendResp
        /\ cm.curResp \notin ToSet(cm.pendResp)
        /\ (\A e \in Awaits(cm) : Waiting(tx[e]))
        /\ (\A e \in Tx \ Awaits(cm) : Off(tx[e]))
    BY <1>9 DEF Make
  <2>2. t \in Awaits(cm) /\ None \notin Tx  BY <1>2, <2>1, ConstantsAssumption DEF Off
  <2>3. CASE t = cm.curResp
    <3>1. ~Contains(cm.pendReq, t) /\ ~Contains(cm.pendResp, t)  BY <1>4, <2>1, <2>3
    <3>2. cm.state = "EConnecting"  BY <1>1, <1>2, <2>1, <3>1 DEF ConnectedStates, Making
    <3>3. v = Cancelled(Vacate(NotifyPendingTransactions(Unconnected(w), "nonPipelining")), t)
      BY <1>5, <1>6, <2>3, <3>1, <3>2
    <3>4. Make(w.cm, w.tx, s) /\ t = w.cm.curResp  BY <1>5, <1>9, <2>3
    <3> HIDE DEF v, s
    <3>5. Sorted(v)  BY <1>5, <3>3, <3>4, AbandonRest
    <3> QED BY <1>5, <3>5, BecomesOrdered
  <2>4. CASE t # cm.curResp
    <3>1. t \in ToSet(cm.pendResp)  BY <2>2, <2>4 DEF Awaits
    <3>2. Sorted(v)  BY <1>7, <1>9, <2>1, <2>2, <2>4, <3>1
    <3> HIDE DEF v
    <3> QED BY <1>5, <3>2, BecomesOrdered
  <2> QED BY <2>3, <2>4
<1>10. ASSUME NEW h \in Tx \cup {None}, Run(cm, tx, sock, h) PROVE Ordered(world)'
  <2>1. cm.state = "EConnected" /\ Queues(cm, h) /\ Mode(cm, h) /\ Parsers(cm, tx, h)
    BY <1>10 DEF Run, Loose
  <2>2. sock.open  BY <1>1, <2>1 DEF ConnectedStates
  <2>3. t \in ToSet(cm.pendReq)  BY <1>2, <1>4, <2>2
  <2>4. t \in ToSet(cm.pendResp) /\ cm.curResp # t /\ h \notin Awaits(cm)  BY <2>1, <2>3 DEF Queues
  <2>5. Waiting(tx[t])  BY <2>1, <2>4 DEF Parsers
  <2>6. t \in Awaits(cm) /\ ToSet(<<>>) = {}  BY <2>4, NoneIn DEF Awaits
  <2>7. cm.curReq # t /\ cm.curReq # None
    <3>1. CASE First(cm)  BY <2>1, <2>4, <2>6, <3>1 DEF Mode
    <3>2. CASE ~First(cm)  BY <2>1, <2>3, <2>6, <3>2 DEF Mode
    <3> QED BY <3>1, <3>2
  <2>8. Sorted(v)  BY <1>7, <1>10, <2>3, <2>4, <2>5, <2>7
  <2> HIDE DEF v
  <2> QED BY <1>5, <2>8, BecomesOrdered
<1> QED BY <1>1, <1>8, <1>9, <1>10 DEF Fit

-----------------------------------------------------------------------------
(* What a manager in order promises                                        *)

\* The queue b is a suffix of a line that ends with it, the queue a a prefix of a
\* line that begins with it.
LEMMA EndsWith ==
  ASSUME NEW T, NEW a \in Seq(T), NEW b \in Seq(T) PROVE IsSuffix(b, Cat(a, b))
<1> DEFINE z == Cat(a, b)
           k == Len(a)
           n == Len(b)
           r == Reverse(b)
           q == Reverse(z)
<1>1. k \in Nat /\ n \in Nat  BY LenProperties
<1>2. z \in Seq(T) /\ Len(z) = k + n /\ \A i \in 1 .. k + n : z[i] = IF i <= k THEN a[i] ELSE b[i - k]
  BY ConcatProperties DEF Cat
<1> HIDE DEF z, k, n
<1>3. r = [i \in 1 .. n |-> b[(n - i) + 1]]  BY DEF Reverse, n
<1>4. q = [i \in 1 .. k + n |-> z[((k + n) - i) + 1]]  BY <1>2 DEF Reverse
<1>5. \A i \in 1 .. n : b[i] \in T  BY ElementOfSeq DEF n
<1>6. \A i \in 1 .. k + n : z[i] \in T  BY <1>2, ElementOfSeq
<1> HIDE DEF r, q
<1>7. r \in Seq(T) /\ Len(r) = n
  <2>1. \A i \in 1 .. n : b[(n - i) + 1] \in T  BY <1>1, <1>5
  <2>2. r \in [1 .. n -> T]  BY <1>3, <2>1
  <2>3. r \in Seq(T) /\ DOMAIN r = 1 .. n  BY <1>1, <2>2, SeqDef
  <2> QED BY <1>1, <2>3, LenProperties
<1>8. q \in Seq(T) /\ Len(q) = k + n
  <2>1. \A i \in 1 .. k + n : z[((k + n) - i) + 1] \in T  BY <1>1, <1>6
  <2>2. q \in [1 .. k + n -> T]  BY <1>4, <2>1
  <2>3. k + n \in Nat  BY <1>1
  <2>4. q \in Seq(T) /\ DOMAIN q = 1 .. k + n  BY <2>2, <2>3, SeqDef
  <2> QED BY <2>3, <2>4, LenProperties
<1>9. \A i \in 1 .. n : r[i] = q[i] /\ q[i] \in T /\ r[i] \in T
  <2> SUFFICES ASSUME NEW i \in 1 .. n PROVE r[i] = q[i] /\ q[i] \in T /\ r[i] \in T  OBVIOUS
  <2> DEFINE j == ((k + n) - i) + 1
  <2>1. j \in 1 .. k + n /\ ~(j <= k) /\ j - k = (n - i) + 1 /\ i \in 1 .. k + n  BY <1>1
  <2>2. q[i] = z[j] /\ r[i] = b[(n - i) + 1]  BY <1>3, <1>4, <2>1
  <2> HIDE DEF j
  <2>3. z[j] = b[j - k]  BY <1>2, <2>1
  <2> QED BY <1>6, <2>1, <2>2, <2>3
<1>10. SubSeq(r, 1, n) = SubSeq(q, 1, n)
  <2> DEFINE u == SubSeq(r, 1, n)
             v == SubSeq(q, 1, n)
  <2>1. 1 \in Int /\ n \in Int /\ (n - 1) + 1 = n /\ \A i \in 1 .. n : (1 + i) - 1 = i  BY <1>1
  <2>2. /\ u \in Seq(T) /\ Len(u) = (IF 1 <= n THEN (n - 1) + 1 ELSE 0)
        /\ \A i \in 1 .. (n - 1) + 1 : u[i] = r[(1 + i) - 1]
    BY <1>9, <2>1, SubSeqProperties
  <2>3. /\ v \in Seq(T) /\ Len(v) = (IF 1 <= n THEN (n - 1) + 1 ELSE 0)
        /\ \A i \in 1 .. (n - 1) + 1 : v[i] = q[(1 + i) - 1]
    BY <1>9, <2>1, SubSeqProperties
  <2> HIDE DEF u, v
  <2>4. Len(u) = n /\ Len(v) = n /\ \A i \in 1 .. n : u[i] = v[i]  BY <1>1, <1>9, <2>1, <2>2, <2>3
  <2>5. u = v  BY <2>2, <2>3, <2>4, SeqEqual
  <2> QED BY <2>5 DEF u, v
<1> QED BY <1>1, <1>7, <1>8, <1>10 DEF IsSuffix, IsPrefix, r, q, z

\* The queue a is a prefix of a line that begins with it.
LEMMA BeginsWith ==
  ASSUME NEW T, NEW a \in Seq(T), NEW b \in Seq(T) PROVE IsPrefix(a, Cat(a, b))
<1> DEFINE z == Cat(a, b)
           k == Len(a)
<1>1. k \in Nat /\ Len(b) \in Nat  BY LenProperties
<1>2. z \in Seq(T) /\ Len(z) = k + Len(b)  BY ConcatProperties DEF Cat
<1>3. SubSeq(a, 1, k) = SubSeq(z, 1, k)
  <2>1. CASE k = 0
    <3>1. SubSeq(a, 1, 0) = <<>> /\ SubSeq(z, 1, 0) = <<>>
      <4>1. 1 \in Int /\ 0 \in Int /\ 0 < 1  OBVIOUS
      <4> QED BY <4>1, SubSeqEmpty
    <3> QED BY <2>1, <3>1
  <2>2. CASE k # 0
    <3>1. 1 \in 1 .. k /\ k \in 1 .. k  BY <1>1, <2>2
    <3> QED BY <3>1, SubSeqOfConcat1 DEF Cat
  <2> QED BY <2>1, <2>2
<1> HIDE DEF z, k
<1>4. k <= Len(z)  BY <1>1, <1>2
<1> QED BY <1>3, <1>4 DEF IsPrefix, k, z

\* Each parser has its own answer.
LEMMA MatchOrder == ASSUME Ordered(world) PROVE ResponseMatch
<1> SUFFICES ASSUME NEW t \in Tx, tx[t].parse = "run"
             PROVE  sock.buf # <<>> /\ Head(sock.buf).t = t
  BY DEF ResponseMatch
<1> DEFINE c == cm
           x == tx
           s == sock
<1>1. Typed(c, x, s) /\ Fit(c, x, s) /\ x[t].parse = "run"  BY OrderedIs
<1>2. PICK b \in Seq(Piece), n \in Seq(Piece) : b = s.buf /\ n = s.net  BY <1>1, Types
<1> HIDE DEF c, x, s
<1>3. Run(c, x, s, None) /\ t = c.curResp  BY <1>1, AtParse
<1>4. Answers(c, x, s) /\ Pieces(c, x, s) /\ Token(c, x, s, None)  BY <1>3 DEF Run, Loose
<1>5. t # None  BY ConstantsAssumption
<1>6. b # <<>>  BY <1>1, <1>2, <1>3, <1>4, <1>5 DEF Token
<1>7. b \o n # <<>> /\ (b \o n)[1] = Head(b)  BY <1>6, PieceTaken
<1>8. (s.buf \o s.net)[1].t = c.curResp
  <2>1. s.buf \o s.net # <<>> /\ c.curResp # None /\ x[c.curResp].parse # "end"
    BY <1>1, <1>2, <1>3, <1>5, <1>7
  <2> QED BY <1>1, <1>4, <2>1, FirstPiece
<1> QED BY <1>2, <1>3, <1>6, <1>7, <1>8 DEF s

\* Nobody is forgotten.
LEMMA NoOrphanOrder == ASSUME Ordered(world) PROVE NoOrphan
<1>1. Fit(cm, tx, sock) /\ Typed(cm, tx, sock)  BY OrderedIs
<1>2. /\ ToSet(cm.pendReq) \subseteq Tx /\ ToSet(cm.pendResp) \subseteq Tx
      /\ cm.curResp \in Tx \cup {None} /\ None \notin Tx
  <2>1. PICK a \in Seq(Tx), b \in Seq(Tx) : a = cm.pendReq /\ b = cm.pendResp  BY <1>1, Types
  <2>2. ToSet(a) \subseteq Tx /\ ToSet(b) \subseteq Tx  BY SomeIn
  <2> QED BY <1>1, <2>1, <2>2, Types
<1> SUFFICES ASSUME NEW t \in Tx
             PROVE  /\ tx[t].status = "active" => t \in Known \/ (tx[t].msgDone /\ tx[t].unread)
                    /\ t \in {cm.curResp} \cup ToSet(cm.pendReq) \cup ToSet(cm.pendResp)
                         => tx[t].status = "active"
  BY DEF NoOrphan
<1>3. Awaits(cm) \subseteq Known /\ (t = cm.curResp \/ t \in ToSet(cm.pendResp) <=> t \in Awaits(cm))
  BY <1>2 DEF Known, Awaits
<1>4. CASE Rest(cm, tx, sock)
  <2>1. ToSet(<<>>) = {}  BY NoneIn
  <2> QED BY <1>2, <1>4, <2>1 DEF Rest, Off
<1>5. CASE Make(cm, tx, sock)
  <2>1. cm.pendReq = cm.pendResp  BY <1>5 DEF Make
  <2>2. t \in Awaits(cm) => tx[t].status = "active"  BY <1>5 DEF Make, Waiting
  <2>3. t \notin Awaits(cm) => tx[t].status # "active"  BY <1>5 DEF Make, Off
  <2> QED BY <1>3, <2>1, <2>2, <2>3
<1>6. ASSUME NEW h \in Tx \cup {None}, Run(cm, tx, sock, h)
      PROVE  /\ tx[t].status = "active" => t \in Known \/ (tx[t].msgDone /\ tx[t].unread)
             /\ t \in {cm.curResp} \cup ToSet(cm.pendReq) \cup ToSet(cm.pendResp)
                  => tx[t].status = "active"
  <2>1. Queues(cm, h) /\ Parsers(cm, tx, h) /\ (h # None => Held(tx[h]))  BY <1>6 DEF Run, Loose
  <2>2. ToSet(cm.pendReq) \subseteq ToSet(cm.pendResp)  BY <2>1 DEF Queues
  <2>3. t \in ToSet(cm.pendResp) => tx[t].status = "active"  BY <2>1 DEF Parsers, Waiting
  <2>4. t = cm.curResp => tx[t].status = "active"  BY <1>2, <2>1 DEF Parsers, Current
  <2>5. t \notin Awaits(cm) /\ t # h => tx[t].status # "active"  BY <2>1 DEF Parsers, Off
  <2>6. t = h => tx[t].msgDone /\ tx[t].unread  BY <1>2, <2>1 DEF Held
  <2> QED BY <1>3, <2>2, <2>3, <2>4, <2>5, <2>6
<1> QED BY <1>1, <1>4, <1>5, <1>6 DEF Fit

\* The requests held back are the last of the awaited ones.
LEMMA AlignedOrder == ASSUME Ordered(world) PROVE QueuesAligned
<1>1. Fit(cm, tx, sock) /\ Typed(cm, tx, sock)  BY OrderedIs
<1> DEFINE T == Tx \cup {None}
           r == cm.curResp
<1>2. PICK q \in Seq(Tx), p \in Seq(Tx) : q = cm.pendReq /\ p = cm.pendResp  BY <1>1, Types
<1>3. r \in T  BY <1>1, Types
<1>4. \A a \in Seq(Tx) : a \in Seq(T)
  <2>1. Tx \subseteq T  OBVIOUS
  <2> QED BY <2>1, SeqMonotonic
<1> HIDE DEF T, r
<1>5. One(r) \in Seq(T)  BY <1>3, OneType
<1> SUFFICES IsSuffix(q, Cat(One(r), p))  BY <1>2 DEF QueuesAligned, Cat, One, r
<1>6. ASSUME NEW a \in Seq(Tx), Cat(a, q) = p PROVE IsSuffix(q, Cat(One(r), p))
  <2>1. a \in Seq(T) /\ q \in Seq(T)  BY <1>4
  <2>2. Cat(Cat(One(r), a), q) = Cat(One(r), Cat(a, q))  BY <1>5, <2>1, CatAssociative
  <2>3. Cat(One(r), a) \in Seq(T)  BY <1>5, <2>1, CatType
  <2>4. IsSuffix(q, Cat(Cat(One(r), a), q))  BY <2>1, <2>3, EndsWith
  <2> QED BY <1>6, <2>2, <2>4
<1>7. ASSUME q = p PROVE IsSuffix(q, Cat(One(r), p))
  <2>1. None0 \in Seq(Tx) /\ Cat(None0, q) = q  BY CatNone
  <2> QED BY <1>6, <1>7, <2>1
<1>8. CASE Rest(cm, tx, sock)  BY <1>2, <1>7, <1>8 DEF Rest
<1>9. CASE Make(cm, tx, sock)  BY <1>2, <1>7, <1>9 DEF Make
<1>10. ASSUME NEW h \in Tx \cup {None}, Run(cm, tx, sock, h) PROVE IsSuffix(q, Cat(One(r), p))
  <2> DEFINE c == cm
             x == tx
             s == sock
             A == HeadsIn(s.buf \o s.net)
             H == Headless(c, x)
             S == Starting(c, x)
  <2>1. Typed(c, x, s) /\ Answers(c, x, s) /\ r = c.curResp /\ q = c.pendReq /\ p = c.pendResp
    BY <1>1, <1>2, <1>10 DEF Run, Loose, r
  <2> HIDE DEF c, x, s
  <2>2. Line(A, s.wire, S, q) = Cat(H, p)  BY <2>1, AnswersLine
  <2>3. A \in Seq(Tx) /\ S \in Seq(Tx) /\ s.wire \in Seq(Tx) /\ H \in Seq(Tx)  BY <2>1, AnswersAre, Types
  <2>4. H = None0 \/ (H = One(r) /\ r \in Tx)  BY <2>1, Types DEF Headless, None0, One
  <2> DEFINE w == s.wire
             b == Cat(Cat(A, w), S)
  <2> HIDE DEF A, H, S
  <2>5. b \in Seq(Tx)
    <3>1. w \in Seq(Tx)  BY <2>3
    <3> HIDE DEF w
    <3>2. Cat(A, w) \in Seq(Tx)  BY <2>3, <3>1, CatType
    <3> QED BY <2>3, <3>2, CatType
  <2>6. Cat(b, q) = Cat(H, p)  BY <2>2 DEF Line
  <2> HIDE DEF b
  <2>7. CASE H = None0
    <3>1. Cat(None0, p) = p  BY CatNone
    <3> QED BY <1>6, <2>5, <2>6, <2>7, <3>1
  <2>8. CASE H = One(r)
    <3>1. b \in Seq(T) /\ q \in Seq(T)  BY <1>4, <2>5
    <3>2. IsSuffix(q, Cat(b, q))  BY <3>1, EndsWith
    <3> QED BY <2>6, <2>8, <3>2
  <2> QED BY <2>4, <2>7, <2>8
<1> QED BY <1>1, <1>8, <1>9, <1>10 DEF Fit

\* The answers due are the first of the awaited ones.
LEMMA ExpectedOrder == ASSUME Ordered(world) PROVE AnswersExpected
<1>1. Fit(cm, tx, sock) /\ Typed(cm, tx, sock)  BY OrderedIs
<1> DEFINE c == cm
           x == tx
           s == sock
           A == HeadsIn(s.buf \o s.net)
           H == Headless(c, x)
           S == Starting(c, x)
           w == s.wire
           q == c.pendReq
           p == c.pendResp
<1>2. AnswersDue = Cat(A, w) /\ AnswersAwaited = Cat(H, p)
  BY DEF AnswersDue, AnswersAwaited, Cat, Headless
<1>3. A \in Seq(Tx) /\ S \in Seq(Tx) /\ w \in Seq(Tx) /\ H \in Seq(Tx) /\ q \in Seq(Tx) /\ p \in Seq(Tx)
  BY <1>1, AnswersAre, Types
<1> HIDE DEF A, H, S, w, q, p
<1> SUFFICES IsPrefix(Cat(A, w), Cat(H, p))  BY <1>2 DEF AnswersExpected
<1>4. Cat(A, w) \in Seq(Tx) /\ Cat(H, p) \in Seq(Tx)  BY <1>3, CatType
<1>5. CASE Rest(cm, tx, sock) \/ Make(cm, tx, sock)
  <2>1. s.buf = <<>> /\ s.net = <<>> /\ w = None0  BY <1>5 DEF Rest, Make, Still, w, None0
  <2>2. A = None0
    <3>1. <<>> \in Seq(Piece)  BY EmptySeq
    <3>2. <<>> \o <<>> = <<>>  BY <3>1, ConcatEmptySeq
    <3> QED BY <2>1, <3>2, NoHeads DEF A, None0
  <2>3. Cat(A, w) = None0  BY <1>3, <2>1, <2>2, CatNone
  <2>4. IsPrefix(None0, Cat(None0, Cat(H, p)))
    <3>1. None0 \in Seq(Tx)  BY EmptySeq DEF None0
    <3> QED BY <1>4, <3>1, BeginsWith
  <2>5. Cat(None0, Cat(H, p)) = Cat(H, p)  BY <1>4, CatNone
  <2> QED BY <2>3, <2>4, <2>5
<1>6. ASSUME NEW h \in Tx \cup {None}, Run(cm, tx, sock, h) PROVE IsPrefix(Cat(A, w), Cat(H, p))
  <2>1. Line(A, w, S, q) = Cat(H, p)
    <3>1. Answers(c, x, s)  BY <1>6 DEF Run, Loose
    <3> QED BY <3>1, AnswersLine DEF A, w, S, q, H, p
  <2>2. Cat(S, q) \in Seq(Tx)  BY <1>3, CatType
  <2>3. Cat(Cat(Cat(A, w), S), q) = Cat(Cat(A, w), Cat(S, q))  BY <1>3, <1>4, CatAssociative
  <2>4. IsPrefix(Cat(A, w), Cat(Cat(A, w), Cat(S, q)))  BY <1>4, <2>2, BeginsWith
  <2> QED BY <2>1, <2>3, <2>4 DEF Line
<1> QED BY <1>1, <1>5, <1>6 DEF Fit

-----------------------------------------------------------------------------
(* The manager stays in order                                              *)

\* A manager just made is in order.
LEMMA InitOrdered == ASSUME Init PROVE Ordered(world)
<1>1. Good(world)  BY InitGood
<1>2. /\ cm.state = "EIdle" /\ cm.flags = {} /\ Vacant(cm) /\ ~cm.excess
      /\ panic = {} /\ Still(sock) /\ ~sock.hup
  BY DEF Init, Vacant, Still, ClosedSocket
<1>3. \A t \in Tx : /\ Off(tx[t]) /\ Silent(tx[t]) /\ tx[t].len = "none"
                    /\ tx[t].pipeline = (t \in Pipelinable)
  BY DEF Init, NewTransaction, Off, Silent
<1>4. Sound(world)  BY <1>2, <1>3 DEF Sound, world
<1>5. Rest(cm, tx, sock)  BY <1>2, <1>3 DEF Rest, Resting, Vacant, PendingWrite
<1> QED BY <1>1, <1>4, <1>5 DEF Ordered, Fit, world

\* Every step keeps the manager in order: one case for each action of Next.
LEMMA NextOrdered == ASSUME Calm, Ordered(world), [Next]_vars PROVE Ordered(world)'
<1>1. Good(world)'  BY NextGood DEF Ordered
<1>2. CASE Streams
  BY <1>1, <1>2, ConnectionMadeOrder, SecureClientCnfOrder, SendDataCnfOrder, ReceivedDataOrder DEF Streams
<1>3. CASE ServerReply  BY <1>1, <1>3, ServerReplyOrder
<1>4. CASE Losses
  <2>1. ~StreamFails  BY DEF StreamFails, Calm
  <2> QED BY <1>1, <1>4, <2>1, ConnectFailsOrder, ServerClosesOrder DEF Losses
<1>5. ASSUME NEW t \in Tx, Submit(t) \/ Cancel(t) \/ Parties(t) \/ ParserFails(t)
      PROVE  Ordered(world)'
  <2>1. ~ParserFails(t)  BY DEF ParserFails, Calm
  <2>2. CASE Submit(t)  BY <1>1, <2>2, SubmitOrder
  <2>3. CASE Cancel(t)  BY <1>1, <2>3, CancelOrder
  <2>4. CASE ComposerRun(t)  BY <1>1, <2>4, ComposerRunOrder
  <2>5. CASE NotifyNewRequestBodyPart(t)  BY <1>1, <2>5, BodyPartOrder
  <2>6. CASE ParserRun(t)  BY <1>1, <2>6, ParserRunOrder
  <2>7. CASE ReleaseData(t)  BY <1>1, <2>7, ReleaseDataOrder
  <2> QED BY <1>5, <2>1, <2>2, <2>3, <2>4, <2>5, <2>6, <2>7 DEF Parties
<1>6. CASE UNCHANGED vars
  <2>1. world' = world /\ cm' = cm /\ tx' = tx /\ sock' = sock  BY <1>6 DEF vars, world
  <2>2. Ordered(world')  BY <2>1
  <2> QED BY <2>2, <1>1, <2>1 DEF Ordered, Sound
<1> QED BY <1>2, <1>3, <1>4, <1>5, <1>6 DEF Next

\* The invariant of the manager.
LEMMA StaysOrdered == ASSUME Calm PROVE Spec => []Ordered(world)
<1>1. Init => Ordered(world)  BY InitOrdered
<1>2. Ordered(world) /\ [Next]_vars => Ordered(world)'  BY NextOrdered
<1> QED BY <1>1, <1>2, PTL DEF Spec

\* For any set of transactions, whichever of them may be pipelined, need TLS, have bodies
\* or must close their connection, however many may be pipelined and however often each
\* is submitted: while nothing fails but the connecting, and the server closes only after
\* a response that said so (Calm), the manager never calls one of its panics.  They stand
\* in handlers of another object's event (the input stream's, a parser's, the filter's
\* that submits), where the state was right when the event was asked for and may have
\* changed since.
THEOREM NeverPanics == ASSUME Calm PROVE Spec => []NoPanic
<1>1. Ordered(world) => NoPanic  BY DEF Ordered, Sound, NoPanic, world
<1> QED BY <1>1, StaysOrdered, PTL

\* Under the same hypothesis the parser at work reads its own response: the piece at the
\* head of the received buffer, which the manager gives to the transaction at the head of
\* the awaited ones without looking whose it is, is a piece of that transaction's answer.
\* However requests are pipelined, held back, taken out and sent again, no client
\* is given the answer to another's request.
THEOREM AnswersMatch == ASSUME Calm PROVE Spec => []ResponseMatch
<1>1. Ordered(world) => ResponseMatch  BY MatchOrder
<1> QED BY <1>1, StaysOrdered, PTL

\* Under the same hypothesis every transaction that a submission made active is known to
\* the manager or has its complete response with the client, and the manager knows only
\* active ones: no path of loss, cancellation or completion forgets a transaction, which
\* would wait for ever, or keeps one that is over.
THEOREM NobodyForgotten == ASSUME Calm PROVE Spec => []NoOrphan
<1>1. Ordered(world) => NoOrphan  BY NoOrphanOrder
<1> QED BY <1>1, StaysOrdered, PTL

\* Under the same hypothesis the two queues stay in step: the requests held back are the
\* last of those whose response is awaited, and the answers that are on their way are the
\* first of them, in the same order.  It is why AnswersMatch holds.
THEOREM StaysInStep == ASSUME Calm PROVE Spec => []InStep
<1>1. Ordered(world) => InStep  BY AlignedOrder, ExpectedOrder DEF InStep
<1> QED BY <1>1, StaysOrdered, PTL

-----------------------------------------------------------------------------
(* The steps of HttpSubmissions, from statuses a and the line p to statuses *)
(* b and the line q                                                         *)

\* DropFrom, when it leaves everybody his place and when it leaves nobody's.
Drops(a, p, b, q, queue, t) ==
  /\ b \in [Tx -> Statuses]
  /\ \E n \in 0 .. Len(queue) :
       /\ q = SubSeq(queue, 1, n)
       /\ \A i \in 1 .. n : b[queue[i]] = a[queue[i]]
       /\ \A i \in (n + 1) .. Len(queue) : b[queue[i]] \in {"retry", "failed"}
  /\ \A u \in Tx \ {t} : (\A i \in 1 .. Len(queue) : queue[i] # u) => b[u] = a[u]

\* The members of S keep their status, or are told that they are not served.
Same(S, a, b) == \A u \in S : b[u] = a[u]
Told(S, b)    == \A u \in S : b[u] \in {"retry", "failed"}

\* A transaction outside the queue has an outcome of its own and nobody loses a place.
LEMMA DropsNone ==
  ASSUME NEW a, NEW p, NEW b \in [Tx -> Statuses], NEW queue \in Seq(Tx), NEW t \in Tx,
         t \notin ToSet(queue), Same(Tx \ {t}, a, b)
  PROVE  Drops(a, p, b, queue, queue, t)
<1> DEFINE n == Len(queue)
<1>1. n \in Nat /\ SubSeq(queue, 1, n) = queue
  <2>1. n \in Nat  BY LenProperties
  <2> QED BY <2>1, SubSeqFull
<1>2. \A i \in 1 .. n : queue[i] \in Tx /\ queue[i] \in ToSet(queue)
  BY ElementOfSeq, SomeIn
<1>3. \A i \in 1 .. n : b[queue[i]] = a[queue[i]]  BY <1>2 DEF Same
<1> HIDE DEF n
<1>4. n \in 0 .. n /\ \A i \in (n + 1) .. n : FALSE  BY <1>1
<1> QED BY <1>1, <1>3, <1>4 DEF Drops, Same, n

\* Everybody in the queue loses its place: none of it is left and each is told so.
LEMMA DropsAll ==
  ASSUME NEW a, NEW p, NEW b \in [Tx -> Statuses], NEW queue \in Seq(Tx), NEW t \in Tx,
         Told(ToSet(queue), b), Same(Tx \ (ToSet(queue) \cup {t}), a, b)
  PROVE  Drops(a, p, b, None0, queue, t)
<1> DEFINE n == Len(queue)
<1>1. n \in Nat /\ SubSeq(queue, 1, 0) = <<>>
  <2>1. n \in Nat  BY LenProperties
  <2>2. 1 \in Int /\ 0 \in Int /\ 0 < 1  OBVIOUS
  <2> QED BY <2>1, <2>2, SubSeqEmpty
<1>2. \A i \in 1 .. n : queue[i] \in Tx /\ queue[i] \in ToSet(queue)
  BY ElementOfSeq, SomeIn
<1>3. \A i \in 1 .. n : b[queue[i]] \in {"retry", "failed"}  BY <1>2 DEF Told
<1>4. \A u \in Tx \ {t} : (\A i \in 1 .. n : queue[i] # u) => b[u] = a[u]
  <2> SUFFICES ASSUME NEW u \in Tx \ {t}, u \in ToSet(queue) PROVE \E i \in 1 .. n : queue[i] = u
    BY DEF Same
  <2>1. DOMAIN queue = 1 .. n  BY LenProperties
  <2> QED BY <2>1 DEF ToSet
<1> HIDE DEF n
<1>5. 0 \in 0 .. n /\ (\A i \in 1 .. 0 : FALSE) /\ \A i \in (0 + 1) .. n : i \in 1 .. n  BY <1>1
<1> QED BY <1>1, <1>3, <1>4, <1>5 DEF Drops, None0, n

\* The steps, and the ways to take them that the manager has.
Enters(a, p, b, q, t) ==
  a[t] \in {"new", "retry"} /\ b = [a EXCEPT ![t] = "active"] /\ q = Append(p, t)
Replied(a, p, b, q) ==
  p # <<>> /\ Drops(a, p, b, q, Tail(p), Head(p)) /\ b[Head(p)] \in {"active", "completed"}
IsRead(a, p, b, q, t) ==
  /\ a[t] = "active" /\ \A i \in 1 .. Len(p) : p[i] # t
  /\ Drops(a, p, b, q, p, t) /\ b[t] = "completed"
Loses(a, p, b, q) == p # <<>> /\ Drops(a, p, b, q, p, Head(p))
Cancels(a, p, b, q, t) ==
  /\ a[t] = "active"
  /\ \/ Drops(a, p, b, q, p, t) /\ \A i \in 1 .. Len(p) : p[i] # t
     \/ \E i \in 1 .. Len(p) :
          p[i] = t /\ Drops(a, p, b, q, SubSeq(p, 1, i - 1) \o SubSeq(p, i + 1, Len(p)), t)
  /\ b[t] \in {"cancelled", "failed"}
Moved(a, p, b, q) ==
  \/ Replied(a, p, b, q) \/ Loses(a, p, b, q) \/ (a = b /\ p = q)
  \/ \E t \in Tx : Enters(a, p, b, q, t) \/ IsRead(a, p, b, q, t) \/ Cancels(a, p, b, q, t)

LineOf(c) == (IF c.curResp = None THEN <<>> ELSE <<c.curResp>>) \o c.pendResp
StatusOf(x) == [t \in Tx |-> x[t].status]

\* A move of the manager's line and of its outcomes is a step of HttpSubmissions, or a stutter.
LEMMA PromiseMoves ==
  ASSUME Moved(StatusOf(tx), LineOf(cm), StatusOf(tx'), LineOf(cm'))
  PROVE  [Promise!Next]_(Promise!vars)
<1> DEFINE a == StatusOf(tx)
           p == LineOf(cm)
           b == StatusOf(tx')
           q == LineOf(cm')
<1>1. Promise!Answer = Replied(a, p, b, q)
  BY Zenon DEF Promise!Answer, Replied, Promise!DropFrom, Drops, LineOf, StatusOf, Promise!Statuses, Statuses
<1>2. Promise!Lose = Loses(a, p, b, q)
  BY Zenon DEF Promise!Lose, Loses, Promise!DropFrom, Drops, LineOf, StatusOf, Promise!Statuses, Statuses
<1>3. ASSUME NEW t \in Tx PROVE Promise!Submit(t) = Enters(a, p, b, q, t)
  BY Zenon DEF Promise!Submit, Enters, LineOf, StatusOf
<1>4. ASSUME NEW t \in Tx PROVE Promise!Read(t) = IsRead(a, p, b, q, t)
  BY Zenon DEF Promise!Read, IsRead, Promise!DropFrom, Drops, LineOf, StatusOf, Promise!Statuses, Statuses
<1>5. ASSUME NEW t \in Tx PROVE Promise!Cancel(t) = Cancels(a, p, b, q, t)
  BY Zenon DEF Promise!Cancel, Cancels, Promise!DropFrom, Drops, LineOf, StatusOf, Promise!Statuses, Statuses
<1>6. a = b /\ p = q => UNCHANGED Promise!vars  BY Zenon DEF Promise!vars, LineOf, StatusOf
<1> HIDE DEF a, b, p, q
<1>7. Moved(a, p, b, q)  BY DEF a, b, p, q
<1> QED BY <1>1, <1>2, <1>3, <1>4, <1>5, <1>6, <1>7 DEF Moved, Promise!Next

\* The first one is answered.
LEMMA RepliedMoves ==
  ASSUME NEW a, NEW b \in [Tx -> Statuses], NEW q \in Seq(Tx), NEW t \in Tx, t \notin ToSet(q),
         NEW p, p = Cat(One(t), q), Same(Tx \ {t}, a, b), b[t] \in {"active", "completed"}
  PROVE  Moved(a, p, b, q)
<1>1. p # None0 /\ Head(p) = t /\ Tail(p) = q  BY FrontOne
<1>2. Drops(a, p, b, q, q, t)  BY DropsNone
<1> QED BY <1>1, <1>2 DEF Moved, Replied, None0

\* The client has read the rest of an answer.
LEMMA ReadMoves ==
  ASSUME NEW a, NEW b \in [Tx -> Statuses], NEW p \in Seq(Tx), NEW t \in Tx, t \notin ToSet(p),
         a[t] = "active", b[t] = "completed", Same(Tx \ {t}, a, b)
  PROVE  Moved(a, p, b, p)
<1>1. Drops(a, p, b, p, p, t)  BY DropsNone
<1>2. \A i \in 1 .. Len(p) : p[i] # t  BY SomeIn
<1> QED BY <1>1, <1>2 DEF Moved, IsRead

\* The connection is lost.
LEMMA LosesMoves ==
  ASSUME NEW a, NEW b \in [Tx -> Statuses], NEW p \in Seq(Tx), p # None0,
         Told(ToSet(p), b), Same(Tx \ ToSet(p), a, b)
  PROVE  Moved(a, p, b, None0)
<1>1. Head(p) \in Tx /\ Head(p) \in ToSet(p)  BY HeadAndTail DEF None0
<1>2. Same(Tx \ (ToSet(p) \cup {Head(p)}), a, b)  BY DEF Same
<1>3. Drops(a, p, b, None0, p, Head(p))  BY <1>1, <1>2, DropsAll
<1> QED BY <1>3 DEF Moved, Loses, None0

\* The client cancels: its transaction is taken out of the line, or it was the first one
\* and the others must find another connection.
LEMMA CancelsMoves ==
  ASSUME NEW a, NEW b \in [Tx -> Statuses], NEW p \in Seq(Tx), IsInjective(p), NEW t \in Tx,
         t \in ToSet(p), a[t] = "active", b[t] = "cancelled", NEW q,
         \/ q = Without(p, t) /\ Same(Tx \ {t}, a, b)
         \/ q = None0 /\ Told(ToSet(p) \ {t}, b) /\ Same(Tx \ ToSet(p), a, b)
  PROVE  Moved(a, p, b, q)
<1> DEFINE k == CHOOSE i \in DOMAIN p : p[i] = t
           r == SubSeq(p, 1, k - 1) \o SubSeq(p, k + 1, Len(p))
<1>1. k \in 1 .. Len(p) /\ p[k] = t
  <2>1. DOMAIN p = 1 .. Len(p)  BY LenProperties
  <2>2. \E j \in DOMAIN p : p[j] = t  BY DEF ToSet
  <2> QED BY <2>1, <2>2
<1>2. r = Without(p, t)
  <2>1. Contains(p, t)  BY ContainsIs
  <2>2. Without(p, t) = RemoveAt(p, k)  BY <2>1 DEF Without
  <2> HIDE DEF k
  <2> QED BY <2>2 DEF RemoveAt
<1> HIDE DEF r
<1>3. r \in Seq(Tx) /\ ToSet(r) = ToSet(p) \ {t}  BY <1>2, TakenOut
<1>4. Drops(a, p, b, q, r, t)
  <2>1. CASE q = Without(p, t) /\ Same(Tx \ {t}, a, b)
    <3>1. t \notin ToSet(r)  BY <1>3
    <3>2. Drops(a, p, b, r, r, t)  BY <1>3, <2>1, <3>1, DropsNone
    <3> QED BY <1>2, <2>1, <3>2
  <2>2. CASE q = None0 /\ Told(ToSet(p) \ {t}, b) /\ Same(Tx \ ToSet(p), a, b)
    <3>1. Told(ToSet(r), b) /\ Same(Tx \ (ToSet(r) \cup {t}), a, b)  BY <1>3, <2>2 DEF Told, Same
    <3>2. Drops(a, p, b, None0, r, t)  BY <1>3, <3>1, DropsAll
    <3> QED BY <2>2, <3>2
  <2> QED BY <2>1, <2>2
<1>5. Cancels(a, p, b, q, t)
  <2>1. p[k] = t /\ Drops(a, p, b, q, SubSeq(p, 1, k - 1) \o SubSeq(p, k + 1, Len(p)), t)  BY <1>1, <1>4 DEF r
  <2> HIDE DEF k
  <2> QED BY <1>1, <2>1 DEF Cancels
<1> QED BY <1>5 DEF Moved

-----------------------------------------------------------------------------
(* Calls that change neither the line nor an outcome                        *)

Stays(w, v) == LineOf(v.cm) = LineOf(w.cm) /\ \A u \in Tx : v.tx[u].status = w.tx[u].status

\* Stays is transitive, and holds when neither a response place nor a status changes.
LEMMA StaysBoth == ASSUME NEW u, NEW v, NEW w, Stays(u, v), Stays(v, w) PROVE Stays(u, w)
  BY DEF Stays

\* What leaves the queues of responses and the outcomes alone stays.
LEMMA StaysSame ==
  ASSUME NEW w, NEW v, v.cm.curResp = w.cm.curResp, v.cm.pendResp = w.cm.pendResp,
         \A u \in Tx : v.tx[u].status = w.tx[u].status
  PROVE  Stays(w, v)
  BY DEF Stays, LineOf

\* A transaction that changes but for its status.
LEMMA StaysPut ==
  ASSUME NEW w \in World, NEW t \in Tx, NEW r, r.status = w.tx[t].status
  PROVE  Stays(w, Put(w, t, r))
<1> DEFINE v == Put(w, t, r)
<1>1. v.cm = w.cm /\ v.tx[t] = r /\ \A u \in Tx : u # t => v.tx[u] = w.tx[u]  BY PutIs
<1> HIDE DEF v
<1>2. Stays(w, v)  BY <1>1, StaysSame
<1> QED BY <1>2 DEF v

\* The fields of a transaction that are set one by one.
LEMMA StaysFields ==
  ASSUME NEW w \in World, NEW t \in Tx, NEW k
  PROVE  /\ Stays(w, [w EXCEPT !.tx[t].comp = k]) /\ Stays(w, [w EXCEPT !.tx[t].parse = k])
         /\ Stays(w, [w EXCEPT !.tx[t].hold = k]) /\ Stays(w, [w EXCEPT !.tx[t].unread = k])
         /\ Stays(w, [w EXCEPT !.tx[t].msgDone = k])
<1> DEFINE r == w.tx[t]
<1>0. r \in Transaction  BY DEF World
<1>1. /\ [w EXCEPT !.tx[t].comp = k] = Put(w, t, [r EXCEPT !.comp = k])
      /\ [w EXCEPT !.tx[t].parse = k] = Put(w, t, [r EXCEPT !.parse = k])
      /\ [w EXCEPT !.tx[t].hold = k] = Put(w, t, [r EXCEPT !.hold = k])
      /\ [w EXCEPT !.tx[t].unread = k] = Put(w, t, [r EXCEPT !.unread = k])
      /\ [w EXCEPT !.tx[t].msgDone = k] = Put(w, t, [r EXCEPT !.msgDone = k])
  BY DEF Put
<1>2. /\ [r EXCEPT !.comp = k].status = r.status /\ [r EXCEPT !.parse = k].status = r.status
      /\ [r EXCEPT !.hold = k].status = r.status /\ [r EXCEPT !.unread = k].status = r.status
      /\ [r EXCEPT !.msgDone = k].status = r.status
  BY <1>0 DEF Transaction
<1>3. ASSUME NEW q, q.status = r.status PROVE Stays(w, Put(w, t, q))  BY <1>3, StaysPut
<1> HIDE DEF r
<1> QED BY <1>1, <1>2, <1>3

\* A panic moves no one.
LEMMA StaysPanic == ASSUME NEW w \in World, NEW n PROVE Stays(w, Panic(w, n))
<1> DEFINE v == Panic(w, n)
<1>1. v.cm = w.cm /\ v.tx = w.tx  BY DEF Panic, World
<1> HIDE DEF v
<1>2. Stays(w, v)  BY <1>1, StaysSame
<1> QED BY <1>2 DEF v

\* Starting the composer of the current request moves no one.
LEMMA StaysStart == ASSUME NEW w \in World PROVE Stays(w, StartRequest(w))
<1>1. w.cm.curReq = None \/ w.cm.curReq \in Tx  BY DEF World, Manager
<1> QED BY <1>1, StaysPanic, StaysFields DEF StartRequest

\* Nor does telling the composer that its transaction is cancelled,
LEMMA StaysCancelRequest == ASSUME NEW w \in World, NEW t \in Tx PROVE Stays(w, CancelRequest(w, t))
  BY StaysFields DEF CancelRequest

\* nor giving the parser what was read,
LEMMA StaysFeed == ASSUME NEW w \in World, NEW t \in Tx PROVE Stays(w, Feed(w, t))
  BY StaysPanic, StaysFields DEF Feed

\* nor what happens to the socket,
LEMMA StaysSock == ASSUME NEW w \in World, NEW s PROVE Stays(w, [w EXCEPT !.sock = s])
<1> DEFINE v == [w EXCEPT !.sock = s]
<1>1. v.cm = w.cm /\ v.tx = w.tx  BY DEF World
<1> HIDE DEF v
<1>2. Stays(w, v)  BY <1>1, StaysSame
<1> QED BY <1>2 DEF v

\* nor giving the buffer back to the reader,
LEMMA StaysGivenBack == ASSUME NEW w \in World PROVE Stays(w, ReceivedDataRes(w))
<1> DEFINE v == [w EXCEPT !.sock.reader = "read", !.sock.buf = <<>>]
<1>1. v.cm = w.cm /\ v.tx = w.tx  BY DEF World
<1> HIDE DEF v
<1>2. Stays(w, v)  BY <1>1, StaysSame
<1>3. ReceivedDataRes(w) \in {v, Panic(w, "no input stream"), Panic(w, "reader not EPendingAck")}
  BY DEF ReceivedDataRes, v
<1> QED BY <1>2, <1>3, StaysPanic

\* nor writing a request,
LEMMA StaysWrites == ASSUME NEW w \in World, NEW t \in Tx PROVE Stays(w, SendRequestDataL(w, t))
<1> DEFINE v == Writes(w, t)
<1>1. v.cm = w.cm /\ v.tx = w.tx  BY WritesIs
<1>2. SendRequestDataL(w, t) \in {v, Panic(w, "SendRequestDataL: not EConnected"), Panic(w, "writer busy")}
  BY DEF SendRequestDataL, Writes
<1> HIDE DEF v
<1>3. Stays(w, v)  BY <1>1, StaysSame
<1> QED BY <1>2, <1>3, StaysPanic

\* A manager that changes but for its responses.
LEMMA StaysManager ==
  ASSUME NEW w \in World, NEW c, c.curResp = w.cm.curResp, c.pendResp = w.cm.pendResp
  PROVE  Stays(w, [w EXCEPT !.cm = c])
<1> DEFINE v == [w EXCEPT !.cm = c]
<1>1. v.cm = c /\ v.tx = w.tx  BY DEF World
<1> HIDE DEF v
<1>2. Stays(w, v)  BY <1>1, StaysSame
<1> QED BY <1>2 DEF v

\* nor becoming idle,
LEMMA StaysIdle == ASSUME NEW w \in World PROVE Stays(w, SetIdleState(w))
<1> DEFINE c == [w.cm EXCEPT !.state = "EIdle",
                    !.flags = @ \ {"ECannotPipeline", "EPendingWriteInConnectedState"}]
<1>1. SetIdleState(w) = [w EXCEPT !.cm = c]  BY DEF SetIdleState
<1>2. c.curResp = w.cm.curResp /\ c.pendResp = w.cm.pendResp  BY DEF World, Manager
<1> HIDE DEF c
<1> QED BY <1>1, <1>2, StaysManager

\* nor making the connection again,
LEMMA StaysReconnects == ASSUME NEW w \in World PROVE Stays(w, ReconnectSocketL(w))
<1> DEFINE c == [w.cm EXCEPT !.flags = @ \ {"EPendingWriteInConnectedState"},
                             !.connector = TRUE, !.state = "EConnecting"]
<1>1. ReconnectSocketL(w) = [w EXCEPT !.cm = c]  BY DEF ReconnectSocketL
<1>2. c.curResp = w.cm.curResp /\ c.pendResp = w.cm.pendResp  BY DEF World, Manager
<1> HIDE DEF c
<1> QED BY <1>1, <1>2, StaysManager

\* nor starting the handshake.
LEMMA StaysUpgrades == ASSUME NEW w \in World PROVE Stays(w, UpgradeConnectionL(w))
<1> DEFINE c == [w.cm EXCEPT !.state = "EUpgrading"]
<1>1. UpgradeConnectionL(w) = [w EXCEPT !.cm = c]  BY DEF UpgradeConnectionL
<1>2. c.curResp = w.cm.curResp /\ c.pendResp = w.cm.pendResp  BY DEF World, Manager
<1> HIDE DEF c
<1> QED BY <1>1, <1>2, StaysManager

\* RequestComplete() takes the next request to send; the line of responses stays.
LEMMA StaysRequestComplete == ASSUME NEW w \in World PROVE Stays(w, RequestComplete(w))
<1>1. CASE w.cm.state # "EConnected"  BY <1>1, StaysPanic DEF RequestComplete
<1>2. CASE w.cm.state = "EConnected" /\ "EFirstTransaction" \in w.cm.flags
  BY <1>2 DEF RequestComplete, Stays
<1>3. CASE w.cm.state = "EConnected" /\ "EFirstTransaction" \notin w.cm.flags /\ w.cm.pendReq = <<>>
  <2> DEFINE c == [w.cm EXCEPT !.curReq = None]
  <2>1. RequestComplete(w) = [w EXCEPT !.cm = c]  BY <1>3 DEF RequestComplete
  <2>2. c.curResp = w.cm.curResp /\ c.pendResp = w.cm.pendResp  BY DEF World, Manager
  <2> HIDE DEF c
  <2> QED BY <2>1, <2>2, StaysManager
<1>4. CASE w.cm.state = "EConnected" /\ "EFirstTransaction" \notin w.cm.flags /\ w.cm.pendReq # <<>>
  <2> DEFINE c  == [w.cm EXCEPT !.curReq = Head(w.cm.pendReq), !.pendReq = Tail(w.cm.pendReq)]
             w1 == [w EXCEPT !.cm = c]
  <2>1. Head(w.cm.pendReq) \in Tx /\ Tail(w.cm.pendReq) \in Seq(Tx)  BY <1>4 DEF World, Manager
  <2>2. c \in Manager /\ c.curResp = w.cm.curResp /\ c.pendResp = w.cm.pendResp
    BY <2>1 DEF World, Manager
  <2>3. RequestComplete(w) = StartRequest(w1)
    <3>1. w1 = [w EXCEPT !.cm.curReq = Head(w.cm.pendReq), !.cm.pendReq = Tail(@)]  BY DEF World
    <3> QED BY <1>4, <3>1 DEF RequestComplete
  <2> HIDE DEF c
  <2>4. w1 \in World /\ Stays(w, w1)  BY <2>2, StaysManager DEF World
  <2> HIDE DEF w1
  <2>5. Stays(w1, StartRequest(w1))  BY <2>4, StaysStart
  <2> QED BY <2>3, <2>4, <2>5, StaysBoth
<1> QED BY <1>1, <1>2, <1>3, <1>4

\* The composer hears that its data was sent; the line of responses stays.
LEMMA StaysSent == ASSUME NEW w \in World, NEW t \in Tx PROVE Stays(w, RequestDataSent(w, t))
<1>1. RequestDataSent(w, t) \in
        {[RequestComplete(w) EXCEPT !.tx[t].comp = "sent"], [w EXCEPT !.tx[t].comp = "part"],
         [w EXCEPT !.tx[t].comp = "wanted"], [w EXCEPT !.tx[t].comp = "ending"],
         [w EXCEPT !.tx[t].comp = "start"], Panic(w, "composer not EWaitingForRelease")}
  BY DEF RequestDataSent
<1>2. Stays(w, [RequestComplete(w) EXCEPT !.tx[t].comp = "sent"])
  <2> DEFINE u == RequestComplete(w)
  <2>1. Stays(w, u) /\ u \in World  BY StaysRequestComplete, RequestCompleteKeeps DEF Keeps
  <2> HIDE DEF u
  <2>2. Stays(u, [u EXCEPT !.tx[t].comp = "sent"])  BY <2>1, StaysFields
  <2>3. Stays(w, [u EXCEPT !.tx[t].comp = "sent"])  BY <2>1, <2>2, StaysBoth
  <2> QED BY <2>3 DEF u
<1>3. \A k : Stays(w, [w EXCEPT !.tx[t].comp = k])  BY StaysFields
<1> QED BY <1>1, <1>2, <1>3, StaysPanic

\* The line, with the sequence operators of the lemmas.
LEMMA LineIs ==
  ASSUME NEW c \in Manager
  PROVE  /\ LineOf(c) = IF c.curResp = None THEN c.pendResp ELSE Cat(One(c.curResp), c.pendResp)
         /\ LineOf(c) \in Seq(Tx) /\ ToSet(LineOf(c)) = Awaits(c)
<1>1. c.pendResp \in Seq(Tx) /\ c.curResp \in Tx \cup {None} /\ None \notin Tx
  BY ConstantsAssumption DEF Manager
<1>2. CASE c.curResp = None
  <2>1. LineOf(c) = <<>> \o c.pendResp  BY <1>2 DEF LineOf
  <2>2. Cat(None0, c.pendResp) = c.pendResp  BY <1>1, CatNone
  <2>3. LineOf(c) = c.pendResp  BY <2>1, <2>2 DEF Cat, None0
  <2> QED BY <1>1, <1>2, <2>3 DEF Awaits
<1>3. CASE c.curResp # None
  <2>1. LineOf(c) = <<c.curResp>> \o c.pendResp  BY <1>3 DEF LineOf
  <2>2. LineOf(c) = Cat(One(c.curResp), c.pendResp)  BY <2>1 DEF Cat, One
  <2>3. c.curResp \in Tx  BY <1>1, <1>3
  <2>4. PICK f \in Seq(Tx) : f = <<c.curResp>> /\ ToSet(f) = {c.curResp}
    <3>1. <<c.curResp>> \in Seq(Tx) /\ ToSet(<<c.curResp>>) = {c.curResp}  BY <2>3, OneIn
    <3> QED BY <3>1
  <2>5. PICK g \in Seq(Tx) : g = c.pendResp  BY <1>1
  <2>6. f \o g \in Seq(Tx) /\ ToSet(f \o g) = ToSet(f) \cup ToSet(g)  BY BothIn
  <2>7. LineOf(c) = f \o g  BY <2>1, <2>4, <2>5
  <2> QED BY <1>3, <2>2, <2>4, <2>5, <2>6, <2>7 DEF Awaits
<1> QED BY <1>2, <1>3

\* The next one becomes the current one, when there is no current one: the line stays.
LEMMA StaysNext ==
  ASSUME NEW w \in World, w.cm.curResp = None
  PROVE  Stays(w, NextOnConnection(w)) /\ NextOnConnection(w) \in World
<1> DEFINE w1 == IF "EFirstTransaction" \in w.cm.flags
                 THEN [w EXCEPT !.cm.flags = @ \ {"EFirstTransaction"}, !.cm.curReq = None]
                 ELSE w
           d  == w1.cm
<1>1. w1 \in World /\ Stays(w, w1) /\ d.curResp = None /\ d \in Manager
  <2>1. CASE "EFirstTransaction" \in w.cm.flags
    <3> DEFINE c == [w.cm EXCEPT !.flags = @ \ {"EFirstTransaction"}, !.curReq = None]
    <3>1. w1 = [w EXCEPT !.cm = c]
      <4>1. w1 = [w EXCEPT !.cm.flags = @ \ {"EFirstTransaction"}, !.cm.curReq = None]  BY <2>1
      <4> HIDE DEF w1
      <4> QED BY <4>1 DEF World, Manager
    <3>2. c \in Manager /\ c.curResp = None /\ c.curResp = w.cm.curResp /\ c.pendResp = w.cm.pendResp
      BY DEF World, Manager
    <3> HIDE DEF c, w1
    <3>3. Stays(w, w1)  BY <3>1, <3>2, StaysManager
    <3> QED BY <3>1, <3>2, <3>3 DEF World
  <2>2. CASE "EFirstTransaction" \notin w.cm.flags
    <3>1. w1 = w  BY <2>2
    <3> QED BY <3>1 DEF World, Stays
  <2> QED BY <2>1, <2>2
<1> DEFINE r  == IF d.pendResp = <<>> THEN None ELSE Head(d.pendResp)
           q  == IF d.pendResp = <<>> THEN <<>> ELSE Tail(d.pendResp)
           h  == Head(d.pendReq)
           k  == Tail(d.pendReq)
           c  == [d EXCEPT !.curReq = h, !.pendReq = k, !.curResp = r, !.pendResp = q,
                           !.flags = @ \cup {"EPendingWriteInConnectedState"}]
           w2 == [w1 EXCEPT !.cm = c]
           st == IF d.nonPersistent THEN "EClosing" ELSE "EIdleConnected"
           e  == [d EXCEPT !.state = st, !.flags = @ \ {"ECannotPipeline"}]
<1> HIDE DEF w1
<1>2. CASE d.pendReq # <<>>
  <2>1. h \in Tx /\ k \in Seq(Tx) /\ r \in Tx \cup {None}  BY <1>1, <1>2 DEF Manager
  <2>2. q \in Seq(Tx)  BY <1>1 DEF Manager
  <2>3. LineOf(d) = d.pendResp  BY <1>1, LineIs
  <2>4. r # None => d.pendResp = Cat(One(r), q)
    <3>1. d.pendResp \in Seq(Tx)  BY <1>1 DEF Manager
    <3>2. CASE d.pendResp # None0
      <4>1. d.pendResp = Cat(One(Head(d.pendResp)), Tail(d.pendResp))  BY <3>1, <3>2, CatHead
      <4> QED BY <3>2, <4>1 DEF None0
    <3>3. CASE d.pendResp = None0  BY <3>3 DEF None0
    <3> QED BY <3>2, <3>3
  <2>5. r = None => d.pendResp = q
    <3>1. d.pendResp \in Seq(Tx) /\ None \notin Tx  BY <1>1, ConstantsAssumption DEF Manager
    <3>2. d.pendResp # <<>> => Head(d.pendResp) \in Tx  BY <3>1
    <3> QED BY <3>1, <3>2
  <2>6. NextOnConnection(w) = StartRequest(w2)
    <3> HIDE DEF r, q, h, k
    <3>1. w2 = [w1 EXCEPT !.cm.curReq = h, !.cm.pendReq = k, !.cm.curResp = r, !.cm.pendResp = q,
                          !.cm.flags = @ \cup {"EPendingWriteInConnectedState"}]
      BY <1>1 DEF World
    <3> HIDE DEF c, w2
    <3> QED BY <1>2, <3>1 DEF NextOnConnection, w1, r, q, h, k
  <2> HIDE DEF r, q, h, k
  <2>7. c \in Manager /\ c.curResp = r /\ c.pendResp = q
    BY <1>1, <2>1, <2>2 DEF Manager, Flags
  <2> HIDE DEF c
  <2>8. LineOf(c) = LineOf(d)  BY <2>3, <2>4, <2>5, <2>7, LineIs
  <2>9. w2 \in World /\ w2.cm = c /\ w2.tx = w1.tx  BY <1>1, <2>7 DEF World
  <2> HIDE DEF w2
  <2>10. Stays(w1, w2)  BY <2>8, <2>9 DEF Stays
  <2>11. Stays(w2, StartRequest(w2)) /\ StartRequest(w2) \in World
    BY <2>9, StaysStart, StartRequestKeeps DEF Keeps
  <2>12. Stays(w, w2)  BY <1>1, <2>10, StaysBoth
  <2>13. Stays(w, StartRequest(w2))  BY <2>11, <2>12, StaysBoth
  <2> QED BY <2>6, <2>11, <2>13
<1>3. CASE d.pendReq = <<>> /\ d.nonPersistent /\ d.pendResp # <<>>
  <2>1. NextOnConnection(w) = Panic(w1, "ResponseDataParsed: pending responses")
    BY <1>3 DEF NextOnConnection, w1
  <2>2. Stays(w1, NextOnConnection(w))  BY <1>1, <2>1, StaysPanic
  <2>3. Keeps(w1, NextOnConnection(w))  BY <1>1, <2>1, PanicKeeps DEF Assertions
  <2>4. Stays(w, NextOnConnection(w))  BY <1>1, <2>2, StaysBoth
  <2> QED BY <2>3, <2>4 DEF Keeps
<1>4. CASE d.pendReq = <<>> /\ ~(d.nonPersistent /\ d.pendResp # <<>>)
  <2> DEFINE v == [w1 EXCEPT !.cm = e]
  <2>1. NextOnConnection(w) = v
    <3>1. NextOnConnection(w) = [w1 EXCEPT !.cm.state = st, !.cm.flags = @ \ {"ECannotPipeline"}]
      BY <1>4 DEF NextOnConnection, w1
    <3> HIDE DEF st
    <3> QED BY <1>1, <3>1 DEF World, Manager
  <2>2. e \in Manager /\ e.curResp = d.curResp /\ e.pendResp = d.pendResp
    BY <1>1 DEF Manager, States
  <2> HIDE DEF e
  <2>3. Stays(w1, v)  BY <1>1, <2>2, StaysManager
  <2>4. v \in World  BY <1>1, <2>2 DEF World
  <2> HIDE DEF v
  <2>5. Stays(w, v)  BY <1>1, <2>3, StaysBoth
  <2> QED BY <2>1, <2>4, <2>5
<1> QED BY <1>2, <1>3, <1>4

\* ResponseDataParsed() goes on with what is read or gives the buffer back; the line stays.
LEMMA StaysParsed == ASSUME NEW w \in World PROVE Stays(w, ResponseDataParsed(w))
<1>1. CASE w.cm.state # "EConnected"  BY <1>1, StaysPanic DEF ResponseDataParsed
<1>2. CASE w.cm.state = "EConnected" /\ w.cm.curResp = None
  <2> DEFINE w1 == NextOnConnection(w)
  <2>1. Stays(w, w1) /\ w1 \in World  BY <1>2, StaysNext
  <2>2. ResponseDataParsed(w) = ReceivedDataRes(w1)  BY <1>2 DEF ResponseDataParsed
  <2> HIDE DEF w1
  <2>3. Stays(w1, ReceivedDataRes(w1))  BY <2>1, StaysGivenBack
  <2> QED BY <2>1, <2>2, <2>3, StaysBoth
<1>3. CASE w.cm.state = "EConnected" /\ w.cm.curResp # None /\ w.cm.excess
  <2> DEFINE c  == [w.cm EXCEPT !.excess = FALSE]
             w1 == [w EXCEPT !.cm = c]
  <2>1. w.cm.curResp \in Tx  BY <1>3 DEF World, Manager
  <2>2. c \in Manager /\ c.curResp = w.cm.curResp /\ c.pendResp = w.cm.pendResp  BY DEF World, Manager
  <2>3. ResponseDataParsed(w) = Feed(w1, w.cm.curResp)  BY <1>3 DEF ResponseDataParsed
  <2> HIDE DEF c
  <2>4. Stays(w, w1) /\ w1 \in World  BY <2>2, StaysManager DEF World
  <2> HIDE DEF w1
  <2>5. Stays(w1, Feed(w1, w.cm.curResp))  BY <2>1, <2>4, StaysFeed
  <2> QED BY <2>3, <2>4, <2>5, StaysBoth
<1>4. CASE w.cm.state = "EConnected" /\ w.cm.curResp # None /\ ~w.cm.excess
  BY <1>4, StaysGivenBack DEF ResponseDataParsed
<1> QED BY <1>1, <1>2, <1>3, <1>4

\* The client releases a packet; the line stays.
LEMMA StaysPacket == ASSUME NEW w \in World, NEW t \in Tx PROVE Stays(w, ReleaseDataPacket(w, t))
  BY StaysFields, StaysParsed DEF ReleaseDataPacket

-----------------------------------------------------------------------------
(* The steps that change neither the line nor an outcome                    *)

Advances(c, x, d, y) == Moved(StatusOf(x), LineOf(c), StatusOf(y), LineOf(d))

\* A step that becomes w advances as w does.
LEMMA BecomesAdvances ==
  ASSUME NEW w, Becomes(w), Advances(cm, tx, w.cm, w.tx) PROVE Advances(cm, tx, cm', tx')
<1>1. cm' = w.cm /\ tx' = w.tx  BY DEF Becomes
<1> QED BY <1>1

\* A step that becomes w, in which the line and the outcomes stay, advances.
LEMMA BecomesStays ==
  ASSUME NEW w, Becomes(w), Stays(world, w) PROVE Advances(cm, tx, cm', tx')
<1>1. LineOf(w.cm) = LineOf(cm) /\ \A u \in Tx : w.tx[u].status = tx[u].status
  BY WorldIs DEF Stays
<1>2. StatusOf(w.tx) = StatusOf(tx)  BY <1>1 DEF StatusOf
<1>3. Advances(cm, tx, w.cm, w.tx)  BY <1>1, <1>2 DEF Advances, Moved
<1> QED BY <1>3, BecomesAdvances

\* The connection is made: the line and the outcomes stay.
LEMMA MadeMoves ==
  ASSUME world \in World, ConnectionMade PROVE Advances(cm, tx, cm', tx')
<1> DEFINE s  == [ClosedSocket EXCEPT !.open = TRUE]
           c  == [world.cm EXCEPT !.connector = FALSE]
           d  == [world.cm EXCEPT !.connector = FALSE, !.state = "EConnected"]
           w1 == [world EXCEPT !.cm = c, !.sock = s]
           w2 == [world EXCEPT !.cm = d, !.sock = s]
<1>1. s \in Socket  BY ClosedType
<1>2. c \in Manager /\ c.curResp = world.cm.curResp /\ c.pendResp = world.cm.pendResp  BY DEF World, Manager
<1>3. d \in Manager /\ d.curResp = world.cm.curResp /\ d.pendResp = world.cm.pendResp
  BY DEF World, Manager, States
<1>4. ConnectionMadeL(world)
        \in {Panic(w1, "no current request"), UpgradeConnectionL(w1), StartRequest(w2)}
  <2> DEFINE a == [world EXCEPT !.cm.connector = FALSE, !.sock = [ClosedSocket EXCEPT !.open = TRUE]]
             b == [a EXCEPT !.cm.state = "EConnected"]
  <2>1. ConnectionMadeL(world) \in {Panic(a, "no current request"), UpgradeConnectionL(a), StartRequest(b)}
    BY DEF ConnectionMadeL
  <2>2. a = w1  BY DEF World, Manager
  <2>3. b = w2  BY DEF World, Manager
  <2> HIDE DEF a, b, w1, w2
  <2> QED BY <2>1, <2>2, <2>3
<1> HIDE DEF s, c, d
<1>5. w1 \in World /\ w1.cm = c /\ w1.tx = world.tx  BY <1>1, <1>2 DEF World
<1>6. w2 \in World /\ w2.cm = d /\ w2.tx = world.tx  BY <1>1, <1>3 DEF World
<1> HIDE DEF w1, w2
<1>7. Stays(world, w1) /\ Stays(world, w2)  BY <1>2, <1>3, <1>5, <1>6, StaysSame
<1>8. Stays(world, Panic(w1, "no current request"))
  <2>1. Stays(w1, Panic(w1, "no current request"))  BY <1>5, StaysPanic
  <2> QED BY <1>7, <2>1, StaysBoth
<1>9. Stays(world, UpgradeConnectionL(w1))
  <2>1. Stays(w1, UpgradeConnectionL(w1))  BY <1>5, StaysUpgrades
  <2> QED BY <1>7, <2>1, StaysBoth
<1>10. Stays(world, StartRequest(w2))
  <2>1. Stays(w2, StartRequest(w2))  BY <1>6, StaysStart
  <2> QED BY <1>7, <2>1, StaysBoth
<1>11. Stays(world, ConnectionMadeL(world))  BY <1>4, <1>8, <1>9, <1>10
<1>12. Becomes(ConnectionMadeL(world))  BY DEF ConnectionMade
<1> QED BY <1>11, <1>12, BecomesStays

\* The handshake is over: they stay.
LEMMA HandshakeMoves ==
  ASSUME world \in World, SecureClientCnf PROVE Advances(cm, tx, cm', tx')
<1> DEFINE c == [world.cm EXCEPT !.secureRetry = FALSE, !.state = "EConnected"]
           w == [world EXCEPT !.cm = c]
<1>1. c \in Manager /\ c.curResp = world.cm.curResp /\ c.pendResp = world.cm.pendResp
  BY DEF World, Manager, States
<1>2. Becomes(StartRequest(w))
  <2>1. w = [world EXCEPT !.cm.secureRetry = FALSE, !.cm.state = "EConnected"]  BY DEF World, Manager
  <2> HIDE DEF w
  <2> QED BY <2>1 DEF SecureClientCnf
<1> HIDE DEF c
<1>3. Stays(world, w) /\ w \in World  BY <1>1, StaysManager DEF World
<1> HIDE DEF w
<1>4. Stays(w, StartRequest(w))  BY <1>3, StaysStart
<1>5. Stays(world, StartRequest(w))  BY <1>3, <1>4, StaysBoth
<1> QED BY <1>2, <1>5, BecomesStays

\* The server's answers are only on their way.
LEMMA ReplyMoves == ASSUME ServerReply PROVE Advances(cm, tx, cm', tx')
<1>1. cm' = cm /\ tx' = tx  BY DEF ServerReply
<1> QED BY <1>1 DEF Advances, Moved

\* Data is read from the socket: they stay until a parser works on it.
LEMMA DataMoves ==
  ASSUME world \in World, ReceivedDataIndL PROVE Advances(cm, tx, cm', tx')
<1>1. PICK n \in 1 .. Len(sock.net) :
        LET w == Reads(world, SubSeq(sock.net, 1, n), SubSeq(sock.net, n + 1, Len(sock.net)))
        IN  Becomes(IF cm.curResp = None THEN ReceivedDataRes(w) ELSE Feed(w, cm.curResp))
  <2>1. PICK n \in 1 .. Len(sock.net) :
          LET w == [world EXCEPT !.sock.reader = "ack", !.sock.buf = SubSeq(sock.net, 1, n),
                                 !.sock.net = SubSeq(@, n + 1, Len(@))]
          IN  Becomes(IF cm.curResp = None THEN ReceivedDataRes(w) ELSE Feed(w, cm.curResp))
    BY Zenon DEF ReceivedDataIndL
  <2>2. [world EXCEPT !.sock.reader = "ack", !.sock.buf = SubSeq(sock.net, 1, n),
                      !.sock.net = SubSeq(@, n + 1, Len(@))]
          = Reads(world, SubSeq(sock.net, 1, n), SubSeq(sock.net, n + 1, Len(sock.net)))
    BY WorldIs DEF Reads, World, Socket
  <2> QED BY <2>1, <2>2
<1> DEFINE got == SubSeq(sock.net, 1, n)
           rest == SubSeq(sock.net, n + 1, Len(sock.net))
           w == Reads(world, got, rest)
           v == IF cm.curResp = None THEN ReceivedDataRes(w) ELSE Feed(w, cm.curResp)
<1>2. Becomes(v)  BY <1>1
<1>3. got \in Seq(Piece) /\ rest \in Seq(Piece)
  <2>1. PICK P \in Seq(Piece) : P = sock.net  BY WorldIs DEF World, Socket
  <2>2. n \in 1 .. Len(P)  BY <2>1
  <2>3. Divides(P, SubSeq(P, 1, n), SubSeq(P, n + 1, Len(P)))  BY <2>2, ReadPart
  <2> QED BY <2>1, <2>3 DEF Divides
<1> HIDE DEF got, rest
<1>4. w \in World /\ w.cm = world.cm /\ w.tx = world.tx  BY <1>3, ReadsIs
<1> HIDE DEF w
<1>5. Stays(world, w)  BY <1>4, StaysSame
<1>6. Stays(w, v)
  <2>1. cm.curResp # None => cm.curResp \in Tx  BY WorldIs DEF World, Manager
  <2> QED BY <1>4, <2>1, StaysGivenBack, StaysFeed
<1> HIDE DEF v
<1>7. Stays(world, v)  BY <1>5, <1>6, StaysBoth
<1> QED BY <1>2, <1>7, BecomesStays

\* The client supplies a part of the body of its request: they stay.
LEMMA BodyPartMoves ==
  ASSUME world \in World, NEW t \in Tx, NotifyNewRequestBodyPart(t) PROVE Advances(cm, tx, cm', tx')
<1>1. Becomes([world EXCEPT !.tx[t].comp = "last"])  BY DEF NotifyNewRequestBodyPart
<1>2. Stays(world, [world EXCEPT !.tx[t].comp = "last"])  BY StaysFields
<1> QED BY <1>1, <1>2, BecomesStays

\* A composer hands over its data.
LEMMA StaysHandOver ==
  ASSUME NEW w \in World, NEW t \in Tx, NEW k \in ComposerStates
  PROVE  LET v == SendRequestDataL([w EXCEPT !.tx[t].comp = k], t) IN Stays(w, v) /\ v \in World
<1> DEFINE u == [w EXCEPT !.tx[t].comp = k]
           v == SendRequestDataL(u, t)
<1>1. Stays(w, u) /\ u \in World  BY StaysFields, ComposerKeeps DEF Keeps
<1> HIDE DEF u
<1>2. Stays(u, v) /\ v \in World  BY <1>1, StaysWrites, SendRequestDataKeeps DEF Keeps
<1> HIDE DEF v
<1>3. Stays(w, v)  BY <1>1, <1>2, StaysBoth
<1> QED BY <1>2, <1>3 DEF v, u

\* A composer runs: they stay, whichever part of its request it sends.
LEMMA ComposerMoves ==
  ASSUME world \in World, NEW t \in Tx, ComposerRun(t) PROVE Advances(cm, tx, cm', tx')
<1> DEFINE h == SendRequestDataL([world EXCEPT !.tx[t].comp = "headers"], t)
           p == SendRequestDataL([world EXCEPT !.tx[t].comp = "partSent"], t)
           l == SendRequestDataL([world EXCEPT !.tx[t].comp = "lastSent"], t)
           e == [RequestComplete(world) EXCEPT !.tx[t].comp = "idle"]
<1>1. Stays(world, h) /\ h \in World  BY StaysHandOver DEF ComposerStates
<1>2. Stays(world, p) /\ p \in World  BY StaysHandOver DEF ComposerStates
<1>3. Stays(world, l) /\ l \in World  BY StaysHandOver DEF ComposerStates
<1>4. Stays(world, e)
  <2> DEFINE u == RequestComplete(world)
  <2>1. Stays(world, u) /\ u \in World  BY StaysRequestComplete, RequestCompleteKeeps DEF Keeps
  <2>2. e = [u EXCEPT !.tx[t].comp = "idle"]  OBVIOUS
  <2> HIDE DEF u, e
  <2>3. Stays(u, e)  BY <2>1, <2>2, StaysFields
  <2> QED BY <2>1, <2>3, StaysBoth
<1>5. \/ Becomes(IF sock.hup THEN h
                 ELSE [h EXCEPT !.sock.wire = Append(@, t),
                                !.sock.sent = IF t \in HasBody THEN @ ELSE @ \cup {t}])
      \/ Becomes(p)
      \/ Becomes([l EXCEPT !.sock.sent = IF Contains(l.sock.wire, t) THEN @ \cup {t} ELSE @])
      \/ Becomes(e)
  BY Zenon DEF ComposerRun
<1> HIDE DEF h, p, l, e
<1>6. CASE Becomes(IF sock.hup THEN h
                 ELSE [h EXCEPT !.sock.wire = Append(@, t),
                                !.sock.sent = IF t \in HasBody THEN @ ELSE @ \cup {t}])
  <2> DEFINE v == IF sock.hup THEN h
                 ELSE [h EXCEPT !.sock.wire = Append(@, t),
                                !.sock.sent = IF t \in HasBody THEN @ ELSE @ \cup {t}]
  <2>1. v.cm = h.cm /\ v.tx = h.tx  BY <1>1 DEF World
  <2>2. Becomes(v)  BY <1>6
  <2> HIDE DEF v
  <2>3. Stays(world, v)  BY <1>1, <2>1 DEF Stays
  <2> QED BY <2>2, <2>3, BecomesStays
<1>7. CASE Becomes(p)  BY <1>2, <1>7, BecomesStays
<1>8. CASE Becomes([l EXCEPT !.sock.sent = IF Contains(l.sock.wire, t) THEN @ \cup {t} ELSE @])
  <2> DEFINE v == [l EXCEPT !.sock.sent = IF Contains(l.sock.wire, t) THEN @ \cup {t} ELSE @]
  <2>1. v.cm = l.cm /\ v.tx = l.tx  BY <1>3 DEF World
  <2>2. Becomes(v)  BY <1>8
  <2> HIDE DEF v
  <2>3. Stays(world, v)  BY <1>3, <2>1 DEF Stays
  <2> QED BY <2>2, <2>3, BecomesStays
<1>9. CASE Becomes(e)  BY <1>4, <1>9, BecomesStays
<1> QED BY <1>5, <1>6, <1>7, <1>8, <1>9

\* What was written has gone: they stay, whoever wrote it.
LEMMA SentMoves ==
  ASSUME world \in World, SendDataCnf PROVE Advances(cm, tx, cm', tx')
<1> DEFINE w  == [world EXCEPT !.sock.writer = None]
           w1 == [w EXCEPT !.cm.flags = @ \ {"EDiscardSndDataCnf"}]
           w2 == [w1 EXCEPT !.cm.curReq = None]
           w3 == RequestDataSent(w, cm.curReq)
           w4 == [w3 EXCEPT !.cm.flags = @ \ {"EPendingWriteInConnectedState"}]
<1>1. \/ Becomes(RequestComplete(w1)) \/ Becomes(w2) \/ Becomes(w)
      \/ cm.curReq # None /\ Becomes(w4)
  BY DEF SendDataCnf
<1>2. w \in World /\ w.cm = world.cm /\ w.tx = world.tx  BY DEF World, Socket
<1> HIDE DEF w
<1>3. Stays(world, w)  BY <1>2, StaysSame
<1>4. w1 \in World /\ w1.cm.curResp = w.cm.curResp /\ w1.cm.pendResp = w.cm.pendResp /\ w1.tx = w.tx
  BY <1>2 DEF World, Manager
<1> HIDE DEF w1
<1>5. Stays(w, w1)  BY <1>4, StaysSame
<1>6. Stays(world, w1)  BY <1>3, <1>5, StaysBoth
<1>7. Stays(world, RequestComplete(w1))
  <2>1. Stays(w1, RequestComplete(w1))  BY <1>4, StaysRequestComplete
  <2> QED BY <1>6, <2>1, StaysBoth
<1>8. Stays(world, w2)
  <2>1. w2.cm.curResp = w1.cm.curResp /\ w2.cm.pendResp = w1.cm.pendResp /\ w2.tx = w1.tx
    BY <1>4 DEF World, Manager
  <2> HIDE DEF w2
  <2>2. Stays(w1, w2)  BY <2>1, StaysSame
  <2> QED BY <1>6, <2>2, StaysBoth
<1>9. cm.curReq # None => Stays(world, w4)
  <2> SUFFICES ASSUME cm.curReq # None PROVE Stays(world, w4)  OBVIOUS
  <2>1. cm.curReq \in Tx  BY WorldIs DEF World, Manager
  <2>2. Stays(w, w3) /\ w3 \in World  BY <1>2, <2>1, StaysSent, RequestDataSentKeeps DEF Keeps
  <2> HIDE DEF w3
  <2>3. w4.cm.curResp = w3.cm.curResp /\ w4.cm.pendResp = w3.cm.pendResp /\ w4.tx = w3.tx
    BY <2>2 DEF World, Manager
  <2> HIDE DEF w4
  <2>4. Stays(w3, w4)  BY <2>3, StaysSame
  <2>5. Stays(world, w3)  BY <1>3, <2>2, StaysBoth
  <2> QED BY <2>4, <2>5, StaysBoth
<1> HIDE DEF w2, w4
<1> QED BY <1>1, <1>3, <1>7, <1>8, <1>9, BecomesStays

\* Stays, for the line and the statuses as a whole.
LEMMA StaysIs ==
  ASSUME NEW w, NEW v, Stays(w, v)
  PROVE  LineOf(v.cm) = LineOf(w.cm) /\ StatusOf(v.tx) = StatusOf(w.tx)
  BY DEF Stays, StatusOf

\* A step may be followed, or preceded, by calls that change nothing.
LEMMA AdvancesThenStays ==
  ASSUME NEW c, NEW x, NEW g, NEW v, Advances(c, x, g.cm, g.tx), Stays(g, v)
  PROVE  Advances(c, x, v.cm, v.tx)
<1>1. LineOf(v.cm) = LineOf(g.cm) /\ StatusOf(v.tx) = StatusOf(g.tx)  BY StaysIs
<1> QED BY <1>1 DEF Advances

\* A part of a step that stays does not disturb the part that follows.
LEMMA StaysThenAdvances ==
  ASSUME NEW w, NEW g, NEW d, NEW y, Stays(w, g), Advances(g.cm, g.tx, d, y)
  PROVE  Advances(w.cm, w.tx, d, y)
<1>1. LineOf(g.cm) = LineOf(w.cm) /\ StatusOf(g.tx) = StatusOf(w.tx)  BY StaysIs
<1> QED BY <1>1 DEF Advances

\* The statuses of a world.
LEMMA StatusesAre ==
  ASSUME NEW w \in World
  PROVE  StatusOf(w.tx) \in [Tx -> Statuses] /\ \A u \in Tx : StatusOf(w.tx)[u] = w.tx[u].status
  BY DEF StatusOf, World, Transaction

\* A step that keeps the record of the other transactions keeps their outcomes.
LEMMA OthersSame ==
  ASSUME NEW x, NEW y, NEW t \in Tx, Others(x, y, t)
  PROVE  Same(Tx \ {t}, StatusOf(x), StatusOf(y))
  BY DEF Others, Same, StatusOf

\* A piece of an answer changes nothing for the client.
LEMMA PieceMoves ==
  ASSUME NEW w \in World, Sound(w), NEW c, c = w.cm, NEW x, x = w.tx, NEW s, s = w.sock,
         Fit(c, x, s), Typed(c, x, s), s.open, NEW t \in Tx,
         x[t].parse = "run", s.buf # <<>>, NEW p, p = Head(s.buf), x[t].hdr = (p.part = "tail"),
         NEW v, v = IF x[t].hdr THEN ParseTail(w, t) ELSE ParseHead(w, t, p)
  PROVE  Stays(w, v)
<1>1. PICK r, b, i : Slotted(w, v, t, r, b, i) /\ x[t].status = "active" /\ r.status = "active"
  BY PieceSlotted
<1>2. v.cm = w.cm /\ Others(w.tx, v.tx, t) /\ v.tx[t].status = w.tx[t].status  BY <1>1 DEF Slotted
<1> QED BY <1>2, StaysSame DEF Others

\* A complete message: the first of the line is answered.
LEMMA CompleteMoves ==
  ASSUME NEW w \in World, Sound(w), NEW t \in Tx, Fit(w.cm, w.tx, w.sock), w.sock.open, w.tx[t].parse = "end"
  PROVE  LET v == MessageCompleteL(w, t) IN Advances(w.cm, w.tx, v.cm, v.tx)
<1>1. PICK g, q :
         /\ MessageCompleteL(w, t) = ReleaseDataPacket(g, t)
         /\ Run(w.cm, w.tx, w.sock, None) /\ t = w.cm.curResp
         /\ g \in World /\ Completes(w.cm, g.cm, w.sock.buf)
         /\ Others(w.tx, g.tx, t) /\ g.tx[t].status \in {"active", "completed"}
  <2>1. PICK g, q :
         /\ MessageCompleteL(w, t) = ReleaseDataPacket(g, t)
         /\ Run(w.cm, w.tx, w.sock, None) /\ t = w.cm.curResp
         /\ g \in World /\ Completes(w.cm, g.cm, w.sock.buf)
         /\ Others(w.tx, g.tx, t) /\ g.tx[t] = q
         /\ q.status = (IF w.tx[t].unread THEN "active" ELSE "completed")
    BY CompleteIs
  <2>2. g.tx[t].status \in {"active", "completed"}  BY <2>1
  <2> QED BY <2>1, <2>2
<1> DEFINE c == w.cm
           d == g.cm
           p == LineOf(c)
           e == c.pendResp
           a == StatusOf(w.tx)
           b == StatusOf(g.tx)
<1>2. c \in Manager /\ d \in Manager /\ e \in Seq(Tx) /\ t # None
  BY <1>1, ConstantsAssumption DEF World, Manager
<1>3. t \notin ToSet(e)  BY <1>1 DEF Run, Loose, Queues
<1>4. p = Cat(One(t), e)
  <2> HIDE DEF c
  <2>1. LineOf(c) = IF c.curResp = None THEN c.pendResp ELSE Cat(One(c.curResp), c.pendResp)  BY <1>2, LineIs
  <2>2. c.curResp = t  BY <1>1 DEF c
  <2> QED BY <1>2, <2>1, <2>2
<1>5. LineOf(d) = e
  <2>1. Completes(c, d, w.sock.buf)  BY <1>1
  <2> HIDE DEF c, d
  <2>2. LineOf(d) = IF d.curResp = None THEN d.pendResp ELSE Cat(One(d.curResp), d.pendResp)  BY <1>2, LineIs
  <2>3. CASE e = <<>>
    <3>1. d.curResp = None /\ d.pendResp = e  BY <2>1, <2>3 DEF Completes
    <3> QED BY <2>2, <3>1
  <2>4. CASE e # <<>> /\ First(c)
    <3>1. d.curResp = None /\ d.pendResp = e  BY <2>1, <2>4 DEF Completes
    <3> QED BY <2>2, <3>1
  <2>5. CASE e # <<>> /\ ~First(c)
    <3>1. d.curResp = Head(e) /\ d.pendResp = Tail(e)  BY <2>1, <2>5 DEF Completes
    <3>2. PICK f \in Seq(Tx) : f = e /\ f # None0  BY <1>2, <2>5 DEF None0
    <3>3. Head(f) \in Tx /\ f = Cat(One(Head(f)), Tail(f))  BY <3>2, CatHead
    <3>4. d.curResp # None  BY <3>1, <3>2, <3>3, ConstantsAssumption
    <3> QED BY <2>2, <3>1, <3>2, <3>3, <3>4
  <2> QED BY <2>3, <2>4, <2>5
<1>6. /\ b \in [Tx -> Statuses] /\ Same(Tx \ {t}, a, b) /\ b[t] \in {"active", "completed"}
  <2>1. b \in [Tx -> Statuses] /\ b[t] = g.tx[t].status  BY <1>1, StatusesAre
  <2>2. Same(Tx \ {t}, a, b)  BY <1>1, OthersSame
  <2> HIDE DEF a, b
  <2> QED BY <1>1, <2>1, <2>2
<1> HIDE DEF a, b, p, e
<1>7. Moved(a, p, b, e)  BY <1>2, <1>3, <1>4, <1>6, RepliedMoves
<1>8. Advances(w.cm, w.tx, g.cm, g.tx)  BY <1>5, <1>7 DEF Advances, a, b, p
<1>9. Stays(g, ReleaseDataPacket(g, t))  BY <1>1, StaysPacket
<1> DEFINE v == ReleaseDataPacket(g, t)
<1> HIDE DEF c, d
<1>10. Advances(w.cm, w.tx, v.cm, v.tx)
  <2>1. Stays(g, v)  BY <1>9
  <2> HIDE DEF v
  <2> QED BY <1>8, <2>1, AdvancesThenStays
<1> QED BY <1>1, <1>10

\* A parser runs: its transaction is the first of the line, and only its answer is reported.
LEMMA ParserMoves ==
  ASSUME Ordered(world), NEW t \in Tx, ParserRun(t) PROVE Advances(cm, tx, cm', tx')
<1>1. /\ world \in World /\ Sound(world) /\ Fit(cm, tx, sock) /\ Typed(cm, tx, sock)
      /\ world.cm = cm /\ world.tx = tx /\ world.sock = sock /\ world.panic = panic
      /\ sock.open <=> cm.state \in ConnectedStates
  BY OrderedIs
<1>2. tx[t].parse # "wait"  BY DEF ParserRun
<1>3. sock.open
  <2>1. Run(cm, tx, sock, None)  BY <1>1, <1>2, AtParse
  <2> QED BY <1>1, <2>1 DEF Run, Loose, ConnectedStates
<1> DEFINE p == Head(sock.buf)
           v == IF tx[t].hdr THEN ParseTail(world, t) ELSE ParseHead(world, t, p)
           m == MessageCompleteL(world, t)
<1>4. CASE tx[t].parse = "run" /\ sock.buf # <<>> /\ tx[t].hdr = (p.part = "tail") /\ Becomes(v)
  <2> HIDE DEF v
  <2>1. PICK e : e = p  OBVIOUS
  <2>2. v = IF tx[t].hdr THEN ParseTail(world, t) ELSE ParseHead(world, t, e)  BY <2>1 DEF v
  <2>3. e = Head(sock.buf) /\ tx[t].hdr = (e.part = "tail")  BY <1>4, <2>1
  <2> HIDE DEF p
  <2>4. Stays(world, v)  BY <1>1, <1>3, <1>4, <2>2, <2>3, PieceMoves
  <2> QED BY <1>4, <2>4, BecomesStays
<1>5. CASE tx[t].parse = "end" /\ Becomes(m)
  <2>1. Advances(cm, tx, m.cm, m.tx)
    <3>1. ASSUME NEW w \in World, Sound(w), Fit(w.cm, w.tx, w.sock), w.sock.open, w.tx[t].parse = "end"
          PROVE  LET n == MessageCompleteL(w, t) IN Advances(w.cm, w.tx, n.cm, n.tx)
      BY <3>1, CompleteMoves
    <3> QED BY <1>1, <1>3, <1>5, <3>1
  <2> HIDE DEF m
  <2> QED BY <1>5, <2>1, BecomesAdvances
<1> QED BY <1>4, <1>5 DEF ParserRun

\* The last part is read: the client's transaction is complete and the line stays.
LEMMA LastReadMoves ==
  ASSUME NEW w \in World, Sound(w), NEW t \in Tx, Loose(w.cm, w.tx, w.sock, t), w.sock.open,
         w.tx[t].status = "active", w.tx[t].parse = "wait", ~w.tx[t].unread
  PROVE  LET v == TransactionComplete([ResponseDataParsed(w) EXCEPT !.tx[t].hold = FALSE], t)
         IN  Advances(w.cm, w.tx, v.cm, v.tx)
<1> DEFINE v == ResponseDataParsed(w)
           u == [v EXCEPT !.tx[t].hold = FALSE]
           z == TransactionComplete(u, t)
<1>1. Stays(w, v)  BY StaysParsed
<1>2. v \in World /\ v.cm.curReq # t
  <2>1. Finished(v, w.tx, t)  BY Parsed
  <2> HIDE DEF v
  <2> QED BY <2>1 DEF Finished
<1> HIDE DEF v
<1>3. Stays(v, u)  BY <1>2, StaysFields
<1>4. u \in World /\ u.cm = v.cm
  <2> DEFINE k == Released(v.tx[t])
  <2>1. k \in Transaction
    <3>1. v.tx[t] \in Transaction  BY <1>2 DEF World
    <3> QED BY <3>1, ReleasedIs
  <2>2. u = Put(v, t, k)  BY <1>2 DEF Put, World, Released
  <2> HIDE DEF u, k
  <2> QED BY <1>2, <2>1, <2>2, PutOthers
<1> HIDE DEF u
<1>5. Stays(w, u)  BY <1>1, <1>3, StaysBoth
<1>6. u.tx[t].status = "active"  BY <1>5 DEF Stays
<1> DEFINE r == Completed(u.tx[t])
<1>7. z = Put(u, t, r)  BY <1>2, <1>4, <1>6, TransactionCompleteIs
<1>8. r \in Transaction /\ r.status = "completed"
  <2>1. u.tx[t] \in Transaction  BY <1>4 DEF World
  <2> QED BY <2>1, CompletedIs
<1> HIDE DEF r, z
<1>9. z \in World /\ z.cm = u.cm /\ z.tx[t] = r /\ Others(u.tx, z.tx, t)
  BY <1>4, <1>7, <1>8, PutOthers
<1> DEFINE p == LineOf(w.cm)
           a == StatusOf(w.tx)
           b == StatusOf(z.tx)
<1>10. p \in Seq(Tx) /\ t \notin ToSet(p)
  <2>1. PICK c \in Manager : c = w.cm  BY DEF World
  <2>2. LineOf(c) \in Seq(Tx) /\ ToSet(LineOf(c)) = Awaits(c)  BY LineIs
  <2>3. t \notin Awaits(c)  BY <2>1 DEF Loose, Queues
  <2> QED BY <2>1, <2>2, <2>3
<1>11. LineOf(z.cm) = p /\ StatusOf(u.tx) = a  BY <1>5, <1>9, StaysIs
<1>12. b \in [Tx -> Statuses] /\ b[t] = "completed"
  <2>1. b \in [Tx -> Statuses] /\ b[t] = z.tx[t].status  BY <1>9, StatusesAre
  <2> HIDE DEF b
  <2> QED BY <1>8, <1>9, <2>1
<1>13. Same(Tx \ {t}, a, b)
  <2>1. Same(Tx \ {t}, StatusOf(u.tx), StatusOf(z.tx))  BY <1>9, OthersSame
  <2> QED BY <1>11, <2>1
<1>14. a[t] = "active"  BY StatusesAre
<1> HIDE DEF a, b, p
<1>15. Moved(a, p, b, p)  BY <1>10, <1>12, <1>13, <1>14, ReadMoves
<1>16. Advances(w.cm, w.tx, z.cm, z.tx)  BY <1>11, <1>15 DEF Advances, a, b, p
<1> QED BY <1>16 DEF z, u, v

\* The client releases the data it has read: the transaction at the head, at most, is complete.
LEMMA ReleaseDataMoves ==
  ASSUME Ordered(world), NEW t \in Tx, ReleaseData(t) PROVE Advances(cm, tx, cm', tx')
<1>1. /\ world \in World /\ Sound(world) /\ Fit(cm, tx, sock) /\ Typed(cm, tx, sock)
      /\ world.cm = cm /\ world.tx = tx /\ world.sock = sock /\ world.panic = panic
      /\ sock.open <=> cm.state \in ConnectedStates
  BY OrderedIs
<1>2. tx[t].status = "active" /\ tx[t].unread  BY DEF ReleaseData
<1>3. ~Rest(cm, tx, sock) /\ ~Make(cm, tx, sock)
  <2>1. ~Off(tx[t]) /\ ~Waiting(tx[t])  BY <1>2 DEF Off, Waiting
  <2> QED BY <2>1 DEF Rest, Make
<1>4. PICK h \in Tx \cup {None} : Run(cm, tx, sock, h)  BY <1>1, <1>3 DEF Fit
<1>5. Loose(cm, tx, sock, h) /\ cm.state = "EConnected" /\ sock.open /\ Parsers(cm, tx, h)
      /\ (h # None => Held(tx[h]))
  BY <1>1, <1>4 DEF Run, Loose, ConnectedStates
<1>6. t = h \/ (t # h /\ t = cm.curResp /\ Current(tx[t], h))
  <2>1. SUFFICES ASSUME t # h PROVE t = cm.curResp /\ Current(tx[t], h)  OBVIOUS
  <2>2. t \in Awaits(cm) /\ t \notin ToSet(cm.pendResp)  BY <1>2, <1>5, <2>1 DEF Parsers, Off, Waiting
  <2>3. t = cm.curResp /\ t # None  BY <2>2, ConstantsAssumption DEF Awaits
  <2> QED BY <1>5, <2>3 DEF Parsers
<1> DEFINE u == Put(world, t, Read(tx[t]))
           a == IF tx[t].hold THEN [ResponseDataParsed(u) EXCEPT !.tx[t].hold = FALSE] ELSE u
           v == IF tx[t].msgDone THEN TransactionComplete(a, t) ELSE a
<1>7. Becomes(v)
  <2>1. u = [world EXCEPT !.tx[t].unread = FALSE]  BY <1>1 DEF Put, World, Read
  <2> HIDE DEF u
  <2>2. Becomes(LET w1 == [world EXCEPT !.tx[t].unread = FALSE]
                    w2 == IF tx[t].hold THEN [ResponseDataParsed(w1) EXCEPT !.tx[t].hold = FALSE] ELSE w1
                IN  IF tx[t].msgDone THEN TransactionComplete(w2, t) ELSE w2)
    BY Zenon DEF ReleaseData
  <2> QED BY <2>1, <2>2, Zenon
<1> DEFINE q == Read(tx[t])
<1>8. /\ q \in Transaction /\ ~q.unread /\ q.status = "active" /\ q.comp = tx[t].comp /\ q.parse = tx[t].parse
      /\ q.hdr = tx[t].hdr /\ q.len = tx[t].len /\ q.hold = tx[t].hold /\ q.msgDone = tx[t].msgDone
      /\ Tame(tx[t], q)
  <2>1. tx[t] \in Transaction  BY <1>1, Types
  <2> QED BY <1>2, <2>1, ReadIs
<1>9. u = Put(world, t, q)  OBVIOUS
<1> HIDE DEF u, q
<1>10. /\ u \in World /\ u.cm = cm /\ u.sock = sock /\ u.panic = panic /\ u.tx[t] = q
       /\ Others(tx, u.tx, t)
  BY <1>1, <1>8, <1>9, PutOthers
<1>11. Sound(u)
  <2>1. \A i \in Tx : Tame(world.tx[i], u.tx[i])  BY <1>1, <1>8, <1>10 DEF Tame, Others
  <2>2. "EDiscardSndDataCnf" \notin u.cm.flags  BY <1>1, <1>10 DEF Sound
  <2> QED BY <1>1, <1>10, <2>1, <2>2, TameSound
<1>12. Stays(world, u)
  <2>1. q.status = world.tx[t].status  BY <1>1, <1>2, <1>8
  <2> QED BY <1>1, <1>9, <2>1, StaysPut
<1>13. CASE t = h
  <2>1. tx[t].hold /\ tx[t].msgDone /\ tx[t].parse = "wait"
    <3>1. h # None  BY <1>13, ConstantsAssumption
    <3> QED BY <1>5, <1>13, <3>1 DEF Held
  <2>2. v = TransactionComplete([ResponseDataParsed(u) EXCEPT !.tx[t].hold = FALSE], t)  BY <2>1
  <2>3. Loose(cm, u.tx, sock, t)
    <3>1. Typed(cm, u.tx, sock)  BY <1>1, <1>10 DEF Typed, World
    <3>2. u.tx[t].comp = tx[t].comp  BY <1>8, <1>10
    <3>3. Loose(cm, tx, sock, t)  BY <1>5, <1>13
    <3> QED BY <1>1, <1>10, <3>1, <3>2, <3>3, LooseKept
  <2>4. Loose(u.cm, u.tx, u.sock, t) /\ u.sock.open /\ u.tx[t].status = "active" /\ u.tx[t].parse = "wait"
        /\ ~u.tx[t].unread
    BY <1>5, <1>8, <1>10, <2>1, <2>3
  <2>5. LET z == TransactionComplete([ResponseDataParsed(u) EXCEPT !.tx[t].hold = FALSE], t)
        IN  Advances(u.cm, u.tx, z.cm, z.tx)
    BY <1>10, <1>11, <2>4, LastReadMoves
  <2>6. Advances(u.cm, u.tx, v.cm, v.tx)  BY <2>2, <2>5
  <2> HIDE DEF v
  <2>7. Advances(world.cm, world.tx, v.cm, v.tx)  BY <1>12, <2>6, StaysThenAdvances
  <2>8. Advances(cm, tx, v.cm, v.tx)  BY <1>1, <2>7
  <2> QED BY <1>7, <2>8, BecomesAdvances
<1>14. CASE t # h
  <2>1. ~tx[t].hold /\ ~tx[t].msgDone  BY <1>6, <1>14 DEF Current
  <2>2. v = u  BY <2>1
  <2> HIDE DEF v
  <2>3. Stays(world, v)  BY <1>12, <2>2
  <2> QED BY <1>7, <2>3, BecomesStays
<1> QED BY <1>13, <1>14

-----------------------------------------------------------------------------
(* The connection is lost, for the promise                                  *)

\* Those of the line are told, and the line is empty.
LEMMA LossAdvances ==
  ASSUME NEW w \in World, NEW v \in World, Vacant(v.cm), Dropped(Awaits(w.cm), w.tx, v.tx), w.cm.curResp \in Tx
  PROVE  Advances(w.cm, w.tx, v.cm, v.tx)
<1> DEFINE p == LineOf(w.cm)
           a == StatusOf(w.tx)
           b == StatusOf(v.tx)
<1>1. p \in Seq(Tx) /\ ToSet(p) = Awaits(w.cm) /\ p # None0
  <2>1. PICK c \in Manager : c = w.cm  BY DEF World
  <2>2. /\ LineOf(c) = IF c.curResp = None THEN c.pendResp ELSE Cat(One(c.curResp), c.pendResp)
        /\ LineOf(c) \in Seq(Tx) /\ ToSet(LineOf(c)) = Awaits(c)
    BY LineIs
  <2>3. c.curResp \in Tx /\ c.curResp # None /\ c.pendResp \in Seq(Tx)
    BY <2>1, ConstantsAssumption DEF Manager
  <2>4. Cat(One(c.curResp), c.pendResp) # None0  BY <2>3, FrontOne
  <2> QED BY <2>1, <2>2, <2>3, <2>4
<1>2. LineOf(v.cm) = None0
  <2>1. PICK d \in Manager : d = v.cm  BY DEF World
  <2>2. LineOf(d) = IF d.curResp = None THEN d.pendResp ELSE Cat(One(d.curResp), d.pendResp)  BY LineIs
  <2> QED BY <2>1, <2>2 DEF Vacant, None0
<1>3. b \in [Tx -> Statuses] /\ \A u \in Tx : b[u] = v.tx[u].status  BY StatusesAre
<1>4. \A u \in Tx : a[u] = w.tx[u].status  BY StatusesAre
<1>5. Awaits(w.cm) \subseteq Tx
  <2>1. PICK c \in Manager : c = w.cm  BY DEF World
  <2>2. ToSet(c.pendResp) \subseteq Tx  BY SomeIn DEF Manager
  <2> QED BY <2>1, <2>2 DEF Awaits, Manager
<1> HIDE DEF p, a, b
<1>6. Told(ToSet(p), b) /\ Same(Tx \ ToSet(p), a, b)
  BY <1>1, <1>3, <1>4, <1>5 DEF Told, Same, Dropped
<1>7. Moved(a, p, b, None0)  BY <1>1, <1>3, <1>6, LosesMoves
<1> QED BY <1>2, <1>7 DEF Advances, a, b, p

\* The transactions are told, and the manager is idle.
LEMMA ReportAdvances ==
  ASSUME NEW w \in World, Sound(w), Tellable(w.cm, w.tx), NEW err
  PROVE  LET v == SetIdleState(ReportSocketError(w, err)) IN Advances(w.cm, w.tx, v.cm, v.tx)
<1> DEFINE u == ReportSocketError(w, err)
           v == SetIdleState(u)
<1>1. u \in World /\ Vacant(u.cm) /\ Dropped(Awaits(w.cm), w.tx, u.tx)  BY ReportIs
<1> HIDE DEF u
<1>2. Advances(w.cm, w.tx, u.cm, u.tx)  BY <1>1, LossAdvances DEF Tellable
<1>3. Stays(u, v)  BY <1>1, StaysIdle
<1> HIDE DEF v
<1>4. Advances(w.cm, w.tx, v.cm, v.tx)  BY <1>2, <1>3, AdvancesThenStays
<1> QED BY <1>4 DEF u, v

\* A call that stays advances.
LEMMA StaysAdvances == ASSUME NEW w, NEW v, Stays(w, v) PROVE Advances(w.cm, w.tx, v.cm, v.tx)
<1>1. LineOf(v.cm) = LineOf(w.cm) /\ StatusOf(v.tx) = StatusOf(w.tx)  BY StaysIs
<1> QED BY <1>1 DEF Advances, Moved

\* HandleSocketError, when there are no streams any more and no connector.
LEMMA HandledMoves ==
  ASSUME NEW w \in World, Sound(w), NEW s, Typed(w.cm, w.tx, s), Fit(w.cm, w.tx, s), s.reader = "read",
         NEW err, err # "sslAlert", NEW reconnects
  PROVE  LET v == HandleSocketError(w, err, reconnects) IN Advances(w.cm, w.tx, v.cm, v.tx)
<1> DEFINE c == w.cm
           v == HandleSocketError(w, err, reconnects)
           u == CancelRequest(w, c.curReq)
<1>1. /\ c.state = "EClosing" => v = SetIdleState(w)
      /\ c.state # "EClosing" /\ ~(err = "eof" /\ Resends(c)) => v = SetIdleState(ReportSocketError(w, err))
      /\ c.state # "EClosing" /\ err = "eof" /\ Resends(c) =>
           v = IF reconnects THEN ReconnectSocketL(u)
               ELSE SetIdleState(ReportSocketError(NoPendingWrite(u), err))
  BY HandleIs
<1> HIDE DEF v
<1>2. CASE Rest(c, w.tx, s)
  <2>1. Vacant(c) /\ ~Resends(c)  BY <1>2 DEF Rest, Vacant, Resends
  <2>2. ReportSocketError(w, err) = w  BY <2>1 DEF ReportSocketError, Vacant
  <2>3. v = SetIdleState(w)  BY <1>1, <2>1, <2>2
  <2>4. Stays(w, v)  BY <2>3, StaysIdle
  <2> QED BY <2>4, StaysAdvances DEF v
<1>3. ASSUME Tellable(c, w.tx), c.state # "EClosing", ~(err = "eof" /\ Resends(c))
      PROVE  Advances(w.cm, w.tx, v.cm, v.tx)
  <2>1. v = SetIdleState(ReportSocketError(w, err))  BY <1>1, <1>3
  <2> QED BY <1>3, <2>1, ReportAdvances
<1>4. CASE Make(c, w.tx, s)
  <2>1. c.state # "EClosing" /\ ~Resends(c)  BY <1>4 DEF Make, Making, PendingWrite, Resends
  <2>2. Tellable(c, w.tx)  BY <1>4, MakeTellable
  <2> QED BY <1>3, <2>1, <2>2 DEF v
<1>5. ASSUME NEW h \in Tx \cup {None}, Run(c, w.tx, s, h) PROVE Advances(w.cm, w.tx, v.cm, v.tx)
  <2>1. c.state # "EClosing"  BY <1>5 DEF Run, Loose
  <2>2. Tellable(c, w.tx)  BY <1>5, RunTellable
  <2>3. CASE ~(err = "eof" /\ Resends(c))  BY <1>3, <2>1, <2>2, <2>3
  <2>4. CASE err = "eof" /\ Resends(c)
    <3>1. PendingWrite(c)  BY <2>4 DEF Resends, PendingWrite
    <3>2. u \in World /\ Sound(u) /\ u.cm = w.cm /\ Tellable(u.cm, u.tx)
      BY <1>5, <3>1, TakenBack
    <3>3. Stays(w, u)
      <4>1. c.curReq \in Tx  BY <2>4 DEF Resends, World, Manager
      <4> QED BY <4>1, StaysCancelRequest
    <3> HIDE DEF u
    <3>4. CASE reconnects
      <4> DEFINE k == ReconnectSocketL(u)
      <4>1. Stays(u, k)  BY <3>2, StaysReconnects
      <4>2. v = k  BY <1>1, <2>1, <2>4, <3>4
      <4> HIDE DEF k
      <4>3. Stays(w, v)  BY <3>3, <4>1, <4>2, StaysBoth
      <4> QED BY <4>3, StaysAdvances
    <3>5. CASE ~reconnects
      <4> DEFINE n == NoPendingWrite(u)
      <4>1. /\ n.cm = [u.cm EXCEPT !.flags = @ \ {"EPendingWriteInConnectedState"}]
            /\ n.tx = u.tx /\ n.sock = u.sock /\ n.panic = u.panic /\ n \in World
        BY <3>2 DEF NoPendingWrite, World, Manager
      <4> HIDE DEF n
      <4>2. /\ n.cm.curResp = u.cm.curResp /\ n.cm.pendResp = u.cm.pendResp /\ n.cm.curReq = u.cm.curReq
            /\ n.cm.excess = u.cm.excess /\ n.cm.flags \subseteq u.cm.flags
        BY <3>2, <4>1 DEF World, Manager
      <4>3. Sound(n) /\ Tellable(n.cm, n.tx)  BY <3>2, <4>1, <4>2 DEF Sound, Tellable
      <4>4. Stays(u, n)  BY <4>1, <4>2, StaysSame
      <4>5. Stays(w, n)  BY <3>3, <4>4, StaysBoth
      <4> DEFINE z == SetIdleState(ReportSocketError(n, err))
      <4>6. Advances(n.cm, n.tx, z.cm, z.tx)  BY <4>1, <4>3, ReportAdvances
      <4>7. v = z  BY <1>1, <2>1, <2>4, <3>5 DEF n
      <4> HIDE DEF z
      <4>8. Advances(w.cm, w.tx, z.cm, z.tx)  BY <4>5, <4>6, StaysThenAdvances
      <4> QED BY <4>7, <4>8
    <3> QED BY <3>4, <3>5
  <2> QED BY <2>3, <2>4
<1> QED BY <1>2, <1>4, <1>5 DEF Fit, v

\* ServerCloses.
LEMMA ServerClosesMoves == ASSUME Ordered(world), ServerCloses PROVE Advances(cm, tx, cm', tx')
<1>1. PICK reconnects \in Reconnects : Becomes(HandleSocketError(Unplug(world), "eof", reconnects))
  BY DEF ServerCloses, StreamClosed, Unplug
<1> DEFINE u == Unplug(world)
<1>2. /\ world \in World /\ Sound(world) /\ Fit(cm, tx, sock) /\ Typed(cm, tx, sock)
      /\ world.cm = cm /\ world.tx = tx /\ sock.reader = "read"
  BY OrderedIs DEF ServerCloses
<1>3. u \in World /\ u.cm = cm /\ u.tx = tx /\ Sound(u)  BY <1>2, UnplugIs
<1> HIDE DEF u
<1> DEFINE v == HandleSocketError(u, "eof", reconnects)
<1>4. Advances(cm, tx, v.cm, v.tx)
  <2>1. Advances(u.cm, u.tx, v.cm, v.tx)  BY <1>2, <1>3, HandledMoves
  <2> HIDE DEF v
  <2> QED BY <1>3, <2>1
<1>5. Becomes(v)  BY <1>1 DEF u
<1> HIDE DEF v
<1> QED BY <1>4, <1>5, BecomesAdvances

\* ConnectFails.
LEMMA ConnectFailsMoves == ASSUME Ordered(world), ConnectFails PROVE Advances(cm, tx, cm', tx')
<1> DEFINE w == [world EXCEPT !.cm.connector = FALSE]
<1>1. PICK err \in {"fail", "disconnected"}, reconnects \in Reconnects :
        Becomes(HandleConnectError(world, err, reconnects))
  BY DEF ConnectFails
<1>2. /\ world \in World /\ Sound(world) /\ Fit(cm, tx, sock) /\ Typed(cm, tx, sock)
      /\ world.cm = cm /\ world.tx = tx /\ world.sock = sock /\ world.panic = panic
      /\ cm.state = "EConnecting"
  BY OrderedIs DEF ConnectFails
<1>3. Make(cm, tx, sock)
  BY <1>2 DEF Fit, Rest, Resting, Run, Loose
<1>4. Tellable(cm, tx) /\ ~Resends(cm)
  BY <1>2, <1>3, MakeTellable DEF Make, PendingWrite, Resends
<1>5. /\ w \in World /\ w.cm = [cm EXCEPT !.connector = FALSE] /\ w.tx = tx /\ w.sock = sock
      /\ w.panic = panic
  BY <1>2 DEF World, Manager
<1> HIDE DEF w
<1>6. /\ w.cm.curResp = cm.curResp /\ w.cm.pendResp = cm.pendResp /\ w.cm.curReq = cm.curReq
      /\ w.cm.flags = cm.flags /\ w.cm.state = cm.state
  BY <1>2, <1>5 DEF World, Manager
<1>7. Tellable(w.cm, w.tx) /\ ~Resends(w.cm)  BY <1>4, <1>5, <1>6 DEF Tellable, Resends
<1>8. Sound(w)  BY <1>2, <1>5, <1>6 DEF Sound
<1>9. Stays(world, w)
  <2>1. /\ w.cm.curResp = world.cm.curResp /\ w.cm.pendResp = world.cm.pendResp
        /\ \A u \in Tx : w.tx[u].status = world.tx[u].status
    BY <1>2, <1>5, <1>6
  <2> QED BY <2>1 DEF Stays, LineOf
<1> DEFINE v == HandleSocketError(w, err, reconnects)
           z == SetIdleState(ReportSocketError(w, err))
<1>10. v = z
  <2>1. err # "sslAlert" /\ w.cm.state # "EClosing"  BY <1>2, <1>6
  <2> QED BY <1>5, <1>7, <2>1, HandleIs
<1>11. Advances(w.cm, w.tx, z.cm, z.tx)  BY <1>5, <1>7, <1>8, ReportAdvances
<1>12. HandleConnectError(world, err, reconnects) = IF v.cm.state # "EIdle" THEN Panic(v, "HandleConnectError: not EIdle") ELSE v
  BY DEF HandleConnectError, w
<1>13. z.cm.state = "EIdle"
  <2>1. ReportSocketError(w, err) \in World  BY <1>5, ReportSocketErrorKeeps DEF Keeps
  <2> QED BY <2>1 DEF SetIdleState, World, Manager
<1> HIDE DEF v, z
<1>14. Becomes(z)  BY <1>1, <1>10, <1>12, <1>13
<1>15. Advances(world.cm, world.tx, z.cm, z.tx)  BY <1>9, <1>11, StaysThenAdvances
<1>16. Advances(cm, tx, z.cm, z.tx)  BY <1>2, <1>15
<1> QED BY <1>14, <1>16, BecomesAdvances

-----------------------------------------------------------------------------
(* A transaction is submitted, for the promise                              *)

\* Who takes a place is the last one of the line.
LEMMA EnqueueLine ==
  ASSUME NEW w \in World, NEW t \in Tx,
         w.cm.curReq # None \/ w.cm.curResp # None => "ECannotPipeline" \notin w.cm.flags,
         w.cm.curResp = None => w.cm.pendResp = <<>>
  PROVE  LET v == Enqueue(w, t) IN
         v \in World /\ v.tx = w.tx /\ v.cm.state = w.cm.state /\ LineOf(v.cm) = Append(LineOf(w.cm), t)
<1> DEFINE v == Enqueue(w, t)
<1>1. PICK c \in Manager : c = w.cm  BY DEF World
<1>2. /\ v \in World /\ v.tx = w.tx /\ v.cm.state = w.cm.state
      /\ v.cm.curResp = (IF c.curResp = None THEN t ELSE c.curResp)
      /\ v.cm.pendResp = (IF c.curResp = None THEN c.pendResp ELSE Append(c.pendResp, t))
  BY <1>1, EnqueueIs
<1> HIDE DEF v
<1>3. PICK d \in Manager : d = v.cm  BY <1>2 DEF World
<1>4. LineOf(d) = IF d.curResp = None THEN d.pendResp ELSE Cat(One(d.curResp), d.pendResp)  BY LineIs
<1>5. LineOf(c) = (IF c.curResp = None THEN c.pendResp ELSE Cat(One(c.curResp), c.pendResp))
  BY LineIs
<1>6. PICK q \in Seq(Tx) : q = c.pendResp  BY DEF Manager
<1>7. t # None  BY ConstantsAssumption
<1>8. CASE c.curResp = None
  <2>1. q = None0  BY <1>1, <1>6, <1>8 DEF None0
  <2>2. LineOf(d) = Cat(One(t), q) /\ LineOf(c) = None0  BY <1>2, <1>3, <1>4, <1>5, <1>6, <1>7, <1>8, <2>1
  <2>3. One(t) \in Seq(Tx) /\ None0 \in Seq(Tx)  BY OneType, CatNone
  <2>4. Cat(One(t), None0) = One(t) /\ Cat(None0, One(t)) = One(t)
    <3>1. PICK o \in Seq(Tx) : o = One(t)  BY <2>3
    <3>2. Cat(o, None0) = o /\ Cat(None0, o) = o  BY CatNone
    <3> QED BY <3>1, <3>2
  <2>5. Append(None0, t) = Cat(None0, One(t))  BY <2>3, CatOne
  <2> QED BY <1>1, <1>2, <1>3, <2>1, <2>2, <2>4, <2>5 DEF v
<1>9. CASE c.curResp # None
  <2>1. c.curResp \in Tx  BY <1>9 DEF Manager
  <2>2. PICK o \in Seq(Tx) : o = One(c.curResp)  BY <2>1, OneType
  <2>3. PICK f \in Seq(Tx) : f = One(t)  BY OneType
  <2>4. LineOf(c) = Cat(o, q)  BY <1>5, <1>6, <1>9, <2>2
  <2>5. Append(q, t) = Cat(q, f)  BY <2>3, CatOne
  <2>6. LineOf(d) = Cat(o, Cat(q, f))  BY <1>2, <1>3, <1>4, <1>6, <1>9, <2>2, <2>5
  <2>7. Cat(Cat(o, q), f) = Cat(o, Cat(q, f))  BY CatAssociative
  <2>8. PICK r \in Seq(Tx) : r = Cat(o, q)
    <3>1. Cat(o, q) \in Seq(Tx)  BY CatType
    <3> QED BY <3>1
  <2>9. Append(r, t) = Cat(r, f)  BY <2>3, CatOne
  <2> QED BY <1>1, <1>2, <1>3, <2>4, <2>6, <2>7, <2>8, <2>9 DEF v
<1> QED BY <1>8, <1>9

\* What SubmitL does once the transaction has entered changes neither the line nor an outcome.
LEMMA SubmitStays ==
  ASSUME NEW w \in World, NEW t \in Tx, NEW v \in World, v = Entered(w, t), v.cm.state # "EClosing"
  PROVE  Stays(v, SubmitL(w, t))
<1> DEFINE z == SubmitL(w, t)
           k == v.cm.state
<1>1. /\ k = "EIdle" => z = MakesConnection(v)
      /\ k = "EIdleConnected" => z \in {UpgradeConnectionL(v), StartRequest(UsesAgain(v))}
      /\ k = "EConnected" /\ v.cm.curReq = t => z = StartRequest(v)
      /\ k = "EConnected" /\ v.cm.curReq # t => z = v
      /\ k \in Making => z = v
  BY SubmitIs
<1>2. k \in {"EIdle", "EIdleConnected", "EConnected"} \cup Making  BY DEF World, Manager, States, Making
<1> HIDE DEF z
<1>3. CASE z = MakesConnection(v)
  <2> DEFINE y == MakesConnection(v)
  <2>1. y.tx = v.tx /\ y.cm.curResp = v.cm.curResp /\ y.cm.pendResp = v.cm.pendResp  BY MakesIs
  <2> HIDE DEF y
  <2>2. Stays(v, y)  BY <2>1, StaysSame
  <2> QED BY <1>3, <2>2 DEF y, z
<1>4. CASE z = UpgradeConnectionL(v)  BY <1>4, StaysUpgrades DEF z
<1>5. CASE z = StartRequest(UsesAgain(v))
  <2> DEFINE y == UsesAgain(v)
  <2>1. y \in World /\ y.tx = v.tx /\ y.cm.curResp = v.cm.curResp /\ y.cm.pendResp = v.cm.pendResp  BY AgainIs
  <2> HIDE DEF y
  <2>2. Stays(v, y)  BY <2>1, StaysSame
  <2>3. Stays(y, StartRequest(y))  BY <2>1, StaysStart
  <2>4. Stays(v, StartRequest(y))  BY <2>2, <2>3, StaysBoth
  <2> QED BY <1>5, <2>4 DEF y, z
<1>6. CASE z = StartRequest(v)  BY <1>6, StaysStart DEF z
<1>7. CASE z = v  BY <1>7 DEF Stays, z
<1> QED BY <1>1, <1>2, <1>3, <1>4, <1>5, <1>6, <1>7

\* A transaction that is active now is the last one of the line.
LEMMA EntersAdvances ==
  ASSUME NEW w \in World, NEW t \in Tx, w.tx[t].status \in {"new", "retry"},
         NEW v \in World, Others(w.tx, v.tx, t), v.tx[t].status = "active",
         LineOf(v.cm) = Append(LineOf(w.cm), t)
  PROVE  Advances(w.cm, w.tx, v.cm, v.tx)
<1> DEFINE a == StatusOf(w.tx)
           b == StatusOf(v.tx)
<1>1. a \in [Tx -> Statuses] /\ a[t] = w.tx[t].status  BY StatusesAre
<1>2. b \in [Tx -> Statuses] /\ b[t] = v.tx[t].status  BY StatusesAre
<1>3. Same(Tx \ {t}, a, b)  BY OthersSame
<1> HIDE DEF a, b
<1>4. b = [a EXCEPT ![t] = "active"]  BY <1>1, <1>2, <1>3 DEF Same
<1>5. Enters(a, LineOf(w.cm), b, LineOf(v.cm), t)  BY <1>1, <1>4 DEF Enters
<1>6. Moved(a, LineOf(w.cm), b, LineOf(v.cm))  BY <1>5 DEF Moved
<1> QED BY <1>6 DEF Advances, a, b

\* The transaction enters: g is the world in which it takes its place, where the
\* connection may have been closed and pipelining disabled.
LEMMA SubmitAdvances ==
  ASSUME NEW w \in World, NEW t \in Tx, w.tx[t].status \in {"new", "retry"},
         NEW b \in World, Others(w.tx, b.tx, t), b.tx[t].status = "active",
         NEW g \in World, g = IF Unusable(b, t) THEN CloseConnection(b) ELSE b,
         g.tx = b.tx, g.cm.curResp = w.cm.curResp, g.cm.pendResp = w.cm.pendResp, g.cm.state # "EClosing",
         g.cm.curReq # None \/ g.cm.curResp # None => "ECannotPipeline" \notin g.cm.flags,
         g.cm.curResp = None => g.cm.pendResp = <<>>
  PROVE  LET z == SubmitL(b, t) IN Advances(w.cm, w.tx, z.cm, z.tx)
<1> DEFINE v == Enqueue(g, t)
           z == SubmitL(b, t)
<1>1. v \in World /\ v.tx = g.tx /\ v.cm.state = g.cm.state /\ LineOf(v.cm) = Append(LineOf(g.cm), t)
  BY EnqueueLine
<1>2. LineOf(g.cm) = LineOf(w.cm)  BY DEF LineOf
<1>3. v = Entered(b, t)  BY DEF Entered
<1> HIDE DEF v
<1>4. Advances(w.cm, w.tx, v.cm, v.tx)
  <2>1. Others(w.tx, v.tx, t) /\ v.tx[t].status = "active"  BY <1>1
  <2>2. LineOf(v.cm) = Append(LineOf(w.cm), t)  BY <1>1, <1>2
  <2> QED BY <1>1, <2>1, <2>2, EntersAdvances
<1>5. Stays(v, z)
  <2>1. v.cm.state # "EClosing"  BY <1>1
  <2> QED BY <1>1, <1>3, <2>1, SubmitStays
<1> HIDE DEF z
<1>6. Advances(w.cm, w.tx, z.cm, z.tx)  BY <1>4, <1>5, AdvancesThenStays
<1> QED BY <1>6 DEF z

\* The transaction that is assigned is active.
LEMMA AssignedMoves ==
  ASSUME NEW w \in World, NEW t \in Tx, NEW new \in BOOLEAN
  PROVE  LET a == Assigned(w, t, new) IN
         a \in World /\ a.cm = w.cm /\ a.sock = w.sock /\ Others(w.tx, a.tx, t) /\ a.tx[t].status = "active"
<1> DEFINE a == Assigned(w, t, new)
<1>1. a \in World /\ a.cm = w.cm /\ a.sock = w.sock /\ Others(w.tx, a.tx, t) /\ Waiting(a.tx[t])
  BY AssignedIs
<1> HIDE DEF a
<1>2. a.tx[t].status = "active"  BY <1>1 DEF Waiting
<1> QED BY <1>1, <1>2 DEF a

\* Submit.
LEMMA SubmitMoves ==
  ASSUME Calm, Ordered(world), NEW t \in Tx, Submit(t) PROVE Advances(cm, tx, cm', tx')
<1>1. /\ world \in World /\ Sound(world) /\ Fit(cm, tx, sock) /\ Typed(cm, tx, sock)
      /\ world.cm = cm /\ world.tx = tx /\ world.sock = sock /\ world.panic = panic
      /\ (sock.open <=> cm.state \in ConnectedStates)
  BY OrderedIs
<1> DEFINE available == cm.state = "EIdleConnected" /\ cm.host = HostOf[t]
           busy      == cm.state \in {"EConnecting", "EUpgrading", "EConnected"}
           new == ~available /\ ~busy
           w == world
           a == Assigned(w, t, new)
           b == IF tx[t].pipeline THEN a ELSE DisablePipelining(a)
           z == SubmitL(b, t)
<1>2. /\ Selectable(t) /\ tx[t].status \in {"new", "retry"}
      /\ cm.curReq # None /\ cm.curResp = None => "firstUnread" \in Env
      /\ Becomes(z)
  BY DEF Submit
<1>3. new \in BOOLEAN  OBVIOUS
<1>4. w \in World /\ w.cm = cm /\ w.tx = tx /\ w.sock = sock  BY <1>1
<1> HIDE DEF new, w
<1>5. a \in World /\ a.cm = cm /\ a.sock = sock /\ Others(w.tx, a.tx, t) /\ a.tx[t].status = "active"
  <2>1. a \in World /\ a.cm = w.cm /\ a.sock = w.sock /\ Others(w.tx, a.tx, t) /\ a.tx[t].status = "active"
    BY <1>3, <1>4, AssignedMoves
  <2> HIDE DEF a
  <2> QED BY <1>4, <2>1
<1> HIDE DEF a
<1>6. w.tx[t].status \in {"new", "retry"}  BY <1>2, <1>4
<1> DEFINE g == IF Unusable(b, t) THEN CloseConnection(b) ELSE b
<1>7. /\ b \in World /\ b.tx = a.tx /\ g \in World /\ g.tx = b.tx
      /\ g.cm.curResp = cm.curResp /\ g.cm.pendResp = cm.pendResp /\ g.cm.state # "EClosing"
      /\ g.cm.curReq # None \/ g.cm.curResp # None => "ECannotPipeline" \notin g.cm.flags
      /\ g.cm.curResp = None => g.cm.pendResp = <<>>
  <2>1. CASE Rest(cm, tx, sock)
    <3>1. /\ cm.state \in Resting /\ "ECannotPipeline" \notin cm.flags /\ Vacant(cm)
      BY <2>1 DEF Rest, Vacant
    <3>2. /\ b \in World /\ b.tx = a.tx /\ b.cm.state = cm.state /\ b.sock = sock
          /\ b.cm.curReq = None /\ b.cm.curResp = None /\ b.cm.pendResp = <<>>
      <4>1. CASE tx[t].pipeline  BY <1>5, <3>1, <4>1 DEF Vacant
      <4>2. CASE ~tx[t].pipeline
        <5> DEFINE e == DisablePipelining(a)
        <5>1. /\ e \in World /\ e.tx = a.tx /\ e.sock = a.sock /\ e.cm.state = a.cm.state
              /\ e.cm.curReq = a.cm.curReq /\ e.cm.curResp = a.cm.curResp /\ e.cm.pendResp = a.cm.pendResp
          BY <1>5, <3>1, DisabledIs
        <5>2. b = e  BY <4>2
        <5> HIDE DEF e, b
        <5> QED BY <1>5, <3>1, <5>1, <5>2 DEF Vacant
      <4> QED BY <4>1, <4>2
    <3> HIDE DEF b
    <3>3. CASE Unusable(b, t)
      <4>1. b.sock.open  BY <1>1, <3>2, <3>3 DEF Unusable, ConnectedStates
      <4> DEFINE e == CloseConnection(b)
      <4>2. /\ e \in World /\ e.tx = b.tx /\ e.cm.state = "EIdle" /\ e.cm.curReq = b.cm.curReq
            /\ e.cm.curResp = b.cm.curResp /\ e.cm.pendResp = b.cm.pendResp
        BY <3>2, <4>1, ClosedIs
      <4>3. g = e  BY <3>3
      <4> HIDE DEF e, g
      <4> QED BY <3>1, <3>2, <4>2, <4>3 DEF Vacant
    <3>4. CASE ~Unusable(b, t)
      <4>1. g = b  BY <3>4
      <4>2. b.cm.state # "EClosing"  BY <3>4 DEF Unusable
      <4> HIDE DEF g
      <4> QED BY <3>1, <3>2, <4>1, <4>2 DEF Vacant
    <3> QED BY <3>3, <3>4
  <2>2. CASE Make(cm, tx, sock) \/ \E h \in Tx \cup {None} : Run(cm, tx, sock, h)
    <3>1. cm.state \in Making \cup {"EConnected"}  BY <2>2 DEF Make, Run, Loose
    <3>2. "ECannotPipeline" \notin cm.flags /\ tx[t].pipeline
      BY <1>2, <3>1 DEF Selectable, Making, CannotPipeline
    <3>3. b = a  BY <3>2
    <3> HIDE DEF b
    <3>4. ~Unusable(b, t) /\ cm.state # "EClosing"  BY <1>5, <3>1, <3>3 DEF Unusable, Making
    <3>5. g = b  BY <3>4
    <3> HIDE DEF g
    <3>6. cm.curResp = None => cm.pendResp = <<>>
      <4>1. cm.curReq # None => cm.curResp # None  BY <1>2 DEF Calm
      <4>2. CASE Make(cm, tx, sock)  BY <4>1, <4>2, ConstantsAssumption DEF Make
      <4>3. ASSUME NEW h \in Tx \cup {None}, Run(cm, tx, sock, h) PROVE cm.curResp = None => cm.pendResp = <<>>
        <5>1. Mode(cm, h)  BY <4>3 DEF Run, Loose
        <5> QED BY <4>1, <5>1 DEF Mode
      <4> QED BY <2>2, <4>2, <4>3
    <3> QED BY <1>5, <3>2, <3>3, <3>4, <3>5, <3>6
  <2> QED BY <1>1, <2>1, <2>2 DEF Fit
<1> HIDE DEF b
<1>8. g = IF Unusable(b, t) THEN CloseConnection(b) ELSE b  OBVIOUS
<1> HIDE DEF g
<1>9. Others(w.tx, b.tx, t) /\ b.tx[t].status = "active"  BY <1>5, <1>7
<1>10. g.cm.curResp = w.cm.curResp /\ g.cm.pendResp = w.cm.pendResp  BY <1>4, <1>7
<1>11. Advances(w.cm, w.tx, z.cm, z.tx)  BY <1>4, <1>6, <1>7, <1>8, <1>9, <1>10, SubmitAdvances
<1> HIDE DEF z
<1>12. Advances(cm, tx, z.cm, z.tx)  BY <1>4, <1>11
<1> QED BY <1>2, <1>12, BecomesAdvances

-----------------------------------------------------------------------------
(* A transaction is cancelled, for the promise                              *)

\* Nobody is in the line twice.
LEMMA LineOnce ==
  ASSUME NEW c \in Manager, IsInjective(c.pendResp), c.curResp \notin ToSet(c.pendResp)
  PROVE  IsInjective(LineOf(c))
<1>1. LineOf(c) = (IF c.curResp = None THEN c.pendResp ELSE Cat(One(c.curResp), c.pendResp))  BY LineIs
<1>2. PICK q \in Seq(Tx) : q = c.pendResp  BY DEF Manager
<1>3. CASE c.curResp # None
  <2>1. PICK e \in Tx : e = c.curResp  BY <1>3 DEF Manager
  <2>2. IsInjective(<<e>> \o q)  BY <1>2, <2>1, InFront
  <2>3. LineOf(c) = Cat(One(e), q)  BY <1>1, <1>2, <1>3, <2>1
  <2> QED BY <2>2, <2>3 DEF Cat, One
<1> QED BY <1>1, <1>3

\* Who leaves the queue of the pending ones leaves the line.
LEMMA LeavesLine ==
  ASSUME NEW c \in Manager, IsInjective(c.pendResp), c.curResp \notin ToSet(c.pendResp),
         NEW t \in Tx, t \in ToSet(c.pendResp), NEW d \in Manager, d.curResp = c.curResp,
         d.pendResp = Without(c.pendResp, t)
  PROVE  LineOf(d) = Without(LineOf(c), t)
<1>1. LineOf(c) = (IF c.curResp = None THEN c.pendResp ELSE Cat(One(c.curResp), c.pendResp))  BY LineIs
<1>2. LineOf(d) = (IF d.curResp = None THEN d.pendResp ELSE Cat(One(d.curResp), d.pendResp))  BY LineIs
<1>3. CASE c.curResp = None  BY <1>1, <1>2, <1>3
<1>4. CASE c.curResp # None
  <2>1. PICK e \in Tx : e = c.curResp  BY <1>4 DEF Manager
  <2>2. PICK q \in Seq(Tx) : q = c.pendResp  BY DEF Manager
  <2>3. PICK a \in Seq(Tx) : a = One(e)  BY OneType
  <2>4. PICK p \in Seq(Tx) : p = Cat(a, q)
    <3>1. Cat(a, q) \in Seq(Tx)  BY CatType
    <3> QED BY <3>1
  <2>5. LineOf(c) = p  BY <1>1, <1>4, <2>1, <2>2, <2>3, <2>4
  <2>6. IsInjective(p)
    <3>1. IsInjective(LineOf(c))  BY LineOnce
    <3> QED BY <2>5, <3>1
  <2>7. PICK o \in Seq(Tx) : o = None0 /\ Cat(o, p) = p
    <3>1. None0 \in Seq(Tx) /\ Cat(None0, p) = p  BY CatNone
    <3> QED BY <3>1
  <2>8. t \in ToSet(q) /\ t \in ToSet(p)
    <3>1. ToSet(LineOf(c)) = Awaits(c)  BY LineIs
    <3>2. t \in Awaits(c)  BY DEF Awaits
    <3> QED BY <2>2, <2>5, <3>1, <3>2
  <2>9. Cat(a, Without(q, t)) = Cat(o, Without(p, t))
    <3>1. Cat(a, q) = Cat(o, p) /\ IsInjective(Cat(o, p))  BY <2>4, <2>6, <2>7
    <3> QED BY <2>8, <3>1, LeavesBoth
  <2>10. Cat(o, Without(p, t)) = Without(p, t)
    <3>1. PICK r \in Seq(Tx) : r = Without(p, t)
      <4>1. Without(p, t) \in Seq(Tx)  BY WithoutType
      <4> QED BY <4>1
    <3>2. Cat(None0, r) = r  BY CatNone
    <3> QED BY <2>7, <3>1, <3>2
  <2>11. LineOf(d) = Cat(a, Without(q, t))  BY <1>2, <1>4, <2>1, <2>2, <2>3
  <2> QED BY <2>5, <2>9, <2>10, <2>11
<1> QED BY <1>3, <1>4

\* One whose request is held back is cancelled: it leaves the line.
LEMMA HeldBackMoves ==
  ASSUME NEW w \in World, NEW t \in Tx, w.tx[t].status = "active", t \in ToSet(w.cm.pendResp),
         IsInjective(w.cm.pendResp), w.cm.curResp \notin ToSet(w.cm.pendResp),
         NEW v, v = Cancelled(Left(w, t), t)
  PROVE  Advances(w.cm, w.tx, v.cm, v.tx)
<1> DEFINE g == Left(w, t)
<1>1. /\ g \in World /\ g.tx = w.tx /\ SameFields(w.cm, g.cm)
      /\ g.cm.pendResp = Without(w.cm.pendResp, t)
  BY LeftIs
<1> HIDE DEF g
<1>2. v \in World /\ v.cm = g.cm /\ Others(g.tx, v.tx, t) /\ v.tx[t].status = "cancelled"
  <2> DEFINE z == Cancelled(g, t)
  <2>1. z \in World /\ z.cm = g.cm /\ Others(g.tx, z.tx, t) /\ z.tx[t].status = "cancelled"
    BY <1>1, CancelledIs
  <2>2. v = z  BY DEF g
  <2> HIDE DEF z
  <2> QED BY <2>1, <2>2
<1>3. PICK c \in Manager : c = w.cm  BY DEF World
<1>4. PICK d \in Manager : d = v.cm  BY <1>2 DEF World
<1>5. LineOf(d) = Without(LineOf(c), t)
  <2>1. d.curResp = c.curResp /\ d.pendResp = Without(c.pendResp, t)  BY <1>1, <1>2, <1>3, <1>4 DEF SameFields
  <2>2. IsInjective(c.pendResp) /\ c.curResp \notin ToSet(c.pendResp) /\ t \in ToSet(c.pendResp)  BY <1>3
  <2> QED BY <2>1, <2>2, LeavesLine
<1>6. LineOf(c) \in Seq(Tx) /\ IsInjective(LineOf(c)) /\ t \in ToSet(LineOf(c))
  <2>1. IsInjective(LineOf(c))  BY <1>3, LineOnce
  <2>2. LineOf(c) \in Seq(Tx) /\ ToSet(LineOf(c)) = Awaits(c)  BY LineIs
  <2>3. t \in Awaits(c)  BY <1>3 DEF Awaits
  <2> QED BY <2>1, <2>2, <2>3
<1> DEFINE p == LineOf(c)
           a == StatusOf(w.tx)
           b == StatusOf(v.tx)
<1>7. a[t] = "active"  BY StatusesAre
<1>8. b \in [Tx -> Statuses] /\ b[t] = "cancelled"
  <2>1. b \in [Tx -> Statuses] /\ b[t] = v.tx[t].status  BY <1>2, StatusesAre
  <2> HIDE DEF b
  <2> QED BY <1>2, <2>1
<1>9. Same(Tx \ {t}, a, b)
  <2>1. Others(w.tx, v.tx, t)  BY <1>1, <1>2
  <2> QED BY <2>1, OthersSame
<1> HIDE DEF p, a, b
<1>10. Moved(a, p, b, Without(p, t))
  <2>1. p \in Seq(Tx) /\ IsInjective(p) /\ t \in ToSet(p)  BY <1>6 DEF p
  <2> QED BY <1>7, <1>8, <1>9, <2>1, CancelsMoves
<1>11. Moved(a, p, b, LineOf(d))  BY <1>5, <1>10 DEF p
<1> QED BY <1>3, <1>4, <1>11 DEF Advances, p, a, b

\* The one for which the connection is being made is cancelled: nobody is in the line.
LEMMA AbandonMoves ==
  ASSUME NEW w \in World, Sound(w), NEW s, s = w.sock, Make(w.cm, w.tx, s), NEW t \in Tx,
         t = w.cm.curResp, w.tx[t].status = "active", NEW v,
         v = Cancelled(Vacate(NotifyPendingTransactions(Unconnected(w), "nonPipelining")), t)
  PROVE  Advances(w.cm, w.tx, v.cm, v.tx)
<1>1. /\ v \in World /\ Vacant(v.cm) /\ v.tx[t].status = "cancelled"
      /\ \A e \in Tx \ {t} : IF e \in ToSet(w.cm.pendResp) THEN v.tx[e].status \in {"retry", "failed"}
                              ELSE v.tx[e].status = w.tx[e].status
  BY AbandonRest
<1>2. PICK c \in Manager : c = w.cm  BY DEF World
<1>3. PICK d \in Manager : d = v.cm  BY <1>1 DEF World
<1>4. IsInjective(c.pendResp) /\ c.curResp \notin ToSet(c.pendResp)  BY <1>2 DEF Make
<1>5. LineOf(d) = None0
  <2>1. LineOf(d) = IF d.curResp = None THEN d.pendResp ELSE Cat(One(d.curResp), d.pendResp)  BY LineIs
  <2> QED BY <1>1, <1>3, <2>1 DEF Vacant, None0
<1> DEFINE p == LineOf(c)
           a == StatusOf(w.tx)
           b == StatusOf(v.tx)
<1>6. p \in Seq(Tx) /\ IsInjective(p) /\ ToSet(p) = Awaits(c) /\ t \in Awaits(c)
  <2>1. IsInjective(LineOf(c))  BY <1>4, LineOnce
  <2>2. LineOf(c) \in Seq(Tx) /\ ToSet(LineOf(c)) = Awaits(c)  BY LineIs
  <2>3. t \in Awaits(c)  BY <1>2, ConstantsAssumption DEF Awaits
  <2> QED BY <2>1, <2>2, <2>3
<1>7. \A e \in Tx : a[e] = w.tx[e].status  BY StatusesAre
<1>8. b \in [Tx -> Statuses] /\ \A e \in Tx : b[e] = v.tx[e].status  BY <1>1, StatusesAre
<1> HIDE DEF p, a, b
<1>9. \A e \in Tx \ {t} : e \in Awaits(c) <=> e \in ToSet(c.pendResp)  BY <1>2 DEF Awaits
<1>10. Awaits(c) \subseteq Tx
  <2>1. ToSet(c.pendResp) \subseteq Tx  BY SomeIn DEF Manager
  <2> QED BY <2>1 DEF Awaits, Manager
<1>11. Told(ToSet(p) \ {t}, b) /\ Same(Tx \ ToSet(p), a, b)
  BY <1>1, <1>2, <1>6, <1>7, <1>8, <1>9, <1>10 DEF Told, Same
<1>12. a[t] = "active" /\ b[t] = "cancelled"  BY <1>1, <1>7, <1>8
<1>13. Moved(a, p, b, None0)
  <2>1. t \in ToSet(p)  BY <1>6
  <2> QED BY <1>6, <1>8, <1>11, <1>12, <2>1, CancelsMoves
<1> QED BY <1>2, <1>3, <1>5, <1>13 DEF Advances, p, a, b

\* Cancel.
LEMMA CancelMoves ==
  ASSUME Calm, Ordered(world), NEW t \in Tx, Cancel(t) PROVE Advances(cm, tx, cm', tx')
<1>1. /\ world \in World /\ Sound(world) /\ Fit(cm, tx, sock) /\ Typed(cm, tx, sock)
      /\ world.cm = cm /\ world.tx = tx /\ world.sock = sock /\ world.panic = panic
      /\ (sock.open <=> cm.state \in ConnectedStates)
  BY OrderedIs
<1>2. /\ tx[t].status = "active" /\ ~tx[t].msgDone /\ (~sock.open \/ Contains(cm.pendReq, t))
      /\ \E reconnects \in Reconnects : Becomes(Cancelled(CancelSubmission(world, t, reconnects), t))
  BY DEF Cancel, Calm, Cancelled
<1>3. PICK reconnects \in Reconnects : Becomes(Cancelled(CancelSubmission(world, t, reconnects), t))
  BY <1>2
<1>4. /\ Contains(cm.pendReq, t) <=> t \in ToSet(cm.pendReq)
      /\ Contains(cm.pendResp, t) <=> t \in ToSet(cm.pendResp)
  <2>1. PICK a \in Seq(Tx), b \in Seq(Tx) : a = cm.pendReq /\ b = cm.pendResp  BY <1>1, Types
  <2>2. (Contains(a, t) <=> t \in ToSet(a)) /\ (Contains(b, t) <=> t \in ToSet(b))  BY SomeIn
  <2> QED BY <2>1, <2>2
<1> DEFINE w == world
           u == CancelSubmission(w, t, reconnects)
           v == Cancelled(u, t)
           s == sock
<1>5. /\ w \in World /\ Sound(w) /\ w.cm = cm /\ w.tx = tx /\ w.sock = s /\ Becomes(v)
  BY <1>1, <1>3
<1> HIDE DEF w
<1>6. /\ /\ Contains(w.cm.pendReq, t) /\ Contains(w.cm.pendResp, t)
         /\ w.cm.curReq # t /\ w.cm.curResp # t /\ w.cm.curReq # None
         => u = Left(w, t)
      /\ /\ ~Contains(w.cm.pendReq, t) /\ ~Contains(w.cm.pendResp, t)
         /\ w.cm.curResp = t /\ w.cm.state = "EConnecting"
         => u = Vacate(NotifyPendingTransactions(Unconnected(w), "nonPipelining"))
  BY <1>5, CancelIs
<1> HIDE DEF u
<1>7. ASSUME t \in ToSet(cm.pendReq), t \in ToSet(cm.pendResp), IsInjective(cm.pendResp),
             cm.curResp \notin ToSet(cm.pendResp), cm.curReq # t, cm.curReq # None
      PROVE  Advances(w.cm, w.tx, v.cm, v.tx)
  <2>1. u = Left(w, t)  BY <1>4, <1>5, <1>6, <1>7
  <2>2. v = Cancelled(Left(w, t), t)  BY <2>1
  <2> HIDE DEF v
  <2>3. /\ t \in ToSet(w.cm.pendResp) /\ IsInjective(w.cm.pendResp)
        /\ w.cm.curResp \notin ToSet(w.cm.pendResp) /\ w.tx[t].status = "active"
    BY <1>2, <1>5, <1>7
  <2> QED BY <1>5, <2>2, <2>3, HeldBackMoves
<1>8. Advances(w.cm, w.tx, v.cm, v.tx)
  <2>1. CASE Rest(cm, tx, sock)  BY <1>2, <2>1 DEF Rest, Off
  <2>2. CASE Make(cm, tx, sock)
    <3>1. /\ cm.state \in Making /\ cm.curReq \in Tx /\ cm.curResp = cm.curReq /\ cm.pendReq = cm.pendResp
          /\ cm.curResp \notin ToSet(cm.pendResp) /\ IsInjective(cm.pendResp)
          /\ (\A e \in Tx \ Awaits(cm) : Off(tx[e]))
      BY <2>2 DEF Make
    <3>2. t \in Awaits(cm) /\ None \notin Tx  BY <1>2, <3>1, ConstantsAssumption DEF Off
    <3>3. CASE t = cm.curResp
      <4>1. ~Contains(cm.pendReq, t) /\ ~Contains(cm.pendResp, t)  BY <1>4, <3>1, <3>3
      <4>2. cm.state = "EConnecting"  BY <1>1, <1>2, <3>1, <4>1 DEF ConnectedStates, Making
      <4>3. v = Cancelled(Vacate(NotifyPendingTransactions(Unconnected(w), "nonPipelining")), t)
        BY <1>5, <1>6, <3>3, <4>1, <4>2
      <4>4. Make(w.cm, w.tx, s) /\ t = w.cm.curResp /\ w.tx[t].status = "active"  BY <1>2, <1>5, <2>2, <3>3
      <4> HIDE DEF v, s
      <4> QED BY <1>5, <4>3, <4>4, AbandonMoves
    <3>4. CASE t # cm.curResp
      <4>1. t \in ToSet(cm.pendResp)  BY <3>2, <3>4 DEF Awaits
      <4>2. cm.curReq # t /\ cm.curReq # None  BY <3>1, <3>2, <3>4
      <4> QED BY <1>7, <3>1, <4>1, <4>2
    <3> QED BY <3>3, <3>4
  <2>3. ASSUME NEW h \in Tx \cup {None}, Run(cm, tx, sock, h) PROVE Advances(w.cm, w.tx, v.cm, v.tx)
    <3>1. cm.state = "EConnected" /\ Queues(cm, h) /\ Mode(cm, h)  BY <2>3 DEF Run, Loose
    <3>2. sock.open  BY <1>1, <3>1 DEF ConnectedStates
    <3>3. t \in ToSet(cm.pendReq)  BY <1>2, <1>4, <3>2
    <3>4. t \in ToSet(cm.pendResp) /\ h \notin Awaits(cm)
          /\ IsInjective(cm.pendResp) /\ cm.curResp \notin ToSet(cm.pendResp)
      BY <3>1, <3>3 DEF Queues
    <3>5. t \in Awaits(cm) /\ ToSet(<<>>) = {} /\ cm.curResp # t  BY <3>4, NoneIn DEF Awaits
    <3>6. cm.curReq # t /\ cm.curReq # None
      <4>1. CASE First(cm)  BY <3>1, <3>4, <3>5, <4>1 DEF Mode
      <4>2. CASE ~First(cm)  BY <3>1, <3>3, <3>5, <4>2 DEF Mode
      <4> QED BY <4>1, <4>2
    <3> QED BY <1>7, <3>3, <3>4, <3>6
  <2> QED BY <1>1, <2>1, <2>2, <2>3 DEF Fit
<1> HIDE DEF v
<1>9. Advances(cm, tx, v.cm, v.tx)  BY <1>5, <1>8
<1> QED BY <1>5, <1>9, BecomesAdvances

-----------------------------------------------------------------------------
(* The promise is kept                                                      *)

\* The first state of the manager is one of the promise.
LEMMA InitPromised == ASSUME Init PROVE Promise!Init
<1>1. cm.curResp = None /\ cm.pendResp = <<>>  BY DEF Init
<1>2. (IF cm.curResp = None THEN <<>> ELSE <<cm.curResp>>) \o cm.pendResp = <<>>
  <2>1. PICK e \in Seq(Tx) : e = None0  BY EmptySeq DEF None0
  <2>2. Cat(None0, e) = e  BY CatNone
  <2> QED BY <1>1, <2>1, <2>2 DEF Cat, None0
<1>3. \A t \in Tx : tx[t].status = "new"  BY DEF Init, NewTransaction
<1> QED BY <1>2, <1>3 DEF Promise!Init

\* Each step of the manager is one of the promise, or a stutter.
LEMMA NextPromised ==
  ASSUME Calm, Ordered(world), [Next]_vars PROVE [Promise!Next]_(Promise!vars)
<1>1. world \in World  BY OrderedIs
<1>2. CASE Next
  <2>1. ASSUME Streams PROVE Advances(cm, tx, cm', tx')
    BY <1>1, <2>1, MadeMoves, HandshakeMoves, SentMoves, DataMoves DEF Streams
  <2>2. ASSUME ServerReply PROVE Advances(cm, tx, cm', tx')
    BY <2>2, ReplyMoves
  <2>3. ASSUME Losses PROVE Advances(cm, tx, cm', tx')
    <3>1. ~StreamFails  BY DEF StreamFails, Calm
    <3> QED BY <1>1, <2>3, <3>1, ConnectFailsMoves, ServerClosesMoves DEF Losses
  <2>4. ASSUME NEW t \in Tx, Submit(t) \/ Cancel(t) \/ Parties(t) \/ ParserFails(t)
        PROVE  Advances(cm, tx, cm', tx')
    <3>1. ~ParserFails(t)  BY DEF ParserFails, Calm
    <3>2. CASE Submit(t)  BY <3>2, SubmitMoves
    <3>3. CASE Cancel(t)  BY <3>3, CancelMoves
    <3>4. CASE ComposerRun(t)  BY <1>1, <3>4, ComposerMoves
    <3>5. CASE NotifyNewRequestBodyPart(t)  BY <1>1, <3>5, BodyPartMoves
    <3>6. CASE ParserRun(t)  BY <3>6, ParserMoves
    <3>7. CASE ReleaseData(t)  BY <3>7, ReleaseDataMoves
    <3> QED BY <2>4, <3>1, <3>2, <3>3, <3>4, <3>5, <3>6, <3>7 DEF Parties
  <2>5. Advances(cm, tx, cm', tx')  BY <1>2, <2>1, <2>2, <2>3, <2>4 DEF Next
  <2>6. Moved(StatusOf(tx), LineOf(cm), StatusOf(tx'), LineOf(cm'))  BY <2>5 DEF Advances
  <2> QED BY <2>6, PromiseMoves
<1>3. CASE UNCHANGED vars
  <2>1. cm' = cm /\ tx' = tx  BY <1>3 DEF vars
  <2> QED BY <2>1 DEF Promise!vars
<1> QED BY <1>2, <1>3

\* Under the same hypothesis the manager implements HttpSubmissions, through hang-ups,
\* connections that cannot be made, resending and cancels of what is not sent: those that wait for their answers are one line in the order of submission,
\* only its first one is answered, who loses his place is told so, and but for a
\* cancellation places are lost from the end of the line forward.
THEOREM ImplementsSubmissions == ASSUME Calm PROVE Spec => Submissions
<1>1. Init => Promise!Init  BY InitPromised
<1>2. Ordered(world) /\ [Next]_vars => [Promise!Next]_(Promise!vars)  BY NextPromised
<1> QED BY <1>1, <1>2, StaysOrdered, PTL DEF Spec, Submissions, Promise!Spec

=============================================================================
