---------------------- MODULE HttpProtocolHandlerProofs ----------------------
(***************************************************************************)
(* For all transactions, hosts, numbers of connections and of requests on  *)
(* one of them: a transaction is active exactly while one connection       *)
(* manager has it, and it is only given to a manager that may take it.     *)
(* The invariant (Good) says of each manager what its queues hold and when *)
(* they are empty (Shape), and of each transaction who has it (Owned).     *)
(*                                                                         *)
(* Induction over the queues goes through sets of natural numbers          *)
(* (SetInduction), so that no theorem takes an operator.                   *)
(***************************************************************************)
EXTENDS HttpProtocolHandler, FiniteSetTheorems, SequenceTheorems, WellFoundedInduction, TLAPS

-----------------------------------------------------------------------------
(* Numbers and queues *)

\* A set of natural numbers that is not empty has a least one.
LEMMA Least ==
  ASSUME NEW S, S \subseteq Nat, S # {}
  PROVE  \E x \in S : \A y \in S : x <= y
<1>1. PICK x \in S : \A y \in S : ~(<<y, x>> \in OpToRel(<, Nat))
  BY NatLessThanWellFounded, WFMin
<1>2. \A y \in S : x <= y
  <2> SUFFICES ASSUME NEW y \in S, ~(x <= y) PROVE FALSE  OBVIOUS
  <2>1. y < x /\ x \in Nat /\ y \in Nat  OBVIOUS
  <2>2. <<y, x>> \in OpToRel(<, Nat)  BY <2>1, Zenon DEF OpToRel
  <2> QED BY <1>1, <2>2
<1> QED BY <1>2

\* A set of natural numbers with 0, and with n + 1 if with n, has them all.
LEMMA SetInduction ==
  ASSUME NEW S, 0 \in S, \A n \in Nat : n \in S => n + 1 \in S
  PROVE  \A n \in Nat : n \in S
<1> SUFFICES ASSUME {n \in Nat : n \notin S} # {} PROVE FALSE  OBVIOUS
<1>1. PICK x \in {n \in Nat : n \notin S} : \A y \in {n \in Nat : n \notin S} : x <= y
  <2> DEFINE N == {n \in Nat : n \notin S}
  <2>1. N \subseteq Nat /\ N # {}  OBVIOUS
  <2> HIDE DEF N
  <2>2. \E x \in N : \A y \in N : x <= y  BY <2>1, Least
  <2> QED BY <2>2 DEF N
<1>2. x \in Nat /\ x # 0  BY <1>1
<1>3. x - 1 \in Nat /\ ~(x <= x - 1)  BY <1>2
<1>4. x - 1 \in S  BY <1>1, <1>3
<1>5. x - 1 + 1 = x  BY <1>2
<1> QED BY <1>1, <1>3, <1>4, <1>5

\* The managers are numbered: there is a first and a last one in every set of them.
LEMMA FirstAndLast ==
  ASSUME NEW n \in Nat, NEW S, S \subseteq 1 .. n, S # {}
  PROVE  FirstOf(S) \in S /\ LastOf(S) \in S /\ \A i \in S : FirstOf(S) <= i
<1>1. \E x \in S : \A y \in S : x <= y
  <2>1. S \subseteq Nat  OBVIOUS
  <2> QED BY <2>1, Least
<1>2. \E x \in S : \A y \in S : x >= y
  <2> DEFINE N == {n - i : i \in S}
  <2>1. N \subseteq Nat /\ N # {}
    <3>1. \A i \in S : i \in 1 .. n /\ n - i \in Nat  OBVIOUS
    <3> QED BY <3>1
  <2>2. PICK x \in N : \A y \in N : x <= y  BY <2>1, Least
  <2>3. PICK i \in S : x = n - i  OBVIOUS
  <2>4. \A j \in S : n - j \in N  OBVIOUS
  <2>5. \A j \in S : n - i <= n - j  BY <2>2, <2>3, <2>4
  <2>6. \A j \in S : i >= j  BY <2>5
  <2> QED BY <2>6
<1> QED BY <1>1, <1>2, Zenon DEF FirstOf, LastOf

\* The first element of a queue and the others.
LEMMA HeadAndTail ==
  ASSUME NEW T, NEW s \in Seq(T), s # <<>>
  PROVE  /\ Head(s) \in T /\ Head(s) \in ToSet(s) /\ Tail(s) \in Seq(T)
         /\ ToSet(s) = {Head(s)} \cup ToSet(Tail(s))
         /\ IsInjective(s) => IsInjective(Tail(s)) /\ Head(s) \notin ToSet(Tail(s))
<1>1. Len(s) \in Nat /\ Len(s) >= 1 /\ DOMAIN s = 1 .. Len(s) /\ s \in [1 .. Len(s) -> T]
  BY LenProperties, EmptySeq
<1>2. /\ Tail(s) \in Seq(T) /\ DOMAIN Tail(s) = 1 .. Len(s) - 1
      /\ \A i \in 1 .. Len(s) - 1 : Tail(s)[i] = s[i + 1]
  BY <1>1, HeadTailProperties
<1>3. Head(s) = s[1] /\ 1 \in DOMAIN s  BY <1>1, HeadTailProperties
<1>4. Head(s) \in T /\ Head(s) \in ToSet(s)  BY <1>1, <1>3 DEF ToSet
<1>5. ToSet(s) = {Head(s)} \cup ToSet(Tail(s))
  <2>1. ASSUME NEW e \in ToSet(s), e # Head(s) PROVE e \in ToSet(Tail(s))
    <3>1. PICK i \in DOMAIN s : e = s[i]  BY DEF ToSet
    <3>2. i # 1  BY <1>3, <2>1, <3>1
    <3>3. i - 1 \in 1 .. Len(s) - 1 /\ i - 1 + 1 = i  BY <1>1, <3>2
    <3>4. e = Tail(s)[i - 1]  BY <1>2, <3>1, <3>3
    <3> QED BY <1>2, <3>3, <3>4 DEF ToSet
  <2>2. ASSUME NEW e \in ToSet(Tail(s)) PROVE e \in ToSet(s)
    <3>1. PICK i \in 1 .. Len(s) - 1 : e = Tail(s)[i]  BY <1>2 DEF ToSet
    <3>2. i + 1 \in DOMAIN s /\ e = s[i + 1]  BY <1>1, <1>2, <3>1
    <3> QED BY <3>2 DEF ToSet
  <2> QED BY <1>4, <2>1, <2>2
<1>6. ASSUME IsInjective(s) PROVE IsInjective(Tail(s)) /\ Head(s) \notin ToSet(Tail(s))
  <2>1. \A i \in 1 .. Len(s) - 1 : i + 1 \in DOMAIN s /\ i + 1 # 1 /\ i \in Int  BY <1>1
  <2>2. IsInjective(Tail(s))
    <3> SUFFICES ASSUME NEW a \in DOMAIN Tail(s), NEW b \in DOMAIN Tail(s), Tail(s)[a] = Tail(s)[b] PROVE a = b
      BY Zenon DEF IsInjective
    <3>1. s[a + 1] = s[b + 1] /\ a + 1 \in DOMAIN s /\ b + 1 \in DOMAIN s  BY <1>2, <2>1
    <3>2. a + 1 = b + 1  BY <1>6, <3>1, Zenon DEF IsInjective
    <3> QED BY <1>2, <2>1, <3>2
  <2>3. ASSUME Head(s) \in ToSet(Tail(s)) PROVE FALSE
    <3>1. PICK i \in 1 .. Len(s) - 1 : Head(s) = s[i + 1]  BY <1>2, <2>3 DEF ToSet
    <3> QED BY <1>3, <1>6, <2>1, <3>1 DEF IsInjective
  <2> QED BY <2>2, <2>3
<1> QED BY <1>2, <1>4, <1>5, <1>6

\* What was not in a queue is appended.
LEMMA Appended ==
  ASSUME NEW T, NEW c \in Seq(T), NEW e \in T
  PROVE  /\ Append(c, e) \in Seq(T) /\ Append(c, e) # <<>>
         /\ ToSet(Append(c, e)) = ToSet(c) \cup {e}
         /\ c # <<>> => Head(Append(c, e)) = Head(c)
         /\ c = <<>> => Head(Append(c, e)) = e
         /\ IsInjective(c) /\ e \notin ToSet(c) => IsInjective(Append(c, e))
<1> DEFINE d == Append(c, e)
<1>1. Len(c) \in Nat /\ DOMAIN c = 1 .. Len(c)  BY LenProperties
<1>2. /\ d \in Seq(T) /\ DOMAIN d = 1 .. Len(c) + 1 /\ Len(d) = Len(c) + 1
      /\ \A j \in 1 .. Len(c) : d[j] = c[j]
      /\ d[Len(c) + 1] = e
  BY <1>1, AppendProperties
<1> HIDE DEF d
<1>3. \A j \in DOMAIN d : j = Len(c) + 1 \/ j \in DOMAIN c  BY <1>1, <1>2
<1>4. \A j \in DOMAIN c : j \in DOMAIN d /\ d[j] = c[j] /\ c[j] \in ToSet(c)  BY <1>1, <1>2 DEF ToSet
<1>5. Len(c) + 1 \in DOMAIN d  BY <1>1, <1>2
<1>6. ASSUME IsInjective(c), e \notin ToSet(c) PROVE IsInjective(d)
  <2> SUFFICES ASSUME NEW a \in DOMAIN d, NEW b \in DOMAIN d, d[a] = d[b] PROVE a = b
    BY Zenon DEF IsInjective
  <2> QED BY <1>2, <1>3, <1>4, <1>6 DEF IsInjective
<1>7. ToSet(d) = ToSet(c) \cup {e}
  <2>1. \A z : z \in ToSet(d) => z \in ToSet(c) \cup {e}  BY <1>2, <1>3, <1>4 DEF ToSet
  <2>2. \A z : z \in ToSet(c) => z \in ToSet(d)  BY <1>4 DEF ToSet
  <2>3. e \in ToSet(d)  BY <1>2, <1>5 DEF ToSet
  <2> QED BY <2>1, <2>2, <2>3
<1>8. d # <<>>  BY <1>1, <1>2, EmptySeq
<1>9. Head(d) = d[1]  BY <1>2, <1>8, HeadTailProperties
<1>10. CASE c = <<>>
  <2>1. Len(c) = 0  BY <1>10, EmptySeq
  <2> QED BY <1>2, <1>6, <1>7, <1>8, <1>9, <1>10, <2>1 DEF d
<1>11. CASE c # <<>>
  <2>1. Len(c) >= 1 /\ Head(c) = c[1]  BY <1>1, <1>11, EmptySeq, HeadTailProperties
  <2>2. d[1] = c[1]  BY <1>1, <1>2, <2>1
  <2> QED BY <1>2, <1>6, <1>7, <1>8, <1>9, <1>11, <2>1, <2>2 DEF d
<1> QED BY <1>10, <1>11

\* What RemoveAt leaves.
LEMMA Removed ==
  ASSUME NEW T, NEW s \in Seq(T), NEW k \in 1 .. Len(s)
  PROVE  /\ RemoveAt(s, k) \in Seq(T)
         /\ Len(RemoveAt(s, k)) = Len(s) - 1
         /\ \A i \in 1 .. Len(s) - 1 : RemoveAt(s, k)[i] = s[IF i < k THEN i ELSE i + 1]
<1> DEFINE a == SubSeq(s, 1, k - 1)
           b == SubSeq(s, k + 1, Len(s))
           n == Len(s)
<1>1. n \in Nat /\ k \in Int /\ 1 =< k /\ k =< n /\ \A i \in 1 .. n : s[i] \in T
  BY LenProperties, ElementOfSeq
<1>2. /\ a \in Seq(T) /\ Len(a) = k - 1
      /\ \A i \in 1 .. k - 1 : a[i] = s[i]
  <2>1. \A i \in 1 .. k - 1 : s[i] \in T  BY <1>1
  <2>2. 1 \in Int /\ k - 1 \in Int  BY <1>1
  <2>3. a \in Seq(T) /\ Len(a) = (IF 1 =< k - 1 THEN k - 1 - 1 + 1 ELSE 0)
        /\ \A i \in 1 .. k - 1 - 1 + 1 : a[i] = s[1 + i - 1]
    BY <2>1, <2>2, SubSeqProperties
  <2> HIDE DEF a
  <2> QED BY <1>1, <2>3
<1>3. /\ b \in Seq(T) /\ Len(b) = n - k
      /\ \A i \in 1 .. n - k : b[i] = s[k + i]
  <2>1. \A i \in k + 1 .. n : s[i] \in T  BY <1>1
  <2>2. k + 1 \in Int /\ n \in Int  BY <1>1
  <2>3. b \in Seq(T) /\ Len(b) = (IF k + 1 =< n THEN n - (k + 1) + 1 ELSE 0)
        /\ \A i \in 1 .. n - (k + 1) + 1 : b[i] = s[k + 1 + i - 1]
    BY <2>1, <2>2, SubSeqProperties
  <2> HIDE DEF b
  <2> QED BY <1>1, <2>3
<1>4. RemoveAt(s, k) = a \o b  BY DEF RemoveAt
<1> HIDE DEF a, b, n
<1>5. a \o b \in Seq(T) /\ Len(a \o b) = n - 1
      /\ \A i \in 1 .. n - 1 : (a \o b)[i] = IF i =< k - 1 THEN a[i] ELSE b[i - (k - 1)]
  <2>1. Len(a) + Len(b) = n - 1  BY <1>1, <1>2, <1>3
  <2> QED BY <1>2, <1>3, <2>1, ConcatProperties
<1>6. ASSUME NEW i \in 1 .. n - 1 PROVE (a \o b)[i] = s[IF i < k THEN i ELSE i + 1]
  <2>1. CASE i < k  BY <1>1, <1>2, <1>5, <2>1
  <2>2. CASE ~(i < k)
    <3>1. i - (k - 1) \in 1 .. n - k /\ k + (i - (k - 1)) = i + 1  BY <1>1, <2>2
    <3>2. b[i - (k - 1)] = s[i + 1]  BY <1>3, <3>1
    <3>3. ~(i =< k - 1)  BY <1>1, <2>2
    <3> QED BY <1>5, <2>2, <3>2, <3>3
  <2> QED BY <2>1, <2>2
<1> QED BY <1>4, <1>5, <1>6 DEF n

\* The entry of e is taken out of a queue that holds nothing twice.
LEMMA TakenOut ==
  ASSUME NEW T, NEW s \in Seq(T), IsInjective(s), NEW e
  PROVE  /\ Without(s, e) \in Seq(T) /\ IsInjective(Without(s, e))
         /\ ToSet(Without(s, e)) = ToSet(s) \ {e}
         /\ s # <<>> /\ Head(s) # e => Without(s, e) # <<>> /\ Head(Without(s, e)) = Head(s)
<1>1. CASE e \notin ToSet(s)  BY <1>1 DEF Without
<1>2. CASE e \in ToSet(s)
  <2>1. Len(s) \in Nat /\ DOMAIN s = 1 .. Len(s)  BY LenProperties
  <2> DEFINE k == CHOOSE i \in DOMAIN s : s[i] = e
             d == RemoveAt(s, k)
             n == Len(s)
             from(i) == IF i < k THEN i ELSE i + 1
  <2>2. k \in 1 .. Len(s) /\ s[k] = e  BY <1>2, <2>1 DEF ToSet
  <2>3. Without(s, e) = d  BY <1>2 DEF Without
  <2> HIDE DEF k
  <2>4. d \in Seq(T) /\ Len(d) = n - 1 /\ \A i \in 1 .. n - 1 : d[i] = s[from(i)]
    BY <2>2, Removed
  <2>5. DOMAIN d = 1 .. n - 1  BY <2>4, LenProperties
  <2> HIDE DEF d
  <2>6. \A i \in 1 .. n - 1 : from(i) \in DOMAIN s /\ from(i) # k  BY <2>1, <2>2
  <2>7. \A i, j \in 1 .. n - 1 : from(i) = from(j) => i = j  BY <2>1, <2>2
  <2>8. \A j \in DOMAIN s : j # k => \E i \in 1 .. n - 1 : j = from(i)
    <3> SUFFICES ASSUME NEW j \in DOMAIN s, j # k PROVE \E i \in 1 .. n - 1 : j = from(i)  OBVIOUS
    <3>1. CASE j < k
      <4>1. j \in 1 .. n - 1 /\ j = from(j)  BY <2>1, <2>2, <3>1
      <4> QED BY <4>1
    <3>2. CASE j > k
      <4>1. j - 1 \in 1 .. n - 1 /\ j = from(j - 1)  BY <2>1, <2>2, <3>2
      <4> QED BY <4>1
    <3> QED BY <2>1, <2>2, <3>1, <3>2
  <2>9. s # <<>> /\ Head(s) # e => d # <<>> /\ Head(d) = Head(s)
    <3> SUFFICES ASSUME s # <<>>, Head(s) # e PROVE d # <<>> /\ Head(d) = Head(s)  OBVIOUS
    <3>1. Head(s) = s[1]  BY HeadTailProperties
    <3>2. 1 < k /\ 1 \in 1 .. n - 1  BY <2>1, <2>2, <3>1
    <3>3. d # <<>>  BY <2>1, <2>4, <3>2, EmptySeq
    <3>4. Head(d) = d[1]  BY <2>4, <3>3, HeadTailProperties
    <3> QED BY <2>4, <3>1, <3>2, <3>3, <3>4
  <2> HIDE DEF from, n
  <2>10. IsInjective(d)
    <3> SUFFICES ASSUME NEW a \in DOMAIN d, NEW b \in DOMAIN d, d[a] = d[b] PROVE a = b
      BY Zenon DEF IsInjective
    <3>1. s[from(a)] = s[from(b)] /\ from(a) \in DOMAIN s /\ from(b) \in DOMAIN s  BY <2>4, <2>5, <2>6
    <3>2. from(a) = from(b)  BY <3>1, Zenon DEF IsInjective
    <3> QED BY <2>5, <2>7, <3>2
  <2>11. ToSet(d) = ToSet(s) \ {e}
    <3>1. ASSUME NEW x \in ToSet(d) PROVE x \in ToSet(s) /\ x # e
      <4>1. PICK i \in 1 .. n - 1 : x = s[from(i)]  BY <2>4, <2>5 DEF ToSet
      <4>2. from(i) \in DOMAIN s /\ from(i) # k /\ k \in DOMAIN s  BY <2>1, <2>2, <2>6
      <4>3. s[from(i)] # s[k]  BY <4>2, Zenon DEF IsInjective
      <4> QED BY <2>2, <4>1, <4>2, <4>3 DEF ToSet
    <3>2. ASSUME NEW x \in ToSet(s), x # e PROVE x \in ToSet(d)
      <4>1. PICK j \in DOMAIN s : x = s[j]  BY DEF ToSet
      <4>2. PICK i \in 1 .. n - 1 : j = from(i)  BY <2>2, <2>8, <3>2, <4>1
      <4> QED BY <2>4, <2>5, <4>1, <4>2 DEF ToSet
    <3> QED BY <3>1, <3>2
  <2> QED BY <2>3, <2>4, <2>9, <2>10, <2>11
<1> QED BY <1>1, <1>2

-----------------------------------------------------------------------------
(* The invariant *)

World ==
  [trans : [Trans -> ProtTransaction], queue : Seq(Trans), active : BOOLEAN,
   conn : [Managers -> Manager], fallback : [Places -> 0 .. 2], events : [Trans -> Seq(Events)],
   client : [Trans -> Clients], panic : SUBSET Assertions]

Idle == {"EIdle", "EIdleConnected", "EClosing"}

\* While the first request of a connection is being served the others wait behind it,
\* unless the server has said that the connection will be closed.
FirstCurrent(c) ==
  c.first => /\ c.request \in {Head(c.responses), None}
             /\ ToSet(Tail(c.responses)) \subseteq ToSet(c.pending)
             /\ c.request = None => c.cannotPipeline

\* A manager c: nobody waits for an idle one, and those who wait for another are
\* for its host.
Placed(c) == \A t \in ToSet(c.responses) : c.place = Place[t] /\ c.secure = (t \in Secure)
Shape(c) ==
  /\ IsInjective(c.responses) /\ IsInjective(c.pending)
  /\ ToSet(c.pending) \subseteq ToSet(c.responses)
  /\ c.request \in ToSet(c.responses) \cup {None}
  /\ c.responses = <<>> => c.state \in Idle /\ ~c.cannotPipeline
  /\ c.responses # <<>> => c.state \notin Idle /\ FirstCurrent(c)
  /\ Placed(c)
  /\ c.exists \/ c.state = "EIdle"

\* A transaction waits for the manager it knows, and is active.
Owned(w) ==
  /\ \A t \in Trans, m \in Managers : t \in ToSet(w.conn[m].responses) <=> w.trans[t].manager = m
  /\ \A t \in Trans : w.trans[t].manager # 0 => w.trans[t].state = "EActive" /\ t \in ToSet(w.queue)

\* Managers are created in their order and not deleted.
Created(w) == \E k \in 0 .. MaxConnectionManagers : \A m \in Managers : w.conn[m].exists <=> m <= k

Good(w) ==
  /\ w \in World /\ w.panic = {}
  /\ IsInjective(w.queue)
  /\ \A m \in Managers : Shape(w.conn[m])
  /\ Owned(w) /\ Created(w)

IInv == Good(world) /\ submits \in 0 .. MaxSubmits

-----------------------------------------------------------------------------
(* What a call does to a world *)

\* v is w after a call for manager m, at which the transactions of S have lost
\* their manager and the others have not changed.
Moves(w, v, m, S) ==
  /\ v \in World /\ v.panic = w.panic /\ v.queue = w.queue
  /\ \A n \in Managers \ {m} : v.conn[n] = w.conn[n]
  /\ v.conn[m].exists = w.conn[m].exists
  /\ \A t \in Trans \ S : v.trans[t] = w.trans[t]
  /\ \A t \in Trans \cap S : v.trans[t].manager = 0

\* The function f with another value at i; w with another manager c at m.
Upd(f, i, x) == [f EXCEPT ![i] = x]
SetManager(w, m, c) == [w EXCEPT !.conn = Upd(w.conn, m, c)]
SetTransaction(w, t, r) == [w EXCEPT !.trans = Upd(w.trans, t, r)]
SetEvents(w, t, q) == [w EXCEPT !.events = Upd(w.events, t, q)]

\* The members of a world.
LEMMA Members ==
  ASSUME NEW w \in World
  PROVE  /\ w.trans \in [Trans -> ProtTransaction] /\ w.queue \in Seq(Trans) /\ w.active \in BOOLEAN
         /\ w.conn \in [Managers -> Manager] /\ w.fallback \in [Places -> 0 .. 2]
         /\ w.events \in [Trans -> Seq(Events)] /\ w.client \in [Trans -> Clients]
         /\ w.panic \in SUBSET Assertions
  BY DEF World

\* The members of a manager.
LEMMA ManagerMembers ==
  ASSUME NEW c \in Manager
  PROVE  /\ c.exists \in BOOLEAN /\ c.state \in ConnStates /\ c.place \in Places /\ c.secure \in BOOLEAN
         /\ c.persistent \in BOOLEAN /\ c.cannotPipeline \in BOOLEAN /\ c.first \in BOOLEAN
         /\ c.pendingWrite \in BOOLEAN /\ c.request \in Trans \cup {None}
         /\ c.pending \in Seq(Trans) /\ c.responses \in Seq(Trans)
  BY DEF Manager

LEMMA UpdIs ==
  ASSUME NEW S, NEW T, NEW f \in [S -> T], NEW i \in S, NEW x \in T
  PROVE  Upd(f, i, x) \in [S -> T]
  BY DEF Upd

\* Two calls for one manager, one after the other.
LEMMA MovesTwice ==
  ASSUME NEW u \in World, NEW v, NEW w, NEW m \in Managers, NEW S, NEW R, Moves(u, v, m, S), Moves(v, w, m, R)
  PROVE  Moves(u, w, m, S \cup R)
<1>1. \A t \in Trans : v.trans[t].manager = 0 => w.trans[t].manager = 0  BY DEF Moves
<1>2. \A t \in Trans \cap (S \cup R) : w.trans[t].manager = 0  BY <1>1 DEF Moves
<1> QED BY <1>2 DEF Moves

\* A manager changes.
LEMMA ManagerMoves ==
  ASSUME NEW w \in World, NEW m \in Managers, NEW c \in Manager, c.exists = w.conn[m].exists
  PROVE  Moves(w, SetManager(w, m, c), m, {}) /\ SetManager(w, m, c).conn[m] = c
<1> DEFINE f == Upd(w.conn, m, c)
           v == [w EXCEPT !.conn = f]
<1>1. f \in [Managers -> Manager] /\ f[m] = c /\ \A n \in Managers : n # m => f[n] = w.conn[n]
  <2>1. w.conn \in [Managers -> Manager]  BY Members
  <2>2. f \in [Managers -> Manager]  BY <2>1, UpdIs
  <2>3. f[m] = c /\ \A n \in Managers : n # m => f[n] = w.conn[n]  BY <2>1 DEF Upd
  <2> QED BY <2>2, <2>3
<1> HIDE DEF f
<1>2. v \in World /\ v.panic = w.panic /\ v.queue = w.queue /\ v.conn = f /\ v.trans = w.trans
  BY <1>1 DEF World
<1> HIDE DEF v
<1>3. v = SetManager(w, m, c)  BY DEF SetManager, v, f
<1> QED BY <1>1, <1>2, <1>3 DEF Moves

\* The transactions of S lose their managers; these do not change.
Tells(w, v, S) ==
  /\ v \in World /\ v.panic = w.panic /\ v.queue = w.queue /\ v.conn = w.conn
  /\ \A t \in Trans \ S : v.trans[t] = w.trans[t]
  /\ \A t \in Trans \cap S : v.trans[t].manager = 0
LEMMA TellsMoves == ASSUME NEW w, NEW v, NEW S, Tells(w, v, S), NEW m \in Managers PROVE Moves(w, v, m, S)
  BY DEF Tells, Moves
LEMMA TellsTwice ==
  ASSUME NEW u, NEW v, NEW w, NEW S, NEW R, Tells(u, v, S), Tells(v, w, R) PROVE Tells(u, w, S \cup R)
<1>1. \A t \in Trans : v.trans[t].manager = 0 => w.trans[t].manager = 0  BY DEF Tells
<1>2. \A t \in Trans \cap (S \cup R) : w.trans[t].manager = 0  BY <1>1 DEF Tells
<1> QED BY <1>2 DEF Tells

\* A transaction loses its manager.
LEMMA TransactionTells ==
  ASSUME NEW w \in World, NEW t \in Trans, NEW r \in ProtTransaction, r.manager = 0
  PROVE  Tells(w, SetTransaction(w, t, r), {t})
<1> DEFINE f == Upd(w.trans, t, r)
           v == [w EXCEPT !.trans = f]
<1>1. f \in [Trans -> ProtTransaction] /\ f[t] = r /\ \A n \in Trans : n # t => f[n] = w.trans[n]
  <2>1. w.trans \in [Trans -> ProtTransaction]  BY Members
  <2>2. f \in [Trans -> ProtTransaction]  BY <2>1, UpdIs
  <2>3. f[t] = r /\ \A n \in Trans : n # t => f[n] = w.trans[n]  BY <2>1 DEF Upd
  <2> QED BY <2>2, <2>3
<1> HIDE DEF f
<1>2. v \in World /\ v.panic = w.panic /\ v.queue = w.queue /\ v.conn = w.conn /\ v.trans = f
  BY <1>1 DEF World
<1> HIDE DEF v
<1>3. v = SetTransaction(w, t, r)  BY DEF SetTransaction, v, f
<1> QED BY <1>1, <1>2, <1>3 DEF Tells

\* Only what nobody else depends on changes.
Same(w, v) ==
  /\ v \in World /\ v.panic = w.panic /\ v.queue = w.queue /\ v.conn = w.conn
  /\ v.trans = w.trans
LEMMA SameMoves == ASSUME NEW w, NEW v, Same(w, v), NEW m \in Managers PROVE Moves(w, v, m, {})
  BY DEF Same, Moves
LEMMA SameTells == ASSUME NEW w, NEW v, Same(w, v) PROVE Tells(w, v, {})
  BY DEF Same, Tells
LEMMA SameTwice == ASSUME NEW u, NEW v, NEW w, Same(u, v), Same(v, w) PROVE Same(u, w)
  BY DEF Same
LEMMA SameGood == ASSUME NEW w, NEW v, Good(w), Same(w, v) PROVE Good(v)
  BY DEF Good, Same, Owned, Created

\* CompleteSelf, SendEvent and InsertPipelineFailedHost.
LEMMA ActiveSame == ASSUME NEW w \in World, NEW b \in BOOLEAN PROVE Same(w, [w EXCEPT !.active = b])
  BY DEF World, Same
LEMMA EventsSame ==
  ASSUME NEW w \in World, NEW t \in Trans, NEW q \in Seq(Events)
  PROVE  Same(w, SetEvents(w, t, q))
<1> DEFINE f == Upd(w.events, t, q)
<1>1. f \in [Trans -> Seq(Events)]
  <2>1. w.events \in [Trans -> Seq(Events)]  BY Members
  <2> QED BY <2>1, UpdIs
<1> HIDE DEF f
<1>2. Same(w, [w EXCEPT !.events = f])  BY <1>1 DEF World, Same
<1> QED BY <1>2 DEF SetEvents, f
LEMMA SendEventSame ==
  ASSUME NEW w \in World, NEW t \in Trans, NEW e \in Events
  PROVE  Same(w, SendEvent(w, t, e))
<1> DEFINE q == Append(w.events[t], e)
<1>1. w.events \in [Trans -> Seq(Events)]  BY Members
<1>2. q \in Seq(Events)  BY <1>1, AppendProperties
<1>3. SendEvent(w, t, e) = SetEvents(w, t, q)  BY DEF SendEvent, SetEvents, Upd
<1> HIDE DEF q
<1> QED BY <1>2, <1>3, EventsSame
LEMMA FallbackSame ==
  ASSUME NEW w \in World, NEW p \in Places PROVE Same(w, InsertPipelineFailedHost(w, p))
<1> DEFINE x == IF w.fallback[p] < 2 THEN w.fallback[p] + 1 ELSE w.fallback[p]
           f == Upd(w.fallback, p, x)
           v == [w EXCEPT !.fallback = f]
<1>1. w.fallback[p] \in 0 .. 2  BY Members
<1>2. x \in 0 .. 2  BY <1>1
<1>3. f \in [Places -> 0 .. 2]  BY <1>2, Members, UpdIs
<1>4. v = InsertPipelineFailedHost(w, p)  BY DEF Upd, InsertPipelineFailedHost
<1> HIDE DEF f
<1>5. Same(w, v)  BY <1>3 DEF World, Same
<1> QED BY <1>4, <1>5
LEMMA CompleteIfActiveSame == ASSUME NEW w \in World, NEW t PROVE Same(w, CompleteIfActive(w, t))
  BY ActiveSame DEF CompleteIfActive, CompleteSelf, Same

-----------------------------------------------------------------------------
(* What the managers report *)

Reported == Errors \cup {"KErrEof"}

\* SetStatus: the transaction is completed, without a manager.
LEMMA SetStatusTells ==
  ASSUME NEW w \in World, NEW t \in Trans, NEW e \in Reported
  PROVE  Tells(w, SetStatusError(w, t, e), {t})
<1> DEFINE r0 == w.trans[t]
           r1 == IF e = "KErrHttpPipeliningError" THEN [r0 EXCEPT !.pipelining = FALSE] ELSE r0
           r2 == [r1 EXCEPT !.manager = 0]
           v2 == SetTransaction(w, t, r2)
           ev == IF e = "KErrEof" THEN "KErrDisconnected" ELSE e
           v3 == CompleteIfActive(SendEvent(v2, t, ev), t)
           r3 == [v3.trans[t] EXCEPT !.state = "ECompleted"]
           v4 == SetTransaction(v3, t, r3)
<1>1. r0 \in ProtTransaction  BY DEF World
<1>2. r2 \in ProtTransaction /\ r2.manager = 0
  <2>1. [r0 EXCEPT !.pipelining = FALSE] \in ProtTransaction  BY <1>1 DEF ProtTransaction
  <2>2. r1 \in ProtTransaction  BY <1>1, <2>1
  <2> HIDE DEF r1
  <2> QED BY <2>2, ConstantsAssumption DEF ProtTransaction
<1>3. Tells(w, v2, {t})
  <2> HIDE DEF r2
  <2> QED BY <1>2, TransactionTells
<1>4. v2 \in World  BY <1>3 DEF Tells
<1>5. ev \in Events  BY DEF Reported, Events, Errors
<1>6. SetStatusError(w, t, e) = v4
  <2> DEFINE w1 == IF e = "KErrHttpPipeliningError" THEN [w EXCEPT !.trans[t].pipelining = FALSE] ELSE w
  <2>1. [w1 EXCEPT !.trans[t].manager = 0] = v2
    BY DEF SetTransaction, Upd, World
  <2> HIDE DEF v2, w1, ev
  <2>2. TransactionCompleted([w1 EXCEPT !.trans[t].manager = 0], t, ev) = v4
    BY <2>1 DEF TransactionCompleted, SetTransaction, Upd
  <2>3. SetStatusError(w, t, e) = TransactionCompleted([w1 EXCEPT !.trans[t].manager = 0], t, ev)
    BY DEF SetStatusError, w1, ev
  <2> QED BY <2>2, <2>3
<1> HIDE DEF v2, ev
<1>7. Same(v2, v3)
  <2>1. Same(v2, SendEvent(v2, t, ev))  BY <1>4, <1>5, SendEventSame
  <2>2. SendEvent(v2, t, ev) \in World  BY <2>1 DEF Same
  <2>3. Same(SendEvent(v2, t, ev), v3)  BY <2>2, CompleteIfActiveSame
  <2> QED BY <2>1, <2>3, SameTwice
<1> HIDE DEF v3
<1>8. v3 \in World /\ v3.trans[t].manager = 0  BY <1>3, <1>7 DEF Same, Tells
<1>9. r3 \in ProtTransaction /\ r3.manager = 0
  <2>1. v3.trans[t] \in ProtTransaction  BY <1>8 DEF World
  <2> QED BY <1>8, <2>1 DEF ProtTransaction, ProtStates
<1>10. Tells(v3, v4, {t})
  <2> HIDE DEF r3
  <2> QED BY <1>8, <1>9, TransactionTells
<1>11. Tells(v2, v3, {})  BY <1>7, SameTells
<1>12. Tells(w, v3, {t} \cup {})  BY <1>3, <1>11, TellsTwice
<1>13. Tells(w, v4, {t} \cup {} \cup {t})  BY <1>10, <1>12, TellsTwice
<1>14. {t} \cup {} \cup {t} = {t}  OBVIOUS
<1> QED BY <1>6, <1>13, <1>14

\* ConnectionError, which may ask for a retry instead.
LEMMA ErrorTells ==
  ASSUME NEW w \in World, NEW t \in Trans, NEW e \in Reported
  PROVE  Tells(w, ConnectionError(w, t, e), {t})
<1> DEFINE x == IF e = "KErrEof" /\ RetryNeeded(w, t) /\ w.conn[w.trans[t].manager].persistent
                THEN "KErrHttpNonPipeliningError" ELSE e
<1>1. x \in Reported  BY DEF Reported, Errors
<1>2. ConnectionError(w, t, e) = SetStatusError(w, t, x)  BY DEF ConnectionError
<1> HIDE DEF x
<1> QED BY <1>1, <1>2, SetStatusTells

\* The responses c of length l are told the error e one after the other.
Telling(f, w, c, l, k, e) ==
  f = [n \in 0 .. k |-> IF n = 0 THEN w ELSE ConnectionError(f[n - 1], c[l - n + 1], e)]

LEMMA TellingExists ==
  ASSUME NEW w, NEW c, NEW l, NEW e, NEW k \in Nat
  PROVE  \E f : Telling(f, w, c, l, k, e)
<1> DEFINE S == {n \in Nat : \E f : Telling(f, w, c, l, n, e)}
<1>1. 0 \in S
  <2> DEFINE f == [n \in 0 .. 0 |-> w]
  <2>1. Telling(f, w, c, l, 0, e)  BY DEF Telling
  <2> QED BY <2>1
<1>2. ASSUME NEW n \in Nat, n \in S PROVE n + 1 \in S
  <2>1. PICK f : Telling(f, w, c, l, n, e)  BY <1>2
  <2> DEFINE g == [i \in 0 .. n + 1 |-> IF i = 0 THEN w ELSE ConnectionError(f[i - 1], c[l - i + 1], e)]
  <2>2. \A i \in 0 .. n : g[i] = f[i]
    <3> SUFFICES ASSUME NEW i \in 0 .. n PROVE g[i] = f[i]  OBVIOUS
    <3>1. f[i] = IF i = 0 THEN w ELSE ConnectionError(f[i - 1], c[l - i + 1], e)  BY <2>1 DEF Telling
    <3>2. i \in 0 .. n + 1  OBVIOUS
    <3> QED BY <3>1, <3>2
  <2>3. \A i \in 0 .. n + 1 : i # 0 => i - 1 \in 0 .. n  OBVIOUS
  <2>4. g = [i \in 0 .. n + 1 |-> IF i = 0 THEN w ELSE ConnectionError(g[i - 1], c[l - i + 1], e)]
    <3>1. \A i \in 0 .. n + 1 : i # 0 => g[i - 1] = f[i - 1]  BY <2>2, <2>3
    <3> HIDE DEF g
    <3>2. g = [i \in 0 .. n + 1 |-> IF i = 0 THEN w ELSE ConnectionError(f[i - 1], c[l - i + 1], e)]  BY DEF g
    <3> QED BY <3>1, <3>2
  <2> HIDE DEF g
  <2>5. Telling(g, w, c, l, n + 1, e)  BY <2>4 DEF Telling
  <2> QED BY <2>5
<1> HIDE DEF S
<1>3. k \in S  BY <1>1, <1>2, SetInduction
<1> QED BY <1>3 DEF S

\* All but the first have lost their manager then.
LEMMA ToldAll ==
  ASSUME NEW w \in World, NEW c \in Seq(Trans), c # <<>>, NEW e \in Reported, NEW f,
         Telling(f, w, c, Len(c), Len(c) - 1, e)
  PROVE  Tells(w, f[Len(c) - 1], ToSet(Tail(c)))
<1> DEFINE l == Len(c)
           Late(n) == {c[i] : i \in l - n + 1 .. l}
           S == {n \in Nat : n <= l - 1 => Tells(w, f[n], Late(n))}
<1>1. l \in Nat /\ l >= 1 /\ DOMAIN c = 1 .. l /\ c \in [1 .. l -> Trans]  BY LenProperties, EmptySeq
<1>2. \A n \in 0 .. l - 1 : f[n] = IF n = 0 THEN w ELSE ConnectionError(f[n - 1], c[l - n + 1], e)
  BY DEF Telling
<1> HIDE DEF l
<1>3. 0 \in S
  <2>1. f[0] = w  BY <1>1, <1>2
  <2>2. Late(0) = {}  BY <1>1
  <2>3. Tells(w, w, {})  BY DEF Tells
  <2> QED BY <2>1, <2>2, <2>3
<1>4. ASSUME NEW n \in Nat, n \in S PROVE n + 1 \in S
  <2> SUFFICES ASSUME n + 1 <= l - 1 PROVE Tells(w, f[n + 1], Late(n + 1))  OBVIOUS
  <2>1. n <= l - 1 /\ n + 1 \in 0 .. l - 1 /\ n + 1 # 0 /\ n + 1 - 1 = n  BY <1>1
  <2>2. Tells(w, f[n], Late(n))  BY <1>4, <2>1
  <2>3. f[n + 1] = ConnectionError(f[n], c[l - (n + 1) + 1], e)  BY <1>2, <2>1
  <2>4. l - (n + 1) + 1 = l - n /\ l - n \in 1 .. l /\ l - (n + 1) + 1 \in 1 .. l  BY <1>1, <2>1
  <2>5. c[l - n] \in Trans /\ f[n] \in World  BY <1>1, <2>2, <2>4 DEF Tells
  <2>6. Tells(f[n], f[n + 1], {c[l - n]})  BY <2>3, <2>4, <2>5, ErrorTells
  <2>7. Late(n + 1) = Late(n) \cup {c[l - n]}  BY <1>1, <2>1, <2>4
  <2> HIDE DEF Late
  <2> QED BY <2>2, <2>6, <2>7, TellsTwice
<1> HIDE DEF S
<1>5. l - 1 \in S
  <2>1. l - 1 \in Nat  BY <1>1
  <2> QED BY <1>3, <1>4, <2>1, SetInduction
<1>6. Tells(w, f[l - 1], Late(l - 1))  BY <1>1, <1>5 DEF S
<1>7. Late(l - 1) = ToSet(Tail(c))
  <2>1. DOMAIN Tail(c) = 1 .. l - 1 /\ \A i \in 1 .. l - 1 : Tail(c)[i] = c[i + 1]
    BY <1>1, HeadTailProperties DEF l
  <2>2. ASSUME NEW i \in l - (l - 1) + 1 .. l PROVE c[i] \in ToSet(Tail(c))
    <3>1. i - 1 \in 1 .. l - 1 /\ i - 1 + 1 = i  BY <1>1
    <3>2. Tail(c)[i - 1] = c[i]  BY <2>1, <3>1
    <3> QED BY <2>1, <3>1, <3>2 DEF ToSet
  <2>3. ASSUME NEW x \in ToSet(Tail(c)) PROVE x \in Late(l - 1)
    <3>1. PICK i \in 1 .. l - 1 : x = c[i + 1]  BY <2>1 DEF ToSet
    <3>2. i + 1 \in l - (l - 1) + 1 .. l  BY <1>1
    <3> QED BY <3>1, <3>2
  <2> QED BY <2>2, <2>3
<1> QED BY <1>6, <1>7 DEF l

-----------------------------------------------------------------------------
(* What a call makes of a manager c *)

\* Only its current response is left; nothing is; it is idle; it connects again.
Warned(c) == [c EXCEPT !.responses = <<Head(c.responses)>>, !.pending = <<>>]
Forgotten(c) == [c EXCEPT !.request = None, !.pending = <<>>, !.responses = <<>>]
IdleOf(c) ==
  [c EXCEPT !.state = "EIdle", !.cannotPipeline = FALSE, !.pendingWrite = FALSE,
            !.place = NewManager.place, !.secure = FALSE, !.persistent = TRUE]
Reconnecting(c) == [c EXCEPT !.pendingWrite = FALSE, !.state = "EConnecting"]
Closing(c) == [c EXCEPT !.state = "EClosing"]

LEMMA WarnedIs ==
  ASSUME NEW c \in Manager, c.responses # <<>>
  PROVE  /\ Warned(c) \in Manager
         /\ Warned(c).responses = <<Head(c.responses)>> /\ Warned(c).pending = <<>>
         /\ Warned(c).exists = c.exists /\ Warned(c).state = c.state /\ Warned(c).request = c.request
         /\ Warned(c).cannotPipeline = c.cannotPipeline /\ Warned(c).first = c.first
         /\ Warned(c).place = c.place /\ Warned(c).secure = c.secure
<1>1. Head(c.responses) \in Trans  BY ManagerMembers, HeadAndTail
<1> DEFINE q == <<Head(c.responses)>>  e == <<>>
<1>2. q \in Seq(Trans)  BY <1>1
<1>3. e \in Seq(Trans)  OBVIOUS
<1>4. Warned(c) = [c EXCEPT !.responses = q, !.pending = e]  BY DEF Warned
<1> HIDE DEF q, e
<1>5. Warned(c) \in Manager /\ Warned(c).responses = q /\ Warned(c).pending = e
  BY <1>2, <1>3, <1>4 DEF Manager
<1>6. /\ Warned(c).exists = c.exists /\ Warned(c).state = c.state /\ Warned(c).request = c.request
      /\ Warned(c).cannotPipeline = c.cannotPipeline /\ Warned(c).first = c.first
      /\ Warned(c).place = c.place /\ Warned(c).secure = c.secure
  BY <1>4 DEF Manager
<1> QED BY <1>5, <1>6 DEF q, e

LEMMA ForgottenIs ==
  ASSUME NEW c \in Manager
  PROVE  /\ Forgotten(c) \in Manager
         /\ Forgotten(c).responses = <<>> /\ Forgotten(c).pending = <<>> /\ Forgotten(c).request = None
         /\ Forgotten(c).exists = c.exists /\ Forgotten(c).state = c.state
         /\ Forgotten(c).cannotPipeline = c.cannotPipeline
<1> DEFINE e == <<>>
<1>1. e \in Seq(Trans)  OBVIOUS
<1>2. Forgotten(c) = [c EXCEPT !.request = None, !.pending = e, !.responses = e]  BY DEF Forgotten
<1> HIDE DEF e
<1>3. Forgotten(c) \in Manager /\ Forgotten(c).responses = e /\ Forgotten(c).pending = e
  BY <1>1, <1>2 DEF Manager
<1>4. /\ Forgotten(c).request = None /\ Forgotten(c).exists = c.exists /\ Forgotten(c).state = c.state
      /\ Forgotten(c).cannotPipeline = c.cannotPipeline
  BY <1>2 DEF Manager
<1> QED BY <1>3, <1>4 DEF e

LEMMA PlaceThere == NewManager.place \in Places
  BY ConstantsAssumption DEF NewManager, Places

LEMMA IdleIs ==
  ASSUME NEW c \in Manager
  PROVE  /\ IdleOf(c) \in Manager
         /\ IdleOf(c).state = "EIdle" /\ IdleOf(c).cannotPipeline = FALSE /\ IdleOf(c).exists = c.exists
         /\ IdleOf(c).responses = c.responses /\ IdleOf(c).pending = c.pending
         /\ IdleOf(c).request = c.request /\ IdleOf(c).first = c.first
<1> DEFINE p == NewManager.place
<1>1. p \in Places  BY PlaceThere
<1> HIDE DEF p
<1> QED BY <1>1 DEF IdleOf, Manager, ConnStates, p

LEMMA ReconnectingIs ==
  ASSUME NEW c \in Manager
  PROVE  /\ Reconnecting(c) \in Manager
         /\ Reconnecting(c).state = "EConnecting" /\ Reconnecting(c).exists = c.exists
         /\ Reconnecting(c).cannotPipeline = c.cannotPipeline /\ Reconnecting(c).first = c.first
         /\ Reconnecting(c).responses = c.responses /\ Reconnecting(c).pending = c.pending
         /\ Reconnecting(c).request = c.request
         /\ Reconnecting(c).place = c.place /\ Reconnecting(c).secure = c.secure
  BY DEF Reconnecting, Manager, ConnStates

LEMMA ClosingIs ==
  ASSUME NEW c \in Manager
  PROVE  /\ Closing(c) \in Manager
         /\ Closing(c).state = "EClosing" /\ Closing(c).exists = c.exists
         /\ Closing(c).responses = c.responses /\ Closing(c).pending = c.pending
         /\ Closing(c).request = c.request /\ Closing(c).first = c.first
  BY DEF Closing, Manager, ConnStates

\* v is w after a call for m that has made c of it and at which S have lost their manager.
Takes(w, v, m, S, c) == Moves(w, v, m, S) /\ v.conn[m] = c

LEMMA TakesTwice ==
  ASSUME NEW u \in World, NEW v, NEW w, NEW m \in Managers, NEW S, NEW R, NEW c, NEW d,
         Takes(u, v, m, S, c), Takes(v, w, m, R, d)
  PROVE  Takes(u, w, m, S \cup R, d)
  BY MovesTwice DEF Takes

LEMMA SetTakes ==
  ASSUME NEW w \in World, NEW m \in Managers, NEW c \in Manager, c.exists = w.conn[m].exists
  PROVE  Takes(w, SetManager(w, m, c), m, {}, c)
  BY ManagerMoves DEF Takes

LEMMA TellsTakes ==
  ASSUME NEW w, NEW v, NEW S, Tells(w, v, S), NEW m \in Managers
  PROVE  Takes(w, v, m, S, w.conn[m])
  BY TellsMoves DEF Takes, Tells

LEMMA SameTakes ==
  ASSUME NEW w, NEW v, Same(w, v), NEW m \in Managers
  PROVE  Takes(w, v, m, {}, w.conn[m])
  BY SameMoves DEF Takes, Same

LEMMA ManagerThere == ASSUME NEW w \in World, NEW m \in Managers PROVE w.conn[m] \in Manager
  BY DEF World

\* SetIdleState, Forget and ReconnectSocket.
LEMMA SetIdleTakes ==
  ASSUME NEW w \in World, NEW m \in Managers
  PROVE  Takes(w, SetIdleState(w, m), m, {}, IdleOf(w.conn[m]))
<1> DEFINE p == NewManager.place
           c == w.conn[m]
           x == [w EXCEPT !.conn[m].state = "EIdle", !.conn[m].cannotPipeline = FALSE,
                          !.conn[m].pendingWrite = FALSE]
           y == [x EXCEPT !.conn[m].place = p, !.conn[m].secure = FALSE, !.conn[m].persistent = TRUE]
           d == [c EXCEPT !.state = "EIdle", !.cannotPipeline = FALSE, !.pendingWrite = FALSE]
           e == [d EXCEPT !.place = p, !.secure = FALSE, !.persistent = TRUE]
<1>2. c \in Manager  BY ManagerThere
<1>3. p \in Places  BY PlaceThere
<1>4. SetIdleState(w, m) = y  BY Zenon DEF SetIdleState
<1>5. e = IdleOf(c)
  <2> HIDE DEF p, c
  <2> QED BY <1>2 DEF IdleOf, Manager, p
<1> HIDE DEF p
<1>6. x = SetManager(w, m, d)  BY DEF SetManager, Upd, World, Manager
<1>7. d \in Manager /\ d.exists = c.exists
  <2> HIDE DEF c
  <2> QED BY <1>2 DEF Manager, ConnStates
<1> HIDE DEF d
<1>8. Takes(w, x, m, {}, d)
  <2> HIDE DEF x
  <2> QED BY <1>6, <1>7, SetTakes
<1> HIDE DEF x
<1>9. x \in World /\ x.conn[m] = d  BY <1>8 DEF Takes, Moves
<1>10. y = SetManager(x, m, e)  BY <1>9 DEF SetManager, Upd, World, Manager
<1>11. e \in Manager /\ e.exists = d.exists  BY <1>3, <1>7 DEF Manager
<1> HIDE DEF e
<1>12. Takes(x, y, m, {}, e)
  <2> HIDE DEF y
  <2> QED BY <1>9, <1>10, <1>11, SetTakes
<1> HIDE DEF y
<1>13. Takes(w, y, m, {} \cup {}, e)  BY <1>8, <1>12, TakesTwice
<1>14. {} \cup {} = {}  OBVIOUS
<1> QED BY <1>4, <1>5, <1>13, <1>14 DEF c

LEMMA ForgetTakes ==
  ASSUME NEW w \in World, NEW m \in Managers
  PROVE  Takes(w, Forget(w, m), m, {}, Forgotten(w.conn[m]))
<1>1. Forget(w, m) = SetManager(w, m, Forgotten(w.conn[m]))
  BY DEF Forget, SetManager, Upd, Forgotten, World, Manager
<1> QED BY <1>1, ManagerThere, ForgottenIs, SetTakes

LEMMA ReconnectTakes ==
  ASSUME NEW w \in World, NEW m \in Managers
  PROVE  Takes(w, ReconnectSocket(w, m), m, {}, Reconnecting(w.conn[m]))
<1>1. ReconnectSocket(w, m) = SetManager(w, m, Reconnecting(w.conn[m]))
  BY DEF ReconnectSocket, SetManager, Upd, Reconnecting, World, Manager
<1> QED BY <1>1, ManagerThere, ReconnectingIs, SetTakes

\* NotifyPendingTransactions.
LEMMA NotifyTakes ==
  ASSUME NEW w \in World, NEW m \in Managers, w.conn[m].responses # <<>>, NEW e \in Reported
  PROVE  Takes(w, NotifyPendingTransactions(w, m, e), m, ToSet(Tail(w.conn[m].responses)), Warned(w.conn[m]))
<1> DEFINE c == w.conn[m].responses
           told == CHOOSE f : Telling(f, w, c, Len(c), Len(c) - 1, e)
           v == told[Len(c) - 1]
           d == Warned(w.conn[m])
<1>1. c \in Seq(Trans) /\ w.conn[m] \in Manager  BY ManagerThere, ManagerMembers
<1>2. Len(c) - 1 \in Nat
  <2>1. Len(c) \in Nat /\ Len(c) # 0  BY <1>1, LenProperties, EmptySeq
  <2> QED BY <2>1
<1>3. Telling(told, w, c, Len(c), Len(c) - 1, e)
  <2> HIDE DEF c
  <2> QED BY <1>2, TellingExists
<1>4. NotifyPendingTransactions(w, m, e) = [v EXCEPT !.conn[m].responses = <<Head(@)>>, !.conn[m].pending = <<>>]
  BY DEF NotifyPendingTransactions, Telling
<1> HIDE DEF told
<1>5. Tells(w, v, ToSet(Tail(c)))  BY <1>1, <1>3, ToldAll
<1> HIDE DEF v
<1>6. v \in World /\ v.conn = w.conn  BY <1>5 DEF Tells
<1>7. [v EXCEPT !.conn[m].responses = <<Head(@)>>, !.conn[m].pending = <<>>] = SetManager(v, m, d)
  BY <1>6 DEF SetManager, Upd, Warned, World, Manager
<1>8. d \in Manager /\ d.exists = v.conn[m].exists  BY <1>1, <1>6, WarnedIs
<1> HIDE DEF d
<1>9. Takes(v, SetManager(v, m, d), m, {}, d)  BY <1>6, <1>8, SetTakes
<1>10. Takes(w, v, m, ToSet(Tail(c)), w.conn[m])  BY <1>5, TellsTakes
<1> HIDE DEF c
<1>11. Takes(w, SetManager(v, m, d), m, ToSet(Tail(c)) \cup {}, d)  BY <1>9, <1>10, TakesTwice
<1>12. ToSet(Tail(c)) \cup {} = ToSet(Tail(c))  OBVIOUS
<1> QED BY <1>4, <1>7, <1>11, <1>12 DEF c, d

-----------------------------------------------------------------------------
(* A connection is lost or closed *)

\* A good world stays good when a call for m leaves a manager that has its shape, with
\* those of its responses that have not lost it.
LEMMA GoodMoves ==
  ASSUME NEW w, Good(w), NEW v, NEW m \in Managers, NEW S, NEW c, Takes(w, v, m, S, c),
         S \subseteq ToSet(w.conn[m].responses), Shape(c),
         ToSet(c.responses) = ToSet(w.conn[m].responses) \ S
  PROVE  Good(v)
<1>1. /\ v \in World /\ v.panic = {} /\ v.queue = w.queue
      /\ \A n \in Managers \ {m} : v.conn[n] = w.conn[n]
      /\ v.conn[m] = c /\ c.exists = w.conn[m].exists
      /\ \A t \in Trans \ S : v.trans[t] = w.trans[t]
      /\ \A t \in Trans \cap S : v.trans[t].manager = 0
  BY DEF Takes, Moves, Good
<1>2. \A n \in Managers : Shape(v.conn[n]) /\ v.conn[n].exists = w.conn[n].exists  BY <1>1 DEF Good
<1>3. Created(v)  BY <1>2 DEF Good, Created
<1>4. \A t \in Trans, n \in Managers : t \in ToSet(w.conn[n].responses) <=> w.trans[t].manager = n
  BY DEF Good, Owned
<1>5. 0 \notin Managers  BY DEF Managers
<1>6. ASSUME NEW t \in Trans, NEW n \in Managers
      PROVE  t \in ToSet(v.conn[n].responses) <=> v.trans[t].manager = n
  <2>1. CASE t \in S
    <3>1. v.trans[t].manager # n /\ w.trans[t].manager = m  BY <1>1, <1>4, <1>5, <2>1
    <3>2. t \notin ToSet(v.conn[n].responses)  BY <1>1, <1>4, <2>1, <3>1
    <3> QED BY <3>1, <3>2
  <2>2. CASE t \notin S
    BY <1>1, <1>4, <2>2
  <2> QED BY <2>1, <2>2
<1>7. \A t \in Trans : v.trans[t].manager # 0 => v.trans[t].state = "EActive" /\ t \in ToSet(v.queue)
  BY <1>1 DEF Good, Owned
<1>8. Owned(v)  BY <1>6, <1>7 DEF Owned
<1> QED BY <1>1, <1>2, <1>3, <1>8 DEF Good

\* There is nothing in an empty queue.
LEMMA EmptyQueue == /\ ToSet(<<>>) = {} /\ IsInjective(<<>>) /\ \A T : <<>> \in Seq(T)
  BY DEF ToSet, IsInjective
LEMMA OneInQueue == ASSUME NEW x PROVE ToSet(<<x>>) = {x} /\ IsInjective(<<x>>) /\ <<x>> # <<>> /\ Head(<<x>>) = x
                                       /\ Tail(<<x>>) = <<>>
<1>1. Len(<<x>>) = 1 /\ DOMAIN <<x>> = 1 .. 1 /\ <<x>>[1] = x  OBVIOUS
<1>2. ToSet(<<x>>) = {x} /\ IsInjective(<<x>>)  BY <1>1 DEF ToSet, IsInjective
<1>3. Tail(<<x>>) = <<>>  OBVIOUS
<1> QED BY <1>2, <1>3

\* The shape of a manager nobody waits for.
LEMMA EmptyShape ==
  ASSUME NEW c \in Manager, c.responses = <<>>, c.pending = <<>>, c.request = None,
         c.state \in Idle, ~c.cannotPipeline, c.exists \/ c.state = "EIdle"
  PROVE  Shape(c)
  BY EmptyQueue DEF Shape, Placed

\* There is a member of a queue that is not empty.
LEMMA SomeInQueue == ASSUME NEW T, NEW s \in Seq(T), ToSet(s) = {} PROVE s = <<>>
  BY HeadAndTail

\* Nobody waits for a manager with no responses.
LEMMA NoneWaits ==
  ASSUME NEW c \in Manager, Shape(c), c.responses = <<>>
  PROVE  c.pending = <<>> /\ c.request = None /\ c.state \in Idle /\ ~c.cannotPipeline
<1>1. ToSet(c.pending) = {} /\ c.request = None  BY EmptyQueue DEF Shape
<1>2. c.pending \in Seq(Trans)  BY ManagerMembers
<1>3. c.pending = <<>>  BY <1>1, <1>2, SomeInQueue
<1> QED BY <1>1, <1>3 DEF Shape

\* ReportSocketError tells all of them.
LEMMA ReportTakes ==
  ASSUME NEW w \in World, NEW m \in Managers, w.conn[m].responses # <<>>, NEW e \in Reported
  PROVE  Takes(w, ReportSocketError(w, m, e), m, ToSet(w.conn[m].responses), Forgotten(Warned(w.conn[m])))
<1> DEFINE c == w.conn[m]
           r == c.responses
           first == ConnectionError(w, Head(r), e)
           fell == InsertPipelineFailedHost(first, c.place)
           rest1 == NotifyPendingTransactions(fell, m, "KErrHttpPipeliningError")
           rest2 == NotifyPendingTransactions(first, m, e)
<1>1. c \in Manager /\ r \in Seq(Trans) /\ Head(r) \in Trans /\ ToSet(r) = {Head(r)} \cup ToSet(Tail(r))
  BY ManagerThere, ManagerMembers, HeadAndTail
<1>2. Tells(w, first, {Head(r)})  BY <1>1, ErrorTells
<1> HIDE DEF first
<1>3. Takes(w, first, m, {Head(r)}, c) /\ first \in World /\ first.conn[m] = c
  BY <1>2, TellsTakes DEF Tells
<1>4. c.place \in Places  BY <1>1, ManagerMembers
<1>5. Same(first, fell)
  <2> HIDE DEF c
  <2> QED BY <1>3, <1>4, FallbackSame
<1> HIDE DEF fell
<1>6. Takes(first, fell, m, {}, c) /\ fell \in World /\ fell.conn[m] = c
  BY <1>3, <1>5, SameTakes DEF Same
<1>7. Takes(w, fell, m, {Head(r)} \cup {}, c)
  <2> HIDE DEF c, r
  <2> QED BY <1>3, <1>6, TakesTwice
<1>8. "KErrHttpPipeliningError" \in Reported  BY DEF Reported, Errors
<1>9. Takes(fell, rest1, m, ToSet(Tail(r)), Warned(c))
  BY <1>6, <1>8, NotifyTakes
<1>10. Takes(first, rest2, m, ToSet(Tail(r)), Warned(c))
  BY <1>3, NotifyTakes
<1> HIDE DEF rest1, rest2
<1>11. Takes(w, rest1, m, {Head(r)} \cup {} \cup ToSet(Tail(r)), Warned(c))
  <2> HIDE DEF c, r
  <2> QED BY <1>7, <1>9, TakesTwice
<1>12. Takes(w, rest2, m, {Head(r)} \cup ToSet(Tail(r)), Warned(c))
  <2> HIDE DEF c, r
  <2> QED BY <1>3, <1>10, TakesTwice
<1>13. {Head(r)} \cup {} \cup ToSet(Tail(r)) = ToSet(r) /\ {Head(r)} \cup ToSet(Tail(r)) = ToSet(r)
  BY <1>1
<1>14. \A x \in {rest1, rest2} : Takes(w, x, m, ToSet(r), Warned(c))
  <2> HIDE DEF c, r
  <2> QED BY <1>11, <1>12, <1>13
<1>15. \A x \in {rest1, rest2} : Takes(w, Forget(x, m), m, ToSet(r), Forgotten(Warned(c)))
  <2> HIDE DEF c, r
  <2> SUFFICES ASSUME NEW x \in {rest1, rest2} PROVE Takes(w, Forget(x, m), m, ToSet(r), Forgotten(Warned(c)))
    OBVIOUS
  <2>1. Takes(w, x, m, ToSet(r), Warned(c))  BY <1>14
  <2>2. x \in World /\ x.conn[m] = Warned(c)  BY <2>1 DEF Takes, Moves
  <2>3. Takes(x, Forget(x, m), m, {}, Forgotten(Warned(c)))  BY <2>2, ForgetTakes
  <2>4. Takes(w, Forget(x, m), m, ToSet(r) \cup {}, Forgotten(Warned(c)))  BY <2>1, <2>3, TakesTwice
  <2>5. ToSet(r) \cup {} = ToSet(r)  OBVIOUS
  <2> QED BY <2>4, <2>5
<1>16. ReportSocketError(w, m, e) \in {Forget(rest1, m), Forget(rest2, m)}
  BY Zenon DEF ReportSocketError, first, fell, rest1, rest2
<1> QED BY <1>15, <1>16

\* HandleSocketError: the manager connects again, or nobody waits for it any more.
LEMMA HandleTakes ==
  ASSUME NEW w \in World, NEW m \in Managers, NEW e \in Reported,
         w.conn[m].responses = <<>> => w.conn[m].pending = <<>> /\ w.conn[m].request = None
  PROVE  LET c == w.conn[m]
             v == HandleSocketError(w, m, e) IN
         \/ c.state = "EClosing" /\ Takes(w, v, m, {}, IdleOf(c))
         \/ c.request # None /\ c.state # "EClosing" /\ Takes(w, v, m, {}, Reconnecting(c))
         \/ c.responses = <<>> /\ Takes(w, v, m, {}, IdleOf(c))
         \/ c.responses # <<>> /\ Takes(w, v, m, ToSet(c.responses), IdleOf(Forgotten(Warned(c))))
<1> DEFINE c == w.conn[m]
           v == HandleSocketError(w, m, e)
           x == ReportSocketError(w, m, e)
<1>1. CASE c.state = "EClosing"
  BY <1>1, SetIdleTakes DEF HandleSocketError
<1>2. CASE c.state # "EClosing" /\ e = "KErrEof" /\ c.pendingWrite /\ c.request # None
  BY <1>2, ReconnectTakes DEF HandleSocketError
<1>3. CASE c.state # "EClosing" /\ ~(e = "KErrEof" /\ c.pendingWrite /\ c.request # None)
  <2>1. v = SetIdleState(x, m)  BY <1>3 DEF HandleSocketError
  <2>2. CASE c.responses = <<>>
    <3>1. x = w  BY <2>2 DEF ReportSocketError
    <3> QED BY <2>1, <2>2, <3>1, SetIdleTakes
  <2>3. CASE c.responses # <<>>
    <3>1. Takes(w, x, m, ToSet(c.responses), Forgotten(Warned(c)))  BY <2>3, ReportTakes
    <3> HIDE DEF x, v, c
    <3>2. x \in World /\ x.conn[m] = Forgotten(Warned(c))  BY <3>1 DEF Takes, Moves
    <3>3. Takes(x, v, m, {}, IdleOf(Forgotten(Warned(c))))  BY <2>1, <3>2, SetIdleTakes
    <3>4. Takes(w, v, m, ToSet(c.responses) \cup {}, IdleOf(Forgotten(Warned(c))))  BY <3>1, <3>3, TakesTwice
    <3>5. ToSet(c.responses) \cup {} = ToSet(c.responses)  OBVIOUS
    <3> QED BY <2>3, <3>4, <3>5 DEF c, v
  <2> QED BY <2>2, <2>3
<1> QED BY <1>1, <1>2, <1>3

\* Nobody waits for a manager that has forgotten and is idle.
LEMMA IdleShape ==
  ASSUME NEW c \in Manager, c.responses # <<>>
  PROVE  /\ IdleOf(Forgotten(Warned(c))) \in Manager /\ Shape(IdleOf(Forgotten(Warned(c))))
         /\ IdleOf(Forgotten(Warned(c))).responses = <<>>
<1>1. Warned(c) \in Manager  BY WarnedIs
<1>2. /\ Forgotten(Warned(c)) \in Manager /\ Forgotten(Warned(c)).responses = <<>>
      /\ Forgotten(Warned(c)).pending = <<>> /\ Forgotten(Warned(c)).request = None
  BY <1>1, ForgottenIs
<1> DEFINE d == IdleOf(Forgotten(Warned(c)))
<1>3. /\ d \in Manager /\ d.responses = <<>> /\ d.pending = <<>> /\ d.request = None
      /\ d.state = "EIdle" /\ d.cannotPipeline = FALSE
  BY <1>2, IdleIs
<1> HIDE DEF d
<1>4. Shape(d)  BY <1>3, EmptyShape DEF Idle
<1> QED BY <1>3, <1>4 DEF d
LEMMA StillIdle ==
  ASSUME NEW c \in Manager, Shape(c), c.responses = <<>>
  PROVE  IdleOf(c) \in Manager /\ Shape(IdleOf(c)) /\ IdleOf(c).responses = <<>>
<1>1. c.pending = <<>> /\ c.request = None  BY NoneWaits
<1> DEFINE d == IdleOf(c)
<1>2. /\ d \in Manager /\ d.responses = <<>> /\ d.pending = <<>> /\ d.request = None
      /\ d.state = "EIdle" /\ d.cannotPipeline = FALSE
  BY <1>1, IdleIs
<1> HIDE DEF d
<1>3. Shape(d)  BY <1>2, EmptyShape DEF Idle
<1> QED BY <1>2, <1>3 DEF d

\* HandleSocketError keeps a good world good.
LEMMA HandleGood ==
  ASSUME NEW w, Good(w), NEW m \in Managers, NEW e \in Reported,
         w.conn[m].state = "EIdle" => FALSE
  PROVE  Good(HandleSocketError(w, m, e))
<1> DEFINE c == w.conn[m]
           r == c.responses
           v == HandleSocketError(w, m, e)
<1>1. w \in World /\ c \in Manager /\ Shape(c) /\ r \in Seq(Trans)
  BY ManagerThere, ManagerMembers DEF Good
<1>2. r = <<>> => c.pending = <<>> /\ c.request = None  BY <1>1, NoneWaits
<1>3. \/ c.state = "EClosing" /\ Takes(w, v, m, {}, IdleOf(c))
      \/ c.request # None /\ c.state # "EClosing" /\ Takes(w, v, m, {}, Reconnecting(c))
      \/ r = <<>> /\ Takes(w, v, m, {}, IdleOf(c))
      \/ r # <<>> /\ Takes(w, v, m, ToSet(r), IdleOf(Forgotten(Warned(c))))
  BY <1>1, <1>2, HandleTakes
<1> HIDE DEF v
<1>4. ASSUME r = <<>>, Takes(w, v, m, {}, IdleOf(c)) PROVE Good(v)
  <2>1. Shape(IdleOf(c)) /\ IdleOf(c).responses = r  BY <1>1, <1>4, StillIdle
  <2>2. ToSet(IdleOf(c).responses) = ToSet(r) \ {}  BY <2>1
  <2> QED BY <1>4, <2>1, <2>2, GoodMoves
<1>5. c.state = "EClosing" => r = <<>>  BY <1>1 DEF Shape, Idle
<1>6. ASSUME c.request # None, c.state # "EClosing", Takes(w, v, m, {}, Reconnecting(c)) PROVE Good(v)
  <2> DEFINE d == Reconnecting(c)
  <2>1. /\ d \in Manager /\ d.state = "EConnecting" /\ d.exists = c.exists
        /\ d.cannotPipeline = c.cannotPipeline /\ d.first = c.first
        /\ d.responses = c.responses /\ d.pending = c.pending /\ d.request = c.request
        /\ d.place = c.place /\ d.secure = c.secure
    BY <1>1, ReconnectingIs
  <2>2. r # <<>>  BY <1>2, <1>6
  <2> HIDE DEF d
  <2>3. c.exists
    <3>1. c.state # "EIdle"  OBVIOUS
    <3> QED BY <1>1, <3>1 DEF Shape
  <2>4. FirstCurrent(c) => FirstCurrent(d)  BY <2>1 DEF FirstCurrent
  <2>5. Shape(d)  BY <1>1, <2>1, <2>2, <2>3, <2>4 DEF Shape, Placed, Idle
  <2>6. ToSet(d.responses) = ToSet(r) \ {}  BY <2>1
  <2> HIDE DEF c
  <2> QED BY <1>6, <2>5, <2>6, GoodMoves DEF c, d
<1>7. ASSUME r # <<>>, Takes(w, v, m, ToSet(r), IdleOf(Forgotten(Warned(c)))) PROVE Good(v)
  <2> DEFINE d == IdleOf(Forgotten(Warned(c)))
  <2>1. Shape(d) /\ d.responses = <<>>  BY <1>1, <1>7, IdleShape
  <2> HIDE DEF d
  <2>2. ToSet(d.responses) = ToSet(r) \ ToSet(r)  BY <2>1, EmptyQueue
  <2>3. Takes(w, v, m, ToSet(r), d)  BY <1>7 DEF d
  <2> QED BY <2>1, <2>2, <2>3, GoodMoves
<1> QED BY <1>3, <1>4, <1>5, <1>6, <1>7 DEF v

-----------------------------------------------------------------------------
(* A transaction is cancelled or closed *)

LEMMA CloseTakes ==
  ASSUME NEW w \in World, NEW m \in Managers
  PROVE  Takes(w, CloseConnection(w, m), m, {}, IdleOf(Closing(w.conn[m])))
<1> DEFINE d == Closing(w.conn[m])
           x == SetManager(w, m, d)
<1>1. d \in Manager /\ d.exists = w.conn[m].exists /\ d.state = "EClosing"  BY ManagerThere, ClosingIs
<1>2. [w EXCEPT !.conn[m].state = "EClosing"] = x  BY DEF SetManager, Upd, Closing
<1> HIDE DEF d
<1>3. Takes(w, x, m, {}, d)  BY <1>1, SetTakes
<1>4. CloseConnection(w, m) = HandleSocketError(x, m, "KErrEof")  BY <1>2 DEF CloseConnection
<1> HIDE DEF x
<1>5. x \in World /\ x.conn[m] = d  BY <1>3 DEF Takes, Moves
<1>6. CloseConnection(w, m) = SetIdleState(x, m)  BY <1>1, <1>4, <1>5 DEF HandleSocketError
<1>7. Takes(x, SetIdleState(x, m), m, {}, IdleOf(d))  BY <1>5, SetIdleTakes
<1>8. Takes(w, SetIdleState(x, m), m, {} \cup {}, IdleOf(d))  BY <1>3, <1>5, <1>7, TakesTwice
<1>9. {} \cup {} = {}  OBVIOUS
<1> QED BY <1>6, <1>8, <1>9 DEF d

\* The connection of the current response is closed, and those behind it are told.
LEMMA CancelCurrentTakes ==
  ASSUME NEW w \in World, NEW m \in Managers, NEW t, w.conn[m].responses # <<>>, Head(w.conn[m].responses) = t,
         w.conn[m].exists
  PROVE  \E d \in Manager : /\ Takes(w, CancelSubmission(w, m, t), m, ToSet(Tail(w.conn[m].responses)), d)
                            /\ Shape(d) /\ d.responses = <<>>
<1> DEFINE c == w.conn[m]
           r == c.responses
           closed == IF c.state = "EConnecting" THEN SetIdleState(w, m) ELSE CloseConnection(w, m)
           told == NotifyPendingTransactions(closed, m, "KErrHttpNonPipeliningError")
           v == Forget(told, m)
<1>1. CancelSubmission(w, m, t) = v  BY DEF CancelSubmission
<1>2. c \in Manager  BY ManagerThere
<1>3. PICK a \in Manager : /\ Takes(w, closed, m, {}, a) /\ a.responses = r /\ a.state = "EIdle"
                           /\ a.exists /\ a.cannotPipeline = FALSE
  <2>1. CASE c.state = "EConnecting"
    <3>1. Takes(w, closed, m, {}, IdleOf(c))  BY <2>1, SetIdleTakes
    <3> HIDE DEF closed
    <3> QED BY <1>2, <3>1, IdleIs
  <2>2. CASE c.state # "EConnecting"
    <3>1. Takes(w, closed, m, {}, IdleOf(Closing(c)))  BY <2>2, CloseTakes
    <3> HIDE DEF closed
    <3>2. Closing(c) \in Manager /\ Closing(c).responses = r /\ Closing(c).exists  BY <1>2, ClosingIs
    <3> QED BY <3>1, <3>2, IdleIs
  <2> QED BY <2>1, <2>2
<1>4. closed \in World /\ closed.conn[m] = a  BY <1>3 DEF Takes, Moves
<1>5. "KErrHttpNonPipeliningError" \in Reported  BY DEF Reported, Errors
<1> HIDE DEF closed
<1>6. Takes(closed, told, m, ToSet(Tail(r)), Warned(a))
  <2>1. closed.conn[m].responses # <<>>  BY <1>3, <1>4
  <2>2. Takes(closed, told, m, ToSet(Tail(closed.conn[m].responses)), Warned(closed.conn[m]))
    BY <1>4, <1>5, <2>1, NotifyTakes
  <2> HIDE DEF told
  <2> QED BY <1>3, <1>4, <2>2
<1> HIDE DEF told
<1>7. told \in World /\ told.conn[m] = Warned(a)  BY <1>6 DEF Takes, Moves
<1>8. Takes(told, v, m, {}, Forgotten(Warned(a)))  BY <1>7, ForgetTakes
<1> HIDE DEF v
<1>9. /\ Warned(a) \in Manager /\ Warned(a).exists /\ Warned(a).state = "EIdle"
      /\ Warned(a).cannotPipeline = a.cannotPipeline
  BY <1>3, WarnedIs
<1> DEFINE d == Forgotten(Warned(a))
<1>10. /\ d \in Manager /\ d.responses = <<>> /\ d.pending = <<>> /\ d.request = None
       /\ d.state = "EIdle" /\ d.exists /\ d.cannotPipeline = Warned(a).cannotPipeline
  BY <1>9, ForgottenIs
<1> HIDE DEF d
<1>11. Shape(d)  BY <1>3, <1>9, <1>10, EmptyShape DEF Idle
<1>12. Takes(w, told, m, {} \cup ToSet(Tail(r)), Warned(a))
  <2> HIDE DEF r
  <2> QED BY <1>3, <1>4, <1>6, TakesTwice
<1>13. Takes(w, v, m, {} \cup ToSet(Tail(r)) \cup {}, d)
  <2> HIDE DEF r
  <2> QED BY <1>7, <1>8, <1>12, TakesTwice DEF d
<1>14. {} \cup ToSet(Tail(r)) \cup {} = ToSet(Tail(r))  OBVIOUS
<1> QED BY <1>1, <1>10, <1>11, <1>13, <1>14 DEF v

\* A manager without one that waits behind another.
Less(c, t) ==
  [c EXCEPT !.request = IF @ = t THEN None ELSE @,
            !.pending = Without(@, t), !.responses = Without(@, t)]

LEMMA LessIs ==
  ASSUME NEW c \in Manager, NEW t \in Trans, Shape(c), t \in ToSet(c.responses), t # Head(c.responses)
  PROVE  Less(c, t) \in Manager /\ Shape(Less(c, t)) /\ Less(c, t).exists = c.exists
         /\ ToSet(Less(c, t).responses) = ToSet(c.responses) \ {t}
<1> DEFINE r == c.responses
           p == c.pending
           q == c.request
           d == Less(c, t)
<1>1. r \in Seq(Trans) /\ p \in Seq(Trans) /\ q \in Trans \cup {None} /\ IsInjective(r) /\ IsInjective(p)
  BY ManagerMembers DEF Shape
<1>2. r # <<>>  BY EmptyQueue
<1>3. /\ Without(r, t) \in Seq(Trans) /\ IsInjective(Without(r, t)) /\ ToSet(Without(r, t)) = ToSet(r) \ {t}
      /\ Without(r, t) # <<>> /\ Head(Without(r, t)) = Head(r)
  <2> HIDE DEF r
  <2> QED BY <1>1, <1>2, TakenOut DEF r
<1>4. Without(p, t) \in Seq(Trans) /\ IsInjective(Without(p, t)) /\ ToSet(Without(p, t)) = ToSet(p) \ {t}
  <2> HIDE DEF p
  <2> QED BY <1>1, TakenOut
<1>5. ToSet(Tail(Without(r, t))) = ToSet(Tail(r)) \ {t}
  <2>1. ToSet(r) = {Head(r)} \cup ToSet(Tail(r)) /\ Head(r) \notin ToSet(Tail(r))
    <3> HIDE DEF r
    <3> QED BY <1>1, <1>2, HeadAndTail
  <2> DEFINE s == Without(r, t)
  <2> HIDE DEF s, r
  <2>2. ToSet(s) = {Head(s)} \cup ToSet(Tail(s)) /\ Head(s) \notin ToSet(Tail(s))
    BY <1>3, HeadAndTail DEF s
  <2> QED BY <1>3, <2>1, <2>2 DEF s, r
<1> DEFINE x == IF q = t THEN None ELSE q
           y == Without(p, t)
           z == Without(r, t)
<1>6. d = [c EXCEPT !.request = x, !.pending = y, !.responses = z]  BY DEF Less
<1>7. x \in Trans \cup {None} /\ y \in Seq(Trans) /\ z \in Seq(Trans)  BY <1>1, <1>3, <1>4
<1> HIDE DEF x, y, z, d
<1>8. d \in Manager /\ d.request = x /\ d.pending = y /\ d.responses = z
  BY <1>6, <1>7 DEF Manager
<1>9. /\ d.exists = c.exists /\ d.state = c.state /\ d.cannotPipeline = c.cannotPipeline
      /\ d.first = c.first /\ d.place = c.place /\ d.secure = c.secure
  BY <1>6 DEF Manager
<1>10. FirstCurrent(d)
  <2> SUFFICES ASSUME c.first PROVE /\ d.request \in {Head(z), None} /\ ToSet(Tail(z)) \subseteq ToSet(y)
                                    /\ d.request = None => d.cannotPipeline
    BY <1>8, <1>9 DEF FirstCurrent
  <2>1. /\ q \in {Head(r), None} /\ ToSet(Tail(r)) \subseteq ToSet(p)
        /\ q = None => c.cannotPipeline
    BY <1>2 DEF Shape, FirstCurrent
  <2>2. x = q  BY <2>1, ConstantsAssumption DEF x, None
  <2>3. Head(z) = Head(r) /\ ToSet(Tail(z)) = ToSet(Tail(r)) \ {t} /\ ToSet(y) = ToSet(p) \ {t}
    BY <1>3, <1>4, <1>5 DEF y, z
  <2> QED BY <1>8, <1>9, <2>1, <2>2, <2>3
<1>11. Placed(d)  BY <1>3, <1>8, <1>9 DEF Placed, Shape, z
<1>12. Shape(d)
  <2>1. IsInjective(d.responses) /\ IsInjective(d.pending)  BY <1>3, <1>4, <1>8 DEF y, z
  <2>2. ToSet(d.pending) \subseteq ToSet(d.responses)
    <3>1. ToSet(p) \subseteq ToSet(r)  BY DEF Shape
    <3> QED BY <1>3, <1>4, <1>8, <3>1 DEF y, z
  <2>3. d.request \in ToSet(d.responses) \cup {None}
    <3>1. q \in ToSet(r) \cup {None}  BY DEF Shape
    <3> QED BY <1>3, <1>8, <3>1 DEF x, z
  <2>4. d.responses # <<>> /\ d.state \notin Idle
    <3>1. c.state \notin Idle  BY <1>2 DEF Shape
    <3> QED BY <1>3, <1>8, <1>9, <3>1 DEF z
  <2>5. d.exists \/ d.state = "EIdle"  BY <1>9 DEF Shape
  <2> QED BY <1>10, <1>11, <2>1, <2>2, <2>3, <2>4, <2>5 DEF Shape
<1> QED BY <1>3, <1>8, <1>9, <1>12 DEF d, z

LEMMA CancelWaitingTakes ==
  ASSUME NEW w \in World, NEW m \in Managers, NEW t \in Trans, Shape(w.conn[m]),
         t \in ToSet(w.conn[m].responses), Head(w.conn[m].responses) # t
  PROVE  Takes(w, CancelSubmission(w, m, t), m, {}, Less(w.conn[m], t))
<1>1. CancelSubmission(w, m, t) = SetManager(w, m, Less(w.conn[m], t))
  BY DEF CancelSubmission, SetManager, Upd, Less, World, Manager
<1>2. w.conn[m] \in Manager  BY ManagerThere
<1> QED BY <1>1, <1>2, LessIs, SetTakes

\* The record of a transaction is replaced.
LEMMA TransactionIs ==
  ASSUME NEW w \in World, NEW t \in Trans, NEW r \in ProtTransaction
  PROVE  /\ SetTransaction(w, t, r) \in World /\ SetTransaction(w, t, r).panic = w.panic
         /\ SetTransaction(w, t, r).queue = w.queue /\ SetTransaction(w, t, r).conn = w.conn
         /\ SetTransaction(w, t, r).trans[t] = r
         /\ \A s \in Trans \ {t} : SetTransaction(w, t, r).trans[s] = w.trans[s]
<1> DEFINE f == Upd(w.trans, t, r)
           v == [w EXCEPT !.trans = f]
<1>1. f \in [Trans -> ProtTransaction] /\ f[t] = r /\ \A n \in Trans : n # t => f[n] = w.trans[n]
  <2>1. w.trans \in [Trans -> ProtTransaction]  BY Members
  <2>2. f \in [Trans -> ProtTransaction]  BY <2>1, UpdIs
  <2>3. f[t] = r /\ \A n \in Trans : n # t => f[n] = w.trans[n]  BY <2>1 DEF Upd
  <2> QED BY <2>2, <2>3
<1> HIDE DEF f
<1>2. v \in World /\ v.panic = w.panic /\ v.queue = w.queue /\ v.conn = w.conn /\ v.trans = f
  BY <1>1 DEF World
<1> HIDE DEF v
<1>3. v = SetTransaction(w, t, r)  BY DEF SetTransaction, v, f
<1> QED BY <1>1, <1>2, <1>3

\* A transaction without a manager changes, and the queue, in which all others stay.
SetQueue(w, t, q, r) == [w EXCEPT !.queue = q, !.trans = Upd(w.trans, t, r)]
LEMMA QueueGood ==
  ASSUME NEW w, Good(w), NEW t \in Trans, w.trans[t].manager = 0,
         NEW q \in Seq(Trans), IsInjective(q), ToSet(w.queue) \ {t} \subseteq ToSet(q),
         NEW r \in ProtTransaction, r.manager = 0
  PROVE  Good(SetQueue(w, t, q, r))
<1> DEFINE f == Upd(w.trans, t, r)
           v == [w EXCEPT !.queue = q, !.trans = f]
<1>1. w \in World  BY DEF Good
<1>2. f \in [Trans -> ProtTransaction] /\ f[t] = r /\ \A n \in Trans : n # t => f[n] = w.trans[n]
  <2>1. w.trans \in [Trans -> ProtTransaction]  BY <1>1, Members
  <2>2. f \in [Trans -> ProtTransaction]  BY <2>1, UpdIs
  <2>3. f[t] = r /\ \A n \in Trans : n # t => f[n] = w.trans[n]  BY <2>1 DEF Upd
  <2> QED BY <2>2, <2>3
<1> HIDE DEF f
<1>3. v \in World /\ v.panic = w.panic /\ v.queue = q /\ v.conn = w.conn /\ v.trans = f
  BY <1>1, <1>2 DEF World
<1>4. v = SetQueue(w, t, q, r)  BY DEF SetQueue, f
<1> HIDE DEF v
<1>5. 0 \notin Managers  BY DEF Managers
<1>6. Owned(v)
  <2>1. \A s \in Trans, m \in Managers : s \in ToSet(v.conn[m].responses) <=> v.trans[s].manager = m
    <3> SUFFICES ASSUME NEW s \in Trans, NEW m \in Managers
                 PROVE  s \in ToSet(v.conn[m].responses) <=> v.trans[s].manager = m  OBVIOUS
    <3>1. s \in ToSet(w.conn[m].responses) <=> w.trans[s].manager = m  BY DEF Good, Owned
    <3> QED BY <1>2, <1>3, <1>5, <3>1
  <2>2. \A s \in Trans : v.trans[s].manager # 0 => v.trans[s].state = "EActive" /\ s \in ToSet(v.queue)
    <3> SUFFICES ASSUME NEW s \in Trans, v.trans[s].manager # 0
                 PROVE  v.trans[s].state = "EActive" /\ s \in ToSet(v.queue)  OBVIOUS
    <3>1. s # t /\ v.trans[s] = w.trans[s]  BY <1>2, <1>3
    <3>2. w.trans[s].state = "EActive" /\ s \in ToSet(w.queue)  BY <3>1 DEF Good, Owned
    <3> QED BY <1>3, <3>1, <3>2
  <2> QED BY <2>1, <2>2 DEF Owned
<1>7. Created(v)  BY <1>3 DEF Good, Created
<1> QED BY <1>3, <1>4, <1>6, <1>7 DEF Good

LEMMA Unmanaged ==
  ASSUME NEW w, Good(w), NEW t \in Trans, t \notin ToSet(w.queue) \/ w.trans[t].state # "EActive"
  PROVE  w.trans[t].manager = 0
  BY DEF Good, Owned

\* CancelSubmission for one that waits, and what it makes of its manager.
LEMMA SubmissionCancelled ==
  ASSUME NEW w \in World, NEW m \in Managers, NEW t \in Trans, Shape(w.conn[m]), t \in ToSet(w.conn[m].responses)
  PROVE  \E S, d : /\ Takes(w, CancelSubmission(w, m, t), m, S, d) /\ Shape(d)
                   /\ S \subseteq ToSet(w.conn[m].responses)
                   /\ ToSet(d.responses) = ToSet(w.conn[m].responses) \ (S \cup {t})
<1> DEFINE c == w.conn[m]
           r == c.responses
<1>1. c \in Manager /\ r \in Seq(Trans)  BY ManagerThere, ManagerMembers
<1>2. r # <<>>  BY EmptyQueue
<1>3. CASE Head(r) = t
  <2>1. c.exists  BY <1>2 DEF Shape, Idle
  <2>2. PICK d \in Manager : /\ Takes(w, CancelSubmission(w, m, t), m, ToSet(Tail(r)), d)
                             /\ Shape(d) /\ d.responses = <<>>
    BY <1>2, <1>3, <2>1, CancelCurrentTakes
  <2>3. ToSet(r) = {t} \cup ToSet(Tail(r))
    <3> HIDE DEF r
    <3> QED BY <1>1, <1>2, <1>3, HeadAndTail
  <2>4. ToSet(d.responses) = ToSet(r) \ (ToSet(Tail(r)) \cup {t})  BY <2>2, <2>3, EmptyQueue
  <2>5. ToSet(Tail(r)) \subseteq ToSet(r)  BY <2>3
  <2> QED BY <2>2, <2>4, <2>5
<1>4. CASE Head(r) # t
  <2>1. Takes(w, CancelSubmission(w, m, t), m, {}, Less(c, t))  BY <1>4, CancelWaitingTakes
  <2>2. Shape(Less(c, t)) /\ ToSet(Less(c, t).responses) = ToSet(r) \ {t}  BY <1>1, <1>4, LessIs
  <2>3. ToSet(Less(c, t).responses) = ToSet(r) \ ({} \cup {t})  BY <2>2
  <2>4. {} \subseteq ToSet(r)  OBVIOUS
  <2> QED BY <2>1, <2>2, <2>3, <2>4
<1> QED BY <1>3, <1>4

\* HandleCancelTransaction takes the transaction away from its manager.
LEMMA CancelledGood ==
  ASSUME NEW w, Good(w), NEW t \in Trans
  PROVE  /\ Good(HandleCancelTransaction(w, t)) /\ HandleCancelTransaction(w, t).queue = w.queue
         /\ HandleCancelTransaction(w, t).trans[t].manager = 0
<1> DEFINE v == HandleCancelTransaction(w, t)
<1>1. CASE t \notin ToSet(w.queue)
  <2>1. v = w  BY <1>1 DEF HandleCancelTransaction
  <2> QED BY <1>1, <2>1, Unmanaged
<1>2. CASE t \in ToSet(w.queue)
  <2> DEFINE a == CompleteIfActive(w, t)
             r == [a.trans[t] EXCEPT !.state = "ECancelled"]
             u == SetTransaction(a, t, r)
             m == w.trans[t].manager
  <2>1. w \in World /\ Same(w, a) /\ a \in World /\ a.trans = w.trans
    <3>1. w \in World  BY DEF Good
    <3>2. Same(w, a)  BY <3>1, CompleteIfActiveSame
    <3> QED BY <3>1, <3>2 DEF Same
  <2>2. [a EXCEPT !.trans[t].state = "ECancelled"] = u  BY DEF SetTransaction, Upd
  <2>3. v = CancelTransactionHook(u, t)  BY <1>2, <2>2 DEF HandleCancelTransaction
  <2> HIDE DEF v
  <2>4. w.trans[t] \in ProtTransaction  BY <2>1, Members
  <2>5. r \in ProtTransaction /\ r.manager = m  BY <2>1, <2>4 DEF ProtTransaction, ProtStates
  <2> HIDE DEF r, a
  <2>6. /\ u \in World /\ u.panic = w.panic /\ u.queue = w.queue /\ u.conn = w.conn
        /\ u.trans[t] = r /\ \A s \in Trans \ {t} : u.trans[s] = w.trans[s]
    BY <2>1, <2>5, TransactionIs DEF Same
  <2>7. CASE m = 0
    <3>1. v = u  BY <2>3, <2>5, <2>6, <2>7 DEF CancelTransactionHook
    <3>2. Tells(a, u, {t})  BY <2>1, <2>5, <2>7, TransactionTells
    <3>3. Good(a)  BY <2>1, SameGood
    <3>4. u = SetQueue(a, t, a.queue, r)
      <4>1. [a EXCEPT !.queue = a.queue, !.trans = Upd(a.trans, t, r)] = [a EXCEPT !.trans = Upd(a.trans, t, r)]
        BY <2>1 DEF World
      <4> QED BY <4>1 DEF SetQueue, SetTransaction
    <3>5. a.queue \in Seq(Trans) /\ IsInjective(a.queue) /\ a.trans[t].manager = 0
      BY <2>1, <2>7, <3>3, Members DEF Good
    <3>6. Good(u)
      <4>1. Good(SetQueue(a, t, a.queue, r))  BY <2>5, <2>7, <3>3, <3>5, QueueGood
      <4> QED BY <3>4, <4>1
    <3> QED BY <2>5, <2>6, <2>7, <3>1, <3>6 DEF v
  <2>8. CASE m # 0
    <3> DEFINE x == CancelSubmission(u, m, t)
               s == [x.trans[t] EXCEPT !.manager = 0]
               y == SetTransaction(x, t, s)
               c == w.conn[m]
    <3>1. m \in Managers  BY <2>4, <2>8 DEF ProtTransaction, Managers
    <3>2. v = [x EXCEPT !.trans[t].manager = 0]  BY <2>3, <2>5, <2>6, <2>8 DEF CancelTransactionHook
    <3>3. v = y  BY <3>2 DEF SetTransaction, Upd
    <3>4. t \in ToSet(c.responses)  BY <3>1 DEF Good, Owned
    <3>5. Shape(c)  BY <3>1 DEF Good
    <3>6. PICK S, d : /\ Takes(u, x, m, S, d) /\ Shape(d) /\ S \subseteq ToSet(c.responses)
                      /\ ToSet(d.responses) = ToSet(c.responses) \ (S \cup {t})
      <4> HIDE DEF u, m
      <4>1. Shape(u.conn[m]) /\ t \in ToSet(u.conn[m].responses) /\ u.conn[m] = c  BY <2>6, <3>4, <3>5
      <4>2. \E S, d : /\ Takes(u, x, m, S, d) /\ Shape(d) /\ S \subseteq ToSet(u.conn[m].responses)
                      /\ ToSet(d.responses) = ToSet(u.conn[m].responses) \ (S \cup {t})
        BY <2>6, <3>1, <4>1, SubmissionCancelled
      <4> HIDE DEF x, c
      <4> QED BY <4>1, <4>2
    <3> HIDE DEF x
    <3>7. x \in World /\ x.conn[m] = d  BY <3>6 DEF Takes, Moves
    <3>8. s \in ProtTransaction /\ s.manager = 0
      <4>1. x.trans[t] \in ProtTransaction  BY <3>7, Members
      <4> QED BY <4>1, ConstantsAssumption DEF ProtTransaction
    <3> HIDE DEF s
    <3>9. Tells(x, y, {t})  BY <3>7, <3>8, TransactionTells
    <3>10. Takes(x, y, m, {t}, d)  BY <3>1, <3>7, <3>9, TellsTakes
    <3> HIDE DEF y
    <3>11. Takes(u, y, m, S \cup {t}, d)  BY <2>6, <3>1, <3>6, <3>7, <3>10, TakesTwice
    <3>12. Takes(w, y, m, S \cup {t}, d)  BY <2>6, <3>11 DEF Takes, Moves
    <3>13. S \cup {t} \subseteq ToSet(c.responses)  BY <3>4, <3>6
    <3>14. Good(y)
      <4> HIDE DEF c, m
      <4>1. ToSet(d.responses) = ToSet(c.responses) \ (S \cup {t})  BY <3>6
      <4> QED BY <3>1, <3>6, <3>12, <3>13, <4>1, GoodMoves DEF c
    <3>15. y.queue = w.queue /\ y.trans[t].manager = 0  BY <3>12 DEF Takes, Moves
    <3> QED BY <3>3, <3>14, <3>15 DEF v
  <2> QED BY <2>7, <2>8 DEF v
<1> QED BY <1>1, <1>2

\* Cancel: the events of the transaction go as well.
LEMMA CancelGood ==
  ASSUME NEW w, Good(w), NEW t \in Trans
  PROVE  Good(Cancel(w, t)) /\ Cancel(w, t).queue = w.queue /\ Cancel(w, t).trans[t].manager = 0
<1> DEFINE e == <<>>
           u == SetEvents(w, t, e)
<1>1. e \in Seq(Events)  OBVIOUS
<1>2. Cancel(w, t) = HandleCancelTransaction(u, t)
  <2>1. [w EXCEPT !.events[t] = <<>>] = u  BY DEF SetEvents, Upd
  <2> QED BY <2>1 DEF Cancel
<1> HIDE DEF e
<1>3. Same(w, u)  BY <1>1, EventsSame DEF Good
<1>4. Good(u) /\ u.queue = w.queue  BY <1>3, SameGood DEF Same
<1> HIDE DEF u
<1> QED BY <1>2, <1>4, CancelledGood

\* A transaction without a manager is closed.
LEMMA ClosedGood ==
  ASSUME NEW w, Good(w), NEW t \in Trans, w.trans[t].manager = 0
  PROVE  Good(HandleClosedTransaction(w, t))
<1>1. CASE t \notin ToSet(w.queue)  BY <1>1 DEF HandleClosedTransaction
<1>2. CASE t \in ToSet(w.queue)
  <2> DEFINE a == CompleteIfActive(w, t)
             q == Without(a.queue, t)
             r == NewTransaction
  <2>1. Same(w, a)  BY CompleteIfActiveSame DEF Good
  <2>2. Good(a) /\ a.trans[t].manager = 0  BY <2>1, SameGood DEF Same
  <2>3. HandleClosedTransaction(w, t) = [a EXCEPT !.queue = Without(@, t), !.trans[t] = NewTransaction]
    BY <1>2 DEF HandleClosedTransaction
  <2>4. [a EXCEPT !.queue = Without(@, t), !.trans[t] = NewTransaction] = SetQueue(a, t, q, r)
    BY DEF SetQueue, Upd
  <2> HIDE DEF a
  <2>5. a.queue \in Seq(Trans) /\ IsInjective(a.queue)  BY <2>2, Members DEF Good
  <2>6. q \in Seq(Trans) /\ IsInjective(q) /\ ToSet(q) = ToSet(a.queue) \ {t}  BY <2>5, TakenOut
  <2>7. r \in ProtTransaction /\ r.manager = 0
    BY ConstantsAssumption DEF NewTransaction, ProtTransaction, ProtStates
  <2> HIDE DEF q, r
  <2>8. Good(SetQueue(a, t, q, r))  BY <2>2, <2>6, <2>7, QueueGood
  <2> QED BY <2>3, <2>4, <2>8 DEF r, q
<1> QED BY <1>1, <1>2
-----------------------------------------------------------------------------
(* A transaction is given to a manager *)

\* One more request for a manager c.
Directed(c, t) == [c EXCEPT !.place = Place[t], !.secure = t \in Secure, !.persistent = t \notin NonPersistent]
Longer(c, t) ==
  [c EXCEPT !.request = IF @ = None THEN t ELSE @,
            !.pending = IF c.request = None THEN @ ELSE Append(@, t),
            !.responses = Append(@, t)]

LEMMA DirectedIs ==
  ASSUME NEW c \in Manager, NEW t \in Trans
  PROVE  /\ Directed(c, t) \in Manager
         /\ Directed(c, t).place = Place[t] /\ Directed(c, t).secure = (t \in Secure)
         /\ Directed(c, t).exists = c.exists /\ Directed(c, t).state = c.state
         /\ Directed(c, t).cannotPipeline = c.cannotPipeline /\ Directed(c, t).first = c.first
         /\ Directed(c, t).request = c.request /\ Directed(c, t).pending = c.pending
         /\ Directed(c, t).responses = c.responses
<1> DEFINE p == Place[t]
           b == t \in Secure
           n == t \notin NonPersistent
           d == [c EXCEPT !.place = p, !.secure = b, !.persistent = n]
<1>1. p \in Places /\ b \in BOOLEAN /\ n \in BOOLEAN  BY DEF Places
<1>2. d = Directed(c, t)  BY DEF Directed
<1> HIDE DEF p, b, n
<1>3. d \in Manager /\ d.place = p /\ d.secure = b  BY <1>1 DEF Manager
<1>4. /\ d.exists = c.exists /\ d.state = c.state /\ d.cannotPipeline = c.cannotPipeline /\ d.first = c.first
      /\ d.request = c.request /\ d.pending = c.pending /\ d.responses = c.responses
  BY DEF Manager
<1> HIDE DEF d
<1> QED BY <1>2, <1>3, <1>4 DEF p, b

LEMMA LongerIs ==
  ASSUME NEW c \in Manager, NEW t \in Trans
  PROVE  /\ Longer(c, t) \in Manager
         /\ Longer(c, t).request = IF c.request = None THEN t ELSE c.request
         /\ Longer(c, t).pending = IF c.request = None THEN c.pending ELSE Append(c.pending, t)
         /\ Longer(c, t).responses = Append(c.responses, t)
         /\ Longer(c, t).place = c.place /\ Longer(c, t).secure = c.secure
         /\ Longer(c, t).exists = c.exists /\ Longer(c, t).state = c.state
         /\ Longer(c, t).cannotPipeline = c.cannotPipeline /\ Longer(c, t).first = c.first
<1> DEFINE x == IF c.request = None THEN t ELSE c.request
           y == IF c.request = None THEN c.pending ELSE Append(c.pending, t)
           z == Append(c.responses, t)
           d == [c EXCEPT !.request = x, !.pending = y, !.responses = z]
<1>1. x \in Trans \cup {None} /\ y \in Seq(Trans) /\ z \in Seq(Trans)
  <2>1. c.request \in Trans \cup {None} /\ c.pending \in Seq(Trans) /\ c.responses \in Seq(Trans)
    BY ManagerMembers
  <2> QED BY <2>1, AppendProperties
<1>2. d = Longer(c, t)  BY DEF Longer
<1> HIDE DEF x, y, z
<1>3. d \in Manager /\ d.request = x /\ d.pending = y /\ d.responses = z  BY <1>1 DEF Manager
<1>4. /\ d.exists = c.exists /\ d.state = c.state /\ d.cannotPipeline = c.cannotPipeline /\ d.first = c.first
      /\ d.place = c.place /\ d.secure = c.secure
  BY DEF Manager
<1> HIDE DEF d
<1> QED BY <1>2, <1>3, <1>4 DEF x, y, z

LEMMA EnqueueTakes ==
  ASSUME NEW w \in World, NEW m \in Managers, NEW t \in Trans
  PROVE  Takes(w, Enqueue(w, m, t), m, {}, Longer(Directed(w.conn[m], t), t))
<1> DEFINE c == w.conn[m]
           d == Directed(c, t)
           x == [c EXCEPT !.place = Place[t], !.secure = t \in Secure, !.persistent = t \notin NonPersistent,
                          !.request = IF @ = None THEN t ELSE @,
                          !.pending = IF c.request = None THEN @ ELSE Append(@, t),
                          !.responses = Append(@, t)]
<1>1. c \in Manager  BY ManagerThere
<1>2. Enqueue(w, m, t) = SetManager(w, m, x)  BY Zenon DEF Enqueue, SetManager, Upd
<1> HIDE DEF c
<1>3. d.request = c.request  BY <1>1, DirectedIs
<1>4. x = [d EXCEPT !.request = IF @ = None THEN t ELSE @,
                    !.pending = IF c.request = None THEN @ ELSE Append(@, t),
                    !.responses = Append(@, t)]
  BY Zenon DEF d, Directed
<1> HIDE DEF d, x
<1>5. x = Longer(d, t)  BY <1>3, <1>4 DEF Longer
<1>6. d \in Manager /\ d.exists = c.exists  BY <1>1, DirectedIs DEF d
<1>7. x \in Manager /\ x.exists = c.exists  BY <1>5, <1>6, LongerIs
<1>8. Takes(w, SetManager(w, m, x), m, {}, x)  BY <1>7, SetTakes DEF c
<1> QED BY <1>2, <1>5, <1>8 DEF c, d

\* What a manager is that may take t: nobody waits for it, or t may wait behind the others.
Free(c) == c.responses = <<>> /\ c.pending = <<>> /\ c.request = None /\ c.state \in Idle
Joinable(c, t) ==
  /\ Shape(c) /\ c.responses # <<>> /\ ~c.cannotPipeline
  /\ c.place = Place[t] /\ c.secure = (t \in Secure) /\ t \notin ToSet(c.responses)

\* Its shape with t.
LEMMA FirstShape ==
  ASSUME NEW d \in Manager, NEW t \in Trans, d.responses = Append(<<>>, t), d.pending = <<>>, d.request = t,
         d.state \notin Idle, d.exists, d.place = Place[t], d.secure = (t \in Secure)
  PROVE  Shape(d) /\ ToSet(d.responses) = {t}
<1>1. d.responses = <<t>>  OBVIOUS
<1>2. ToSet(d.responses) = {t} /\ IsInjective(d.responses) /\ d.responses # <<>> /\ Head(d.responses) = t
      /\ Tail(d.responses) = <<>>
  BY <1>1, OneInQueue
<1>3. ToSet(d.pending) = {} /\ IsInjective(d.pending) /\ ToSet(Tail(d.responses)) = {}  BY <1>2, EmptyQueue
<1>4. d.request # None  BY ConstantsAssumption DEF None
<1>5. FirstCurrent(d)  BY <1>2, <1>3, <1>4 DEF FirstCurrent
<1>6. Placed(d)  BY <1>2 DEF Placed
<1> QED BY <1>2, <1>3, <1>5, <1>6 DEF Shape

LEMMA NextShape ==
  ASSUME NEW c \in Manager, NEW t \in Trans, Joinable(c, t)
  PROVE  /\ Shape(Longer(Directed(c, t), t))
         /\ ToSet(Longer(Directed(c, t), t).responses) = ToSet(c.responses) \cup {t}
<1> DEFINE d == Longer(Directed(c, t), t)
           r == c.responses
           p == c.pending
           z == Append(r, t)
           y == Append(p, t)
<1>1. Directed(c, t) \in Manager  BY DirectedIs
<1>2. /\ d \in Manager /\ d.request = (IF c.request = None THEN t ELSE c.request)
      /\ d.pending = (IF c.request = None THEN p ELSE y) /\ d.responses = z
      /\ d.place = Place[t] /\ d.secure = (t \in Secure) /\ d.exists = c.exists /\ d.state = c.state
      /\ d.cannotPipeline = c.cannotPipeline /\ d.first = c.first
  <2> DEFINE a == Directed(c, t)
  <2>1. /\ a \in Manager /\ a.request = c.request /\ a.pending = p /\ a.responses = r
        /\ a.place = Place[t] /\ a.secure = (t \in Secure) /\ a.exists = c.exists /\ a.state = c.state
        /\ a.cannotPipeline = c.cannotPipeline /\ a.first = c.first
    BY DirectedIs
  <2> HIDE DEF a
  <2>2. /\ Longer(a, t) \in Manager
        /\ Longer(a, t).request = IF a.request = None THEN t ELSE a.request
        /\ Longer(a, t).pending = IF a.request = None THEN a.pending ELSE Append(a.pending, t)
        /\ Longer(a, t).responses = Append(a.responses, t)
        /\ Longer(a, t).place = a.place /\ Longer(a, t).secure = a.secure
        /\ Longer(a, t).exists = a.exists /\ Longer(a, t).state = a.state
        /\ Longer(a, t).cannotPipeline = a.cannotPipeline /\ Longer(a, t).first = a.first
    BY <2>1, LongerIs
  <2>3. d = Longer(a, t)  BY DEF a
  <2> HIDE DEF d, p, r
  <2> QED BY <2>1, <2>2, <2>3 DEF p, r
<1> HIDE DEF d
<1>3. r \in Seq(Trans) /\ p \in Seq(Trans) /\ r # <<>> /\ t \notin ToSet(r) /\ IsInjective(r) /\ IsInjective(p)
      /\ ToSet(p) \subseteq ToSet(r)
  BY ManagerMembers DEF Joinable, Shape
<1>4. /\ z \in Seq(Trans) /\ z # <<>> /\ ToSet(z) = ToSet(r) \cup {t} /\ Head(z) = Head(r) /\ IsInjective(z)
  <2> HIDE DEF r
  <2> QED BY <1>3, Appended
<1>5. ToSet(y) = ToSet(p) \cup {t} /\ IsInjective(y)
  <2>1. t \notin ToSet(p)  BY <1>3
  <2> HIDE DEF p
  <2> QED BY <1>3, <2>1, Appended
<1>6. ToSet(Tail(z)) = ToSet(Tail(r)) \cup {t}
  <2> HIDE DEF r, z
  <2>1. ToSet(r) = {Head(r)} \cup ToSet(Tail(r)) /\ Head(r) \notin ToSet(Tail(r)) /\ Head(r) \in ToSet(r)
    BY <1>3, HeadAndTail
  <2>2. ToSet(z) = {Head(z)} \cup ToSet(Tail(z)) /\ Head(z) \notin ToSet(Tail(z))
    BY <1>4, HeadAndTail
  <2> QED BY <1>3, <1>4, <2>1, <2>2
<1> HIDE DEF y, z
<1>7. FirstCurrent(d)
  <2> SUFFICES ASSUME c.first PROVE /\ d.request \in {Head(z), None} /\ ToSet(Tail(z)) \subseteq ToSet(d.pending)
                                    /\ d.request = None => d.cannotPipeline
    BY <1>2 DEF FirstCurrent
  <2>1. c.request \in {Head(r), None} /\ ToSet(Tail(r)) \subseteq ToSet(p) /\ c.request # None
    BY <1>3 DEF Joinable, Shape, FirstCurrent
  <2> QED BY <1>2, <1>4, <1>5, <1>6, <2>1
<1>8. Placed(d)  BY <1>2, <1>4 DEF Joinable, Shape, Placed
<1>9. ToSet(d.pending) \subseteq ToSet(z) /\ IsInjective(d.pending)  BY <1>2, <1>3, <1>4, <1>5
<1>10. d.request \in ToSet(z) \cup {None}  BY <1>2, <1>4 DEF Joinable, Shape
<1>11. c.state \notin Idle /\ (c.exists \/ c.state = "EIdle")  BY <1>3 DEF Joinable, Shape
<1>12. Shape(d)  BY <1>2, <1>4, <1>7, <1>8, <1>9, <1>10, <1>11 DEF Shape
<1> QED BY <1>2, <1>4, <1>12 DEF d

LEMMA SubmitTakes ==
  ASSUME NEW w \in World, NEW m \in Managers, NEW t \in Trans, w.conn[m].exists,
         Free(w.conn[m]) \/ Joinable(w.conn[m], t)
  PROVE  \E d : /\ Takes(w, Submit(w, m, t), m, {}, d) /\ Shape(d)
                /\ ToSet(d.responses) = ToSet(w.conn[m].responses) \cup {t}
<1> DEFINE c == w.conn[m]
           closes == c.state = "EClosing" \/ (c.state = "EIdleConnected" /\ ~Reusable(c, t))
           w1 == Check(w, closes => c.responses = <<>>, "PendingResponses")
           w2 == IF closes THEN CloseConnection(w1, m) ELSE w1
           w3 == Check(w2, c.responses # <<>> => ~c.cannotPipeline, "CannotPipeline")
           q == Enqueue(w3, m, t)
           state == w2.conn[m].state
           v == Submit(w, m, t)
           v1 == [q EXCEPT !.conn[m].state = "EConnecting",
                           !.conn[m].first = @ \/ ~w2.conn[m].cannotPipeline]
           v2 == [q EXCEPT !.conn[m].state = "EUpgrading"]
           v3 == [q EXCEPT !.conn[m].state = "EConnected", !.conn[m].pendingWrite = TRUE]
<1>1. v = CASE state = "EIdle" -> v1
            [] state = "EIdleConnected" /\ t \in Secure /\ ~c.secure -> v2
            [] state = "EIdleConnected" /\ ~(t \in Secure /\ ~c.secure) -> v3
            [] OTHER -> q
  BY Zenon DEF Submit
<1> HIDE DEF v
<1>2. c \in Manager  BY ManagerThere
<1>3. closes => c.responses = <<>>  BY DEF Free, Joinable, Shape, Idle
<1>4. c.responses # <<>> => ~c.cannotPipeline  BY DEF Free, Joinable
<1>5. w1 = w /\ w3 = w2  BY <1>3, <1>4 DEF Check
<1> HIDE DEF w1, w3
<1>6. PICK b \in Manager : /\ Takes(w, w2, m, {}, b) /\ b.exists /\ b.responses = c.responses
                           /\ Joinable(c, t) => b = c
                           /\ Free(c) => Free(b) /\ b.state \in {"EIdle", "EIdleConnected"}
  <2>1. CASE closes
    <3> DEFINE b == IdleOf(Closing(c))
    <3>1. Takes(w, w2, m, {}, b)  BY <1>5, <2>1, CloseTakes
    <3>2. /\ Closing(c) \in Manager /\ Closing(c).exists /\ Closing(c).responses = c.responses
          /\ Closing(c).pending = c.pending /\ Closing(c).request = c.request
      BY <1>2, ClosingIs
    <3>3. /\ b \in Manager /\ b.state = "EIdle" /\ b.exists /\ b.responses = c.responses
          /\ b.pending = c.pending /\ b.request = c.request
      BY <3>2, IdleIs
    <3>4. ~Joinable(c, t)  BY <1>3, <2>1 DEF Joinable
    <3> HIDE DEF b, w2
    <3>5. Free(c) => Free(b)  BY <3>3 DEF Free, Idle
    <3> QED BY <3>1, <3>3, <3>4, <3>5
  <2>2. CASE ~closes
    <3>1. w2 = w  BY <1>5, <2>2
    <3>2. Takes(w, w2, m, {}, c)  BY <3>1 DEF Takes, Moves
    <3>3. Free(c) => c.state \in {"EIdle", "EIdleConnected"}  BY <2>2 DEF Free, Idle
    <3> HIDE DEF w2
    <3> QED BY <1>2, <3>2, <3>3
  <2> QED BY <2>1, <2>2
<1>7. w2 \in World /\ w2.conn[m] = b  BY <1>6 DEF Takes, Moves
<1> HIDE DEF w2
<1> DEFINE e == Longer(Directed(b, t), t)
<1>8. Takes(w2, q, m, {}, e)  BY <1>5, <1>7, EnqueueTakes
<1> HIDE DEF q
<1>9. Takes(w, q, m, {}, e)
  <2> HIDE DEF e
  <2>1. Takes(w, q, m, {} \cup {}, e)  BY <1>6, <1>7, <1>8, TakesTwice
  <2>2. {} \cup {} = {}  OBVIOUS
  <2> QED BY <2>1, <2>2
<1>10. q \in World /\ q.conn[m] = e  BY <1>9 DEF Takes, Moves
<1>11. CASE Joinable(c, t)
  <2>1. b = c  BY <1>6, <1>11
  <2>2. Shape(e) /\ ToSet(e.responses) = ToSet(c.responses) \cup {t}  BY <1>2, <1>11, <2>1, NextShape
  <2>3. c.state \notin Idle  BY <1>11 DEF Joinable, Shape
  <2>4. v = q  BY <1>1, <1>7, <2>1, <2>3 DEF Idle
  <2> QED BY <1>9, <2>2, <2>4 DEF v
<1>12. CASE Free(c)
  <2>1. /\ b.responses = <<>> /\ b.pending = <<>> /\ b.request = None /\ c.responses = <<>>
        /\ b.state \in {"EIdle", "EIdleConnected"}
    BY <1>6, <1>12 DEF Free
  <2>2. /\ e \in Manager /\ e.responses = Append(<<>>, t) /\ e.pending = <<>> /\ e.request = t
        /\ e.exists /\ e.place = Place[t] /\ e.secure = (t \in Secure)
    <3> DEFINE a == Directed(b, t)
    <3>1. /\ a \in Manager /\ a.request = None /\ a.pending = <<>> /\ a.responses = <<>>
          /\ a.place = Place[t] /\ a.secure = (t \in Secure) /\ a.exists
      BY <1>6, <2>1, DirectedIs
    <3> HIDE DEF a
    <3>2. /\ Longer(a, t) \in Manager /\ Longer(a, t).request = t /\ Longer(a, t).pending = <<>>
          /\ Longer(a, t).responses = Append(<<>>, t)
          /\ Longer(a, t).place = Place[t] /\ Longer(a, t).secure = (t \in Secure) /\ Longer(a, t).exists
      BY <3>1, LongerIs
    <3> QED BY <3>2 DEF a
  <2> HIDE DEF e
  <2>3. ASSUME NEW d \in Manager, v = SetManager(q, m, d),
               d.responses = e.responses, d.pending = e.pending, d.request = e.request,
               d.exists = e.exists, d.place = e.place, d.secure = e.secure, d.state \notin Idle
        PROVE  /\ Takes(w, v, m, {}, d) /\ Shape(d)
               /\ ToSet(d.responses) = ToSet(c.responses) \cup {t}
    <3>1. Takes(q, v, m, {}, d)  BY <1>10, <2>3, SetTakes
    <3>2. Takes(w, v, m, {} \cup {}, d)  BY <1>9, <1>10, <3>1, TakesTwice
    <3>3. {} \cup {} = {} /\ ToSet(c.responses) = {} /\ {} \cup {t} = {t}  BY <2>1, EmptyQueue
    <3>4. d.responses = Append(<<>>, t) /\ d.pending = <<>> /\ d.request = t /\ d.exists
          /\ d.place = Place[t] /\ d.secure = (t \in Secure)
      BY <2>2, <2>3
    <3>5. Shape(d) /\ ToSet(d.responses) = {t}  BY <2>3, <3>4, FirstShape
    <3> QED BY <3>2, <3>3, <3>5
  <2>4. CASE b.state = "EIdle"
    <3> DEFINE f == e.first \/ ~b.cannotPipeline
               d == [e EXCEPT !.state = "EConnecting", !.first = f]
    <3>1. v = v1  BY <1>1, <1>7, <2>4
    <3>2. v1 = SetManager(q, m, d)  BY <1>7, <1>10 DEF SetManager, Upd, World, Manager
    <3>3. f \in BOOLEAN  OBVIOUS
    <3> HIDE DEF f, v1
    <3>4. /\ d \in Manager /\ d.responses = e.responses /\ d.pending = e.pending /\ d.request = e.request
          /\ d.exists = e.exists /\ d.place = e.place /\ d.secure = e.secure /\ d.state \notin Idle
      BY <2>2, <3>3 DEF Manager, ConnStates, Idle
    <3> HIDE DEF d
    <3> QED BY <2>3, <3>1, <3>2, <3>4 DEF v
  <2>5. CASE b.state = "EIdleConnected" /\ t \in Secure /\ ~c.secure
    <3> DEFINE d == [e EXCEPT !.state = "EUpgrading"]
    <3>1. v = v2  BY <1>1, <1>7, <2>5
    <3>2. v2 = SetManager(q, m, d)  BY <1>10 DEF SetManager, Upd, World, Manager
    <3> HIDE DEF v2
    <3>4. /\ d \in Manager /\ d.responses = e.responses /\ d.pending = e.pending /\ d.request = e.request
          /\ d.exists = e.exists /\ d.place = e.place /\ d.secure = e.secure /\ d.state \notin Idle
      BY <2>2 DEF Manager, ConnStates, Idle
    <3> HIDE DEF d
    <3> QED BY <2>3, <3>1, <3>2, <3>4 DEF v
  <2>6. CASE b.state = "EIdleConnected" /\ ~(t \in Secure /\ ~c.secure)
    <3> DEFINE d == [e EXCEPT !.state = "EConnected", !.pendingWrite = TRUE]
    <3>1. v = v3  BY <1>1, <1>7, <2>6
    <3>2. v3 = SetManager(q, m, d)  BY <1>10 DEF SetManager, Upd, World, Manager
    <3> HIDE DEF v3
    <3>4. /\ d \in Manager /\ d.responses = e.responses /\ d.pending = e.pending /\ d.request = e.request
          /\ d.exists = e.exists /\ d.place = e.place /\ d.secure = e.secure /\ d.state \notin Idle
      BY <2>2 DEF Manager, ConnStates, Idle
    <3> HIDE DEF d
    <3> QED BY <2>3, <3>1, <3>2, <3>4 DEF v
  <2> QED BY <2>1, <2>4, <2>5, <2>6
<1> QED BY <1>11, <1>12

\* A manager that is there, with nobody waiting or with pipelining, or the next to be created.
Choosable(w, t, m) ==
  /\ m \in Managers
  /\ \/ /\ w.conn[m].exists
        /\ \/ w.conn[m].state \in Idle
           \/ /\ Status(w.conn[m]) = "EConnectedAndBusy" /\ MayPipeline(w, t)
              /\ w.conn[m].place = Place[t] /\ w.conn[m].secure = (t \in Secure)
     \/ \A n \in Managers : w.conn[n].exists <=> n < m

LEMMA StatusIs ==
  ASSUME NEW c
  PROVE  /\ Status(c) \in {"ENotConnected", "EConnectedAndAvailable"} => c.state \in Idle
         /\ Status(c) = "EConnectedAndBusy" => c.state \notin Idle /\ ~c.cannotPipeline
<1>1. CASE c.state \in {"EIdle", "EClosing"}
  <2>1. Status(c) = "ENotConnected"  BY <1>1 DEF Status
  <2> QED BY <1>1, <2>1 DEF Idle
<1>2. CASE c.state = "EIdleConnected"
  <2>1. Status(c) = "EConnectedAndAvailable"  BY <1>2 DEF Status
  <2> QED BY <1>2, <2>1 DEF Idle
<1>3. CASE c.state \notin Idle
  <2>1. Status(c) \in {"EConnectingNotAvailable", "EConnectedAndBusy", "EConnectedNotAvailable"}
        /\ (Status(c) = "EConnectedAndBusy" => ~c.cannotPipeline)
    <3>1. CASE c.state = "EConnecting" /\ EnableOptimalPipeline
      BY <1>3, <3>1 DEF Status, Idle
    <3>2. CASE ~(c.state = "EConnecting" /\ EnableOptimalPipeline)
      BY <1>3, <3>2 DEF Status, Idle
    <3> QED BY <3>1, <3>2
  <2> QED BY <1>3, <2>1
<1> QED BY <1>1, <1>2, <1>3 DEF Idle

LEMMA SelectionIs ==
  ASSUME NEW w, Good(w), NEW t \in Trans
  PROVE  Selection(w, t).manager = 0 \/ Choosable(w, t, Selection(w, t).manager)
<1> DEFINE pipe == MayPipeline(w, t)
           available == OfStatus(w, "EConnectedAndAvailable") \cap MatchesPlace(w, t)
           busy == OfStatus(w, "EConnectedAndBusy") \cap MatchesPlace(w, t) \cap MatchesSecurity(w, t)
           theOnes == IF pipe THEN busy ELSE available
           second == OfStatus(w, "ENotConnected")
           fourth == OfStatus(w, "EConnectedAndAvailable") \ MatchesPlace(w, t)
           connecting == pipe /\ OfStatus(w, "EConnectingNotAvailable") \cap MatchesPlace(w, t)
                                  \cap MatchesSecurity(w, t) # {}
           number == Cardinality(Existing(w))
           s == Selection(w, t)
<1>1. s = CASE theOnes # {} -> [manager |-> FirstOf(theOnes), new |-> FALSE]
            [] theOnes = {} /\ pipe /\ available # {} -> [manager |-> LastOf(available), new |-> FALSE]
            [] theOnes = {} /\ ~(pipe /\ available # {}) ->
                 IF second # {} THEN [manager |-> LastOf(second), new |-> TRUE]
                 ELSE IF number < MaxConnectionManagers
                 THEN [manager |-> IF connecting THEN 0 ELSE number + 1, new |-> ~connecting]
                 ELSE IF fourth # {} THEN [manager |-> LastOf(fourth), new |-> TRUE]
                 ELSE [manager |-> 0, new |-> TRUE]
  BY Zenon DEF Selection
<1> HIDE DEF s
<1>2. MaxConnectionManagers \in Nat /\ Managers = 1 .. MaxConnectionManagers
  BY ConstantsAssumption DEF Managers
<1>3. ASSUME NEW S, S \subseteq Managers, S # {}
      PROVE  FirstOf(S) \in S /\ LastOf(S) \in S
  BY <1>2, <1>3, FirstAndLast
<1>4. ASSUME NEW m \in available \cup second \cup fourth PROVE Choosable(w, t, m)
  <2>1. m \in Managers /\ w.conn[m].exists /\ Status(w.conn[m]) \in {"ENotConnected", "EConnectedAndAvailable"}
    BY DEF OfStatus, Existing
  <2>2. w.conn[m].state \in Idle  BY <2>1, StatusIs
  <2> QED BY <2>1, <2>2 DEF Choosable
<1>5. ASSUME pipe, NEW m \in busy PROVE Choosable(w, t, m)
  BY <1>5 DEF OfStatus, Existing, MatchesPlace, MatchesSecurity, Choosable
<1>6. available \cup second \cup fourth \cup busy \subseteq Managers
  BY DEF OfStatus, Existing
<1>7. ASSUME number < MaxConnectionManagers PROVE Choosable(w, t, number + 1)
  <2>1. PICK k \in 0 .. MaxConnectionManagers : \A m \in Managers : w.conn[m].exists <=> m <= k
    BY DEF Good, Created
  <2>2. Existing(w) = 1 .. k  BY <1>2, <2>1 DEF Existing
  <2>3. number = k
    <3>1. k \in Nat  BY <1>2, <2>1
    <3>2. Cardinality(1 .. k) = IF 1 > k THEN 0 ELSE k - 1 + 1  BY <3>1, FS_Interval
    <3> QED BY <2>2, <3>1, <3>2
  <2> HIDE DEF number
  <2>4. number + 1 \in Managers  BY <1>2, <1>7, <2>1, <2>3
  <2>5. \A n \in Managers : w.conn[n].exists <=> n < number + 1  BY <1>2, <2>1, <2>3
  <2> QED BY <2>4, <2>5 DEF Choosable
<1> HIDE DEF available, busy, second, fourth, connecting, number
<1>8. CASE theOnes # {}
  <2>1. s.manager = FirstOf(theOnes)  BY <1>1, <1>8
  <2>2. FirstOf(theOnes) \in theOnes  BY <1>3, <1>6, <1>8
  <2> QED BY <1>4, <1>5, <2>1, <2>2 DEF s
<1>9. CASE theOnes = {} /\ pipe /\ available # {}
  <2> HIDE DEF theOnes
  <2>1. s = [manager |-> LastOf(available), new |-> FALSE]  BY <1>1, <1>9
  <2>2. LastOf(available) \in available  BY <1>3, <1>6, <1>9
  <2> QED BY <1>4, <2>1, <2>2 DEF s
<1>10. CASE theOnes = {} /\ ~(pipe /\ available # {})
  <2> HIDE DEF theOnes
  <2>1. s = IF second # {} THEN [manager |-> LastOf(second), new |-> TRUE]
            ELSE IF number < MaxConnectionManagers
            THEN [manager |-> IF connecting THEN 0 ELSE number + 1, new |-> ~connecting]
            ELSE IF fourth # {} THEN [manager |-> LastOf(fourth), new |-> TRUE]
            ELSE [manager |-> 0, new |-> TRUE]
    BY <1>1, <1>10
  <2>2. CASE second # {}
    <3>1. LastOf(second) \in second /\ s.manager = LastOf(second)  BY <1>3, <1>6, <2>1, <2>2
    <3> QED BY <1>4, <3>1 DEF s
  <2>3. CASE second = {} /\ number < MaxConnectionManagers
    <3>1. s.manager \in {0, number + 1}  BY <2>1, <2>3
    <3> QED BY <1>7, <2>3, <3>1 DEF s
  <2>4. CASE second = {} /\ ~(number < MaxConnectionManagers) /\ fourth # {}
    <3>1. LastOf(fourth) \in fourth /\ s.manager = LastOf(fourth)  BY <1>3, <1>6, <2>1, <2>4
    <3> QED BY <1>4, <3>1 DEF s
  <2>5. CASE second = {} /\ ~(number < MaxConnectionManagers) /\ fourth = {}
    <3>1. s.manager = 0  BY <2>1, <2>5
    <3> QED BY <3>1 DEF s
  <2> QED BY <2>2, <2>3, <2>4, <2>5
<1> QED BY <1>8, <1>9, <1>10

\* v is w after t was given to m, which has become c.
Gives(w, v, m, t, c) ==
  /\ v \in World /\ v.panic = w.panic /\ v.queue = w.queue
  /\ \A n \in Managers \ {m} : v.conn[n] = w.conn[n]
  /\ v.conn[m] = c
  /\ \A s \in Trans \ {t} : v.trans[s] = w.trans[s]
  /\ v.trans[t].manager = m

LEMMA ManagerIs ==
  ASSUME NEW w \in World, NEW m \in Managers, NEW c \in Manager
  PROVE  /\ SetManager(w, m, c) \in World /\ SetManager(w, m, c).panic = w.panic
         /\ SetManager(w, m, c).queue = w.queue /\ SetManager(w, m, c).trans = w.trans
         /\ SetManager(w, m, c).conn[m] = c
         /\ \A n \in Managers \ {m} : SetManager(w, m, c).conn[n] = w.conn[n]
<1> DEFINE f == Upd(w.conn, m, c)
           v == [w EXCEPT !.conn = f]
<1>1. f \in [Managers -> Manager] /\ f[m] = c /\ \A n \in Managers : n # m => f[n] = w.conn[n]
  <2>1. w.conn \in [Managers -> Manager]  BY Members
  <2>2. f \in [Managers -> Manager]  BY <2>1, UpdIs
  <2>3. f[m] = c /\ \A n \in Managers : n # m => f[n] = w.conn[n]  BY <2>1 DEF Upd
  <2> QED BY <2>2, <2>3
<1> HIDE DEF f
<1>2. v \in World /\ v.panic = w.panic /\ v.queue = w.queue /\ v.conn = f /\ v.trans = w.trans
  BY <1>1 DEF World
<1> HIDE DEF v
<1>3. v = SetManager(w, m, c)  BY DEF SetManager, v, f
<1> QED BY <1>1, <1>2, <1>3

LEMMA GivesTransaction ==
  ASSUME NEW w, NEW v, NEW m \in Managers, NEW t \in Trans, NEW c, Gives(w, v, m, t, c),
         NEW r \in ProtTransaction, r.manager = m
  PROVE  Gives(w, SetTransaction(v, t, r), m, t, c)
<1>1. v \in World  BY DEF Gives
<1> DEFINE x == SetTransaction(v, t, r)
<1>2. /\ x \in World /\ x.panic = v.panic /\ x.queue = v.queue /\ x.conn = v.conn /\ x.trans[t] = r
      /\ \A s \in Trans \ {t} : x.trans[s] = v.trans[s]
  BY <1>1, TransactionIs
<1> HIDE DEF x
<1>3. Gives(w, x, m, t, c)  BY <1>2 DEF Gives
<1> QED BY <1>3 DEF x

LEMMA GivesManager ==
  ASSUME NEW w, NEW v, NEW m \in Managers, NEW t \in Trans, NEW c, Gives(w, v, m, t, c), NEW d \in Manager
  PROVE  Gives(w, SetManager(v, m, d), m, t, d)
<1>1. v \in World  BY DEF Gives
<1> DEFINE x == SetManager(v, m, d)
<1>2. /\ x \in World /\ x.panic = v.panic /\ x.queue = v.queue /\ x.trans = v.trans /\ x.conn[m] = d
      /\ \A n \in Managers \ {m} : x.conn[n] = v.conn[n]
  BY <1>1, ManagerIs
<1> HIDE DEF x
<1>3. Gives(w, x, m, t, d)  BY <1>2 DEF Gives
<1> QED BY <1>3 DEF x

LEMMA GivesTakes ==
  ASSUME NEW w, NEW v, NEW m \in Managers, NEW t \in Trans, NEW c, Gives(w, v, m, t, c),
         NEW x, NEW d, Takes(v, x, m, {}, d)
  PROVE  Gives(w, x, m, t, d)
  BY DEF Gives, Takes, Moves

\* A good world stays good when a transaction without a manager is given to one that may take it.
LEMMA GivesGood ==
  ASSUME NEW w, Good(w), NEW v, NEW m \in Managers, NEW t \in Trans, NEW d, Gives(w, v, m, t, d),
         w.trans[t].manager = 0, t \in ToSet(w.queue), v.trans[t].state = "EActive",
         Choosable(w, t, m), Shape(d), d.exists, ToSet(d.responses) = ToSet(w.conn[m].responses) \cup {t}
  PROVE  Good(v)
<1>1. /\ v \in World /\ v.panic = {} /\ v.queue = w.queue
      /\ \A n \in Managers \ {m} : v.conn[n] = w.conn[n]
      /\ v.conn[m] = d
      /\ \A s \in Trans \ {t} : v.trans[s] = w.trans[s]
      /\ v.trans[t].manager = m
  BY DEF Gives, Good
<1>2. MaxConnectionManagers \in Nat /\ Managers = 1 .. MaxConnectionManagers
  BY ConstantsAssumption DEF Managers
<1>3. \A n \in Managers : Shape(v.conn[n])  BY <1>1 DEF Good
<1>4. Created(v)
  <2>1. CASE w.conn[m].exists
    <3>1. \A n \in Managers : v.conn[n].exists <=> w.conn[n].exists  BY <1>1, <2>1
    <3> QED BY <3>1 DEF Good, Created
  <2>2. CASE \A n \in Managers : w.conn[n].exists <=> n < m
    <3>1. m \in 0 .. MaxConnectionManagers  BY <1>2
    <3>2. \A n \in Managers : v.conn[n].exists <=> n <= m  BY <1>1, <1>2, <2>2
    <3> QED BY <3>1, <3>2 DEF Created
  <2> QED BY <2>1, <2>2 DEF Choosable
<1>5. ASSUME NEW s \in Trans, NEW n \in Managers
      PROVE  s \in ToSet(v.conn[n].responses) <=> v.trans[s].manager = n
  <2>1. s \in ToSet(w.conn[n].responses) <=> w.trans[s].manager = n  BY DEF Good, Owned
  <2>2. 0 # n  BY <1>2
  <2> QED BY <1>1, <2>1, <2>2
<1>6. \A s \in Trans : v.trans[s].manager # 0 => v.trans[s].state = "EActive" /\ s \in ToSet(v.queue)
  <2> SUFFICES ASSUME NEW s \in Trans, v.trans[s].manager # 0
               PROVE  v.trans[s].state = "EActive" /\ s \in ToSet(v.queue)  OBVIOUS
  <2>1. CASE s = t  BY <1>1, <2>1
  <2>2. CASE s # t  BY <1>1, <2>2 DEF Good, Owned
  <2> QED BY <2>1, <2>2
<1> QED BY <1>1, <1>3, <1>4, <1>5, <1>6 DEF Good, Owned

LEMMA ServiceGood ==
  ASSUME NEW w, Good(w), NEW t \in Trans, t \in ToSet(w.queue), w.trans[t].state = "EPending"
  PROVE  Good(Service(w, t)) /\ Service(w, t).queue = w.queue
<1> DEFINE choice == Selection(w, t)
           m == choice.manager
           c == w.conn[m]
           w1 == Check(w, w.trans[t].manager = 0, "SetConnectionManager")
           w2 == [w1 EXCEPT !.trans[t].manager = m, !.conn[m].exists = TRUE]
           w3 == IF choice.new THEN IncRetryCount(w2, t) ELSE w2
           w4 == IF MayPipeline(w, t) THEN w3 ELSE DisablePipelining(w3, m)
           x == Submit(w4, m, t)
           v == Service(w, t)
<1>1. v = IF m = 0 THEN w ELSE [x EXCEPT !.trans[t].state = "EActive"]  BY Zenon DEF Service
<1> HIDE DEF v
<1>2. CASE m = 0  BY <1>1, <1>2 DEF v
<1>3. CASE m # 0
  <2>1. w.trans[t].manager = 0  BY Unmanaged
  <2>2. Choosable(w, t, m) /\ m \in Managers  BY <1>3, SelectionIs DEF Choosable
  <2>3. w \in World /\ c \in Manager /\ Shape(c) /\ w.trans[t] \in ProtTransaction
    <3>1. w \in World /\ Shape(c)  BY <2>2 DEF Good
    <3>2. w.trans \in [Trans -> ProtTransaction]  BY <3>1, Members
    <3> QED BY <2>2, <3>1, <3>2, ManagerThere
  <2>4. w1 = w  BY <2>1 DEF Check
  <2> HIDE DEF w1
  <2> HIDE DEF m
  <2> DEFINE r == [w.trans[t] EXCEPT !.manager = m]
             d == [c EXCEPT !.exists = TRUE]
             a == SetTransaction(w, t, r)
  <2>5. w2 = SetManager(a, m, d)  BY <2>4 DEF SetManager, SetTransaction, Upd, World
  <2>6. r \in ProtTransaction /\ r.manager = m
    <3>1. m \in 0 .. MaxConnectionManagers  BY <2>2 DEF Managers
    <3> QED BY <2>3, <3>1 DEF ProtTransaction
  <2>7. /\ d \in Manager /\ d.exists /\ d.state = c.state /\ d.responses = c.responses
        /\ d.pending = c.pending /\ d.request = c.request
    BY <2>3 DEF Manager
  <2>8. c.exists => d = c  BY <2>3 DEF Manager
  <2> HIDE DEF c, d, r
  <2>9. Gives(w, a, m, t, c)
    <3>1. /\ a \in World /\ a.panic = w.panic /\ a.queue = w.queue /\ a.conn = w.conn /\ a.trans[t] = r
          /\ \A s \in Trans \ {t} : a.trans[s] = w.trans[s]
      BY <2>3, <2>6, TransactionIs
    <3> HIDE DEF a
    <3> QED BY <2>6, <3>1 DEF Gives, c
  <2> HIDE DEF a, w2
  <2>10. Gives(w, w2, m, t, d)  BY <2>2, <2>5, <2>7, <2>9, GivesManager
  <2>11. Gives(w, w3, m, t, d)
    <3>1. CASE choice.new
      <4> DEFINE q == w2.trans[t]
                 n == IF q.retries <= MaxRetryCount THEN q.retries + 1 ELSE q.retries
                 s == [q EXCEPT !.retries = n]
      <4>1. w3 = SetTransaction(w2, t, s)  BY <3>1 DEF IncRetryCount, SetTransaction, Upd
      <4>2. q \in ProtTransaction /\ q.manager = m  BY <2>10, Members DEF Gives
      <4>3. MaxRetryCount \in Nat  BY ConstantsAssumption
      <4>4. q.retries \in 0 .. MaxRetryCount + 1  BY <4>2 DEF ProtTransaction
      <4>5. n \in 0 .. MaxRetryCount + 1  BY <4>3, <4>4
      <4> HIDE DEF n, q
      <4>6. s \in ProtTransaction /\ s.manager = m  BY <4>2, <4>5 DEF ProtTransaction
      <4> HIDE DEF s, w3
      <4> QED BY <2>2, <2>10, <4>1, <4>6, GivesTransaction
    <3>2. CASE ~choice.new  BY <2>10, <3>2
    <3> QED BY <3>1, <3>2
  <2> HIDE DEF w3
  <2>12. w3 \in World /\ w3.conn[m] = d  BY <2>11 DEF Gives
  <2>13. PICK e \in Manager : /\ Gives(w, w4, m, t, e) /\ e.exists /\ e.responses = c.responses
                              /\ Free(e) \/ Joinable(e, t)
    <3>1. CASE c.state \in Idle
      <4>1. c.responses = <<>> /\ c.pending = <<>> /\ c.request = None /\ ~c.cannotPipeline
        <5>1. c.responses = <<>>  BY <2>3, <3>1 DEF Shape
        <5> QED BY <2>3, <5>1, NoneWaits
      <4>2. CASE MayPipeline(w, t)
        <5>1. w4 = w3  BY <4>2
        <5>2. Free(d)  BY <2>7, <3>1, <4>1 DEF Free
        <5> HIDE DEF w4
        <5> QED BY <2>7, <2>11, <5>1, <5>2
      <4>3. CASE ~MayPipeline(w, t)
        <5> DEFINE e == [d EXCEPT !.cannotPipeline = TRUE]
        <5>1. d.state \in {"EIdle", "EIdleConnected", "EClosing"} /\ ~d.cannotPipeline
          <6>1. d.cannotPipeline = c.cannotPipeline  BY <2>3 DEF d, Manager
          <6> QED BY <2>7, <3>1, <4>1, <6>1 DEF Idle
        <5>2. DisablePipelining(w3, m) = SetManager(w3, m, e)
          BY <2>12, <5>1 DEF DisablePipelining, Check, SetManager, Upd
        <5>3. w4 = SetManager(w3, m, e)  BY <4>3, <5>2
        <5>4. /\ e \in Manager /\ e.exists = d.exists /\ e.state = d.state /\ e.responses = d.responses
              /\ e.pending = d.pending /\ e.request = d.request
          BY <2>7 DEF Manager
        <5> HIDE DEF e, w4
        <5>5. Gives(w, w4, m, t, e)  BY <2>2, <2>11, <5>3, <5>4, GivesManager
        <5>6. Free(e)  BY <2>7, <3>1, <4>1, <5>4 DEF Free
        <5> QED BY <2>7, <5>4, <5>5, <5>6
      <4> QED BY <4>2, <4>3
    <3>2. CASE c.state \notin Idle
      <4>1. /\ c.exists /\ Status(c) = "EConnectedAndBusy" /\ MayPipeline(w, t)
            /\ c.place = Place[t] /\ c.secure = (t \in Secure)
        <5>1. c.exists  BY <2>3, <3>2 DEF Shape, Idle
        <5>2. ~(\A n \in Managers : w.conn[n].exists <=> n < m)
          <6>1. ~(m < m)  BY <2>2 DEF Managers
          <6> QED BY <2>2, <5>1, <6>1 DEF c
        <5> QED BY <2>2, <3>2, <5>1, <5>2 DEF Choosable, c
      <4>2. ~c.cannotPipeline  BY <4>1, StatusIs
      <4>3. t \notin ToSet(c.responses)
        <5>1. t \in ToSet(c.responses) <=> w.trans[t].manager = m  BY <2>2 DEF Good, Owned, c
        <5> QED BY <1>3, <2>1, <5>1 DEF m
      <4>4. Joinable(d, t)
        <5>1. c.responses # <<>>  BY <2>3, <3>2 DEF Shape
        <5> QED BY <2>3, <2>8, <4>1, <4>2, <4>3, <5>1 DEF Joinable
      <4>5. w4 = w3  BY <4>1
      <4> HIDE DEF w4
      <4> QED BY <2>7, <2>11, <4>4, <4>5
    <3> QED BY <3>1, <3>2
  <2> HIDE DEF w4
  <2>14. w4 \in World /\ w4.conn[m] = e  BY <2>13 DEF Gives
  <2>15. PICK f : /\ Takes(w4, x, m, {}, f) /\ Shape(f)
                 /\ ToSet(f.responses) = ToSet(c.responses) \cup {t}
    <3>1. \E f : /\ Takes(w4, x, m, {}, f) /\ Shape(f)
                 /\ ToSet(f.responses) = ToSet(w4.conn[m].responses) \cup {t}
      <4>1. w4.conn[m].exists /\ (Free(w4.conn[m]) \/ Joinable(w4.conn[m], t))  BY <2>13, <2>14
      <4> QED BY <2>2, <2>14, <4>1, SubmitTakes
    <3>2. w4.conn[m].responses = c.responses  BY <2>13, <2>14
    <3> HIDE DEF x
    <3> QED BY <3>1, <3>2
  <2> HIDE DEF x
  <2>16. Gives(w, x, m, t, f)  BY <2>2, <2>13, <2>15, GivesTakes
  <2>17. f.exists  BY <2>13, <2>14, <2>15 DEF Takes, Moves
  <2> DEFINE s == [x.trans[t] EXCEPT !.state = "EActive"]
             z == SetTransaction(x, t, s)
  <2>18. v = z  BY <1>1, <1>3 DEF SetTransaction, Upd, m
  <2>19. x \in World /\ s \in ProtTransaction /\ s.manager = m /\ s.state = "EActive"
    <3>1. x \in World /\ x.trans[t].manager = m  BY <2>16 DEF Gives
    <3>2. x.trans[t] \in ProtTransaction  BY <3>1, Members
    <3> QED BY <3>1, <3>2 DEF ProtTransaction, ProtStates
  <2> HIDE DEF s
  <2>20. Gives(w, z, m, t, f)  BY <2>2, <2>16, <2>19, GivesTransaction
  <2>21. z.trans[t].state = "EActive"
    <3>1. z.trans[t] = s  BY <2>19, TransactionIs
    <3> QED BY <2>19, <3>1
  <2> HIDE DEF z
  <2>22. Good(z)
    <3>1. ToSet(f.responses) = ToSet(w.conn[m].responses) \cup {t}  BY <2>15 DEF c
    <3> QED BY <2>1, <2>2, <2>15, <2>17, <2>20, <2>21, <3>1, GivesGood
  <2>23. z.queue = w.queue  BY <2>20 DEF Gives
  <2> QED BY <2>18, <2>22, <2>23 DEF v
<1> QED BY <1>2, <1>3
-----------------------------------------------------------------------------
(* The scan of the queue *)

Serving(f, w, q, k) == f = [n \in 0 .. k |-> IF n = 0 THEN w ELSE ServicePending(f[n - 1], q[n])]

LEMMA ServingExists ==
  ASSUME NEW w, NEW q, NEW k \in Nat
  PROVE  \E f : Serving(f, w, q, k)
<1> DEFINE S == {n \in Nat : \E f : Serving(f, w, q, n)}
<1>1. 0 \in S
  <2> DEFINE f == [n \in 0 .. 0 |-> w]
  <2>1. Serving(f, w, q, 0)  BY DEF Serving
  <2> QED BY <2>1
<1>2. ASSUME NEW n \in Nat, n \in S PROVE n + 1 \in S
  <2>1. PICK f : Serving(f, w, q, n)  BY <1>2
  <2> DEFINE g == [i \in 0 .. n + 1 |-> IF i = 0 THEN w ELSE ServicePending(f[i - 1], q[i])]
  <2>2. \A i \in 0 .. n : g[i] = f[i]
    <3> SUFFICES ASSUME NEW i \in 0 .. n PROVE g[i] = f[i]  OBVIOUS
    <3>1. f[i] = IF i = 0 THEN w ELSE ServicePending(f[i - 1], q[i])  BY <2>1 DEF Serving
    <3>2. i \in 0 .. n + 1  OBVIOUS
    <3> QED BY <3>1, <3>2
  <2>3. \A i \in 0 .. n + 1 : i # 0 => i - 1 \in 0 .. n  OBVIOUS
  <2>4. g = [i \in 0 .. n + 1 |-> IF i = 0 THEN w ELSE ServicePending(g[i - 1], q[i])]
    <3>1. \A i \in 0 .. n + 1 : i # 0 => g[i - 1] = f[i - 1]  BY <2>2, <2>3
    <3> HIDE DEF g
    <3>2. g = [i \in 0 .. n + 1 |-> IF i = 0 THEN w ELSE ServicePending(f[i - 1], q[i])]  BY DEF g
    <3> QED BY <3>1, <3>2
  <2> HIDE DEF g
  <2>5. Serving(g, w, q, n + 1)  BY <2>4 DEF Serving
  <2> QED BY <2>5
<1> HIDE DEF S
<1>3. k \in S  BY <1>1, <1>2, SetInduction
<1> QED BY <1>3 DEF S

LEMMA PendingGood ==
  ASSUME NEW w, Good(w), NEW t \in Trans, t \in ToSet(w.queue)
  PROVE  Good(ServicePending(w, t)) /\ ServicePending(w, t).queue = w.queue
  BY ServiceGood DEF ServicePending

\* After each of its steps the world is good, and the queue is what it was.
LEMMA ServedGood ==
  ASSUME NEW w, Good(w), NEW f, Serving(f, w, w.queue, Len(w.queue))
  PROVE  \A n \in 0 .. Len(w.queue) : Good(f[n]) /\ f[n].queue = w.queue
<1> DEFINE q == w.queue
           l == Len(q)
           S == {n \in Nat : n <= l => Good(f[n]) /\ f[n].queue = q}
<1>1. q \in Seq(Trans)  BY Members DEF Good
<1>2. l \in Nat /\ DOMAIN q = 1 .. l /\ \A i \in 1 .. l : q[i] \in Trans  BY <1>1, LenProperties, ElementOfSeq
<1>3. \A n \in 0 .. l : f[n] = IF n = 0 THEN w ELSE ServicePending(f[n - 1], q[n])  BY DEF Serving
<1> HIDE DEF q, l
<1>4. 0 \in S
  <2>1. f[0] = w  BY <1>2, <1>3
  <2> QED BY <2>1 DEF q
<1>5. ASSUME NEW n \in Nat, n \in S PROVE n + 1 \in S
  <2> SUFFICES ASSUME n + 1 <= l PROVE Good(f[n + 1]) /\ f[n + 1].queue = q  OBVIOUS
  <2>1. n <= l /\ n + 1 \in 0 .. l /\ n + 1 \in 1 .. l /\ n + 1 # 0 /\ n + 1 - 1 = n  BY <1>2
  <2>2. Good(f[n]) /\ f[n].queue = q  BY <1>5, <2>1
  <2>3. f[n + 1] = ServicePending(f[n], q[n + 1])  BY <1>3, <2>1
  <2>4. q[n + 1] \in Trans /\ q[n + 1] \in ToSet(q)  BY <1>2, <2>1 DEF ToSet
  <2> QED BY <2>2, <2>3, <2>4, PendingGood
<1> HIDE DEF S
<1>6. \A n \in Nat : n \in S  BY <1>4, <1>5, SetInduction
<1>7. \A n \in 0 .. l : n \in Nat /\ n <= l  BY <1>2
<1> QED BY <1>6, <1>7 DEF S, q, l

LEMMA RunErrorGood ==
  ASSUME NEW w, Good(w), NEW t \in Trans
  PROVE  Good(RunError(w, t))
<1> DEFINE u == SendEvent(w, t, "KErrHttpInvalidUri")
<1>1. "KErrHttpInvalidUri" \in Events  BY DEF Events, Errors
<1>2. Same(w, u)  BY <1>1, SendEventSame DEF Good
<1> HIDE DEF u
<1>3. Good(u)  BY <1>2, SameGood
<1>4. RunError(w, t) = HandleCancelTransaction(u, t)  BY DEF RunError, u
<1> QED BY <1>3, <1>4, CancelledGood

LEMMA ScanGood ==
  ASSUME NEW w, Good(w)
  PROVE  Good(Scan(w))
<1> DEFINE q == w.queue
           l == Len(q)
           L == Leaving(w)
           end == IF L = {} THEN l ELSE FirstOf(L) - 1
           served == CHOOSE f : Serving(f, w, q, l)
<1>1. Scan(w) = IF L = {} THEN served[end] ELSE RunError(served[end], q[end + 1])
  BY DEF Scan, Serving
<1>2. q \in Seq(Trans)  BY Members DEF Good
<1>3. l \in Nat /\ \A i \in 1 .. l : q[i] \in Trans  BY <1>2, LenProperties, ElementOfSeq
<1>4. Serving(served, w, q, l)
  <2> HIDE DEF q, l
  <2> QED BY <1>3, ServingExists
<1> HIDE DEF served
<1>5. \A n \in 0 .. l : Good(served[n])  BY <1>4, ServedGood
<1>6. L \subseteq 1 .. l  BY DEF Leaving
<1> HIDE DEF L
<1>7. CASE L = {}
  <2>1. end = l /\ l \in 0 .. l  BY <1>3, <1>7
  <2> HIDE DEF end, l
  <2> QED BY <1>1, <1>5, <1>7, <2>1
<1>8. CASE L # {}
  <2>1. FirstOf(L) \in 1 .. l
    <3> HIDE DEF l
    <3> QED BY <1>3, <1>6, <1>8, FirstAndLast
  <2>2. end \in 0 .. l /\ end + 1 \in 1 .. l  BY <1>3, <1>8, <2>1
  <2> HIDE DEF end, l
  <2>3. Good(served[end]) /\ q[end + 1] \in Trans  BY <1>3, <1>5, <2>2
  <2>4. Good(RunError(served[end], q[end + 1]))  BY <2>3, RunErrorGood
  <2> QED BY <1>1, <1>8, <2>4
<1> QED BY <1>7, <1>8

\* A transaction is submitted, or once more.
LEMMA SubmittedGood ==
  ASSUME NEW w, Good(w), NEW t \in Trans
  PROVE  Good(SubmitTransaction(w, t))
<1>1. w \in World /\ w.queue \in Seq(Trans) /\ IsInjective(w.queue) /\ w.trans[t] \in ProtTransaction
  <2>1. w \in World  BY DEF Good
  <2>2. w.trans \in [Trans -> ProtTransaction] /\ w.queue \in Seq(Trans)  BY <2>1, Members
  <2> QED BY <2>1, <2>2 DEF Good
<1>2. ASSUME NEW u, Good(u) PROVE Good(CompleteSelf(u))
  <2>1. Same(u, CompleteSelf(u))  BY <1>2, ActiveSame DEF Good, CompleteSelf
  <2> QED BY <1>2, <2>1, SameGood
<1>3. CASE t \in ToSet(w.queue)
  <2>1. CASE w.trans[t].state = "ECancelled"
    <3> DEFINE r == [w.trans[t] EXCEPT !.state = "EPending"]
               u == SetQueue(w, t, w.queue, r)
    <3>1. w.trans[t].manager = 0  BY <2>1, Unmanaged
    <3>2. r \in ProtTransaction /\ r.manager = 0  BY <1>1, <3>1 DEF ProtTransaction, ProtStates
    <3>3. [w EXCEPT !.trans[t].state = "EPending"] = u  BY <1>1 DEF SetQueue, Upd, World
    <3> HIDE DEF r
    <3>4. Good(u)  BY <1>1, <3>1, <3>2, QueueGood
    <3>5. SubmitTransaction(w, t) = CompleteSelf(u)  BY <1>3, <2>1, <3>3 DEF SubmitTransaction, Resubmit
    <3> HIDE DEF u
    <3> QED BY <1>2, <3>4, <3>5
  <2>2. CASE w.trans[t].state # "ECancelled"
    <3>1. SubmitTransaction(w, t) = w  BY <1>3, <2>2 DEF SubmitTransaction, Resubmit
    <3> QED BY <3>1
  <2> QED BY <2>1, <2>2
<1>4. CASE t \notin ToSet(w.queue)
  <2> DEFINE q == Append(w.queue, t)
             r == NewTransaction
             u == SetQueue(w, t, q, r)
  <2>1. w.trans[t].manager = 0  BY <1>4, Unmanaged
  <2>2. r \in ProtTransaction /\ r.manager = 0
    BY ConstantsAssumption DEF NewTransaction, ProtTransaction, ProtStates
  <2>3. q \in Seq(Trans) /\ IsInjective(q) /\ ToSet(q) = ToSet(w.queue) \cup {t}
    BY <1>1, <1>4, Appended
  <2>4. [w EXCEPT !.queue = Append(@, t), !.trans[t] = NewTransaction] = u  BY DEF SetQueue, Upd
  <2>5. SubmitTransaction(w, t) = CompleteSelf(u)  BY <1>4, <2>4 DEF SubmitTransaction
  <2> HIDE DEF q, r
  <2>6. Good(u)  BY <2>1, <2>2, <2>3, QueueGood
  <2> HIDE DEF u
  <2> QED BY <1>2, <2>5, <2>6
<1> QED BY <1>3, <1>4
-----------------------------------------------------------------------------
(* What a connection does *)

\* A manager changes and keeps those who wait for it.
LEMMA ReshapedGood ==
  ASSUME NEW w, Good(w), NEW m \in Managers, NEW d \in Manager, d.exists = w.conn[m].exists, Shape(d),
         ToSet(d.responses) = ToSet(w.conn[m].responses)
  PROVE  Good(SetManager(w, m, d))
<1>1. Takes(w, SetManager(w, m, d), m, {}, d)  BY SetTakes DEF Good
<1>2. ToSet(d.responses) = ToSet(w.conn[m].responses) \ {}  OBVIOUS
<1> QED BY <1>1, <1>2, GoodMoves

\* It has connected, to the server or in the secure way: state s.
Reached(c, s) == [c EXCEPT !.state = s]
LEMMA ReachedGood ==
  ASSUME NEW w, Good(w), NEW m \in Managers, w.conn[m].state \in {"EConnecting", "EUpgrading"},
         NEW s \in {"EUpgrading", "EConnected"}
  PROVE  Good(SetManager(w, m, Reached(w.conn[m], s)))
<1> DEFINE c == w.conn[m]
           d == Reached(c, s)
<1>1. c \in Manager /\ Shape(c)  BY ManagerThere DEF Good
<1>2. /\ d \in Manager /\ d.state = s /\ d.exists = c.exists /\ d.cannotPipeline = c.cannotPipeline
      /\ d.first = c.first /\ d.request = c.request /\ d.pending = c.pending /\ d.responses = c.responses
      /\ d.place = c.place /\ d.secure = c.secure
  BY <1>1 DEF Reached, Manager, ConnStates
<1>3. c.responses # <<>> /\ c.exists  BY <1>1 DEF Shape, Idle
<1> HIDE DEF d
<1>4. FirstCurrent(d)
  <2>1. FirstCurrent(c)  BY <1>1, <1>3 DEF Shape
  <2> QED BY <1>2, <2>1 DEF FirstCurrent
<1>5. Placed(d)  BY <1>1, <1>2 DEF Shape, Placed
<1>6. Shape(d)  BY <1>1, <1>2, <1>3, <1>4, <1>5 DEF Shape, Idle
<1> QED BY <1>2, <1>6, ReshapedGood DEF d

\* The current request has been written.
Written(c) ==
  [c EXCEPT !.pendingWrite = FALSE,
            !.request = IF c.first THEN @ ELSE IF c.pending = <<>> THEN None ELSE Head(c.pending),
            !.pending = IF c.first \/ @ = <<>> THEN @ ELSE Tail(@)]
LEMMA WrittenGood ==
  ASSUME NEW w, Good(w), NEW m \in Managers, w.conn[m].state = "EConnected", w.conn[m].request # None
  PROVE  Good(SetManager(w, m, Written(w.conn[m])))
<1> DEFINE c == w.conn[m]
           d == Written(c)
           p == c.pending
           x == IF c.first THEN c.request ELSE IF p = <<>> THEN None ELSE Head(p)
           y == IF c.first \/ p = <<>> THEN p ELSE Tail(p)
<1>1. c \in Manager /\ Shape(c) /\ p \in Seq(Trans) /\ c.request \in Trans \cup {None}
  BY ManagerThere, ManagerMembers DEF Good
<1>2. p # <<>> => /\ Head(p) \in Trans /\ Head(p) \in ToSet(p) /\ Tail(p) \in Seq(Trans)
                  /\ ToSet(Tail(p)) \subseteq ToSet(p) /\ IsInjective(Tail(p))
  <2>1. IsInjective(p)  BY <1>1 DEF Shape
  <2> HIDE DEF p
  <2> QED BY <1>1, <2>1, HeadAndTail
<1>3. /\ x \in Trans \cup {None} /\ y \in Seq(Trans) /\ IsInjective(y) /\ ToSet(y) \subseteq ToSet(p)
      /\ x \in ToSet(c.responses) \cup {None} /\ (c.first => x = c.request /\ y = p)
  BY <1>1, <1>2 DEF Shape
<1>4. d = [c EXCEPT !.pendingWrite = FALSE, !.request = x, !.pending = y]  BY Zenon DEF Written
<1> HIDE DEF d, x, y
<1>5. d \in Manager /\ d.request = x /\ d.pending = y /\ d.responses = c.responses /\ d.exists = c.exists
  BY <1>1, <1>3, <1>4 DEF Manager
<1>6. /\ d.state = c.state /\ d.cannotPipeline = c.cannotPipeline /\ d.first = c.first
      /\ d.place = c.place /\ d.secure = c.secure
  BY <1>1, <1>4 DEF Manager
<1>7. c.responses # <<>> /\ c.exists  BY <1>1 DEF Shape, Idle
<1>8. FirstCurrent(d)
  <2>1. FirstCurrent(c)  BY <1>1, <1>7 DEF Shape
  <2> QED BY <1>3, <1>5, <1>6, <2>1 DEF FirstCurrent
<1>9. Placed(d)  BY <1>1, <1>5, <1>6 DEF Shape, Placed
<1>10. Shape(d)  BY <1>1, <1>3, <1>5, <1>6, <1>7, <1>8, <1>9 DEF Shape, Idle
<1> QED BY <1>5, <1>10, ReshapedGood DEF d

\* The server closes after its answer: only the current response is left.
Lasting(c) == [c EXCEPT !.persistent = FALSE, !.cannotPipeline = TRUE]
Requested(c) == [c EXCEPT !.request = None]
LEMMA NonPersistentGood ==
  ASSUME NEW w, Good(w), NEW m \in Managers, w.conn[m].state = "EConnected", w.conn[m].responses # <<>>
  PROVE  LET u == SetManager(w, m, Lasting(w.conn[m]))
             told == NotifyPendingTransactions(u, m, "KErrHttpPipeliningError")
         IN  Good([told EXCEPT !.conn[m].request = None])
<1> DEFINE c == w.conn[m]
           a == Lasting(c)
           u == SetManager(w, m, a)
           told == NotifyPendingTransactions(u, m, "KErrHttpPipeliningError")
           b == Warned(a)
           d == Requested(b)
           v == SetManager(told, m, d)
<1>1. w \in World /\ c \in Manager /\ Shape(c) /\ c.responses \in Seq(Trans)
  BY ManagerThere, ManagerMembers DEF Good
<1>2. /\ a \in Manager /\ a.exists = c.exists /\ a.responses = c.responses /\ a.state = c.state
      /\ a.cannotPipeline = TRUE /\ a.place = c.place /\ a.secure = c.secure
  BY <1>1 DEF Lasting, Manager
<1> HIDE DEF a
<1>3. Takes(w, u, m, {}, a)  BY <1>1, <1>2, SetTakes
<1> HIDE DEF u
<1>4. u \in World /\ u.conn[m] = a  BY <1>3 DEF Takes, Moves
<1>5. "KErrHttpPipeliningError" \in Reported  BY DEF Reported, Errors
<1>6. Takes(u, told, m, ToSet(Tail(a.responses)), b)
  <2>1. u.conn[m].responses # <<>>  BY <1>2, <1>4
  <2>2. Takes(u, told, m, ToSet(Tail(u.conn[m].responses)), Warned(u.conn[m]))
    BY <1>4, <1>5, <2>1, NotifyTakes
  <2> HIDE DEF told
  <2> QED BY <1>4, <2>2
<1> HIDE DEF told
<1>7. /\ b \in Manager /\ b.responses = <<Head(c.responses)>> /\ b.pending = <<>> /\ b.exists = c.exists
      /\ b.state = c.state /\ b.cannotPipeline = TRUE /\ b.place = c.place /\ b.secure = c.secure
  BY <1>2, WarnedIs
<1> HIDE DEF b
<1>8. told \in World /\ told.conn[m] = b  BY <1>6 DEF Takes, Moves
<1>9. /\ d \in Manager /\ d.responses = b.responses /\ d.pending = b.pending /\ d.request = None
      /\ d.exists = b.exists /\ d.state = b.state /\ d.cannotPipeline = b.cannotPipeline
      /\ d.place = b.place /\ d.secure = b.secure
  BY <1>7 DEF Requested, Manager
<1>10. [told EXCEPT !.conn[m].request = None] = v  BY <1>8 DEF SetManager, Upd, Requested
<1> HIDE DEF d
<1>11. Takes(told, v, m, {}, d)  BY <1>7, <1>8, <1>9, SetTakes
<1> HIDE DEF v
<1>12. Takes(w, v, m, {} \cup ToSet(Tail(a.responses)) \cup {}, d)
  <2> DEFINE R == ToSet(Tail(a.responses))
  <2> HIDE DEF R
  <2>1. Takes(u, told, m, R, b)  BY <1>6 DEF R
  <2>2. Takes(w, told, m, {} \cup R, b)  BY <1>1, <1>3, <1>4, <2>1, TakesTwice
  <2>3. Takes(w, v, m, {} \cup R \cup {}, d)  BY <1>1, <1>8, <1>11, <2>2, TakesTwice
  <2> QED BY <2>3 DEF R
<1> DEFINE S == ToSet(Tail(c.responses))
<1>13. Takes(w, v, m, S, d)
  <2>1. {} \cup S \cup {} = S  OBVIOUS
  <2> QED BY <1>2, <1>12, <2>1
<1>14. ToSet(c.responses) = {Head(c.responses)} \cup S /\ Head(c.responses) \notin S
       /\ Head(c.responses) \in ToSet(c.responses)
  <2>1. IsInjective(c.responses)  BY <1>1 DEF Shape
  <2> DEFINE r == c.responses
  <2>2. r \in Seq(Trans) /\ r # <<>> /\ IsInjective(r)  BY <1>1, <2>1
  <2> HIDE DEF r
  <2>3. ToSet(r) = {Head(r)} \cup ToSet(Tail(r)) /\ Head(r) \notin ToSet(Tail(r)) /\ Head(r) \in ToSet(r)
    BY <2>2, HeadAndTail
  <2> QED BY <2>3 DEF r
<1>15. /\ ToSet(d.responses) = {Head(c.responses)} /\ IsInjective(d.responses) /\ d.responses # <<>>
       /\ Tail(d.responses) = <<>>
  BY <1>7, <1>9, OneInQueue
<1>16. ToSet(d.pending) = {} /\ IsInjective(d.pending) /\ ToSet(Tail(d.responses)) = {}
  BY <1>7, <1>9, <1>15, EmptyQueue
<1>17. FirstCurrent(d)  BY <1>7, <1>9, <1>16 DEF FirstCurrent
<1>18. Placed(d)  BY <1>1, <1>7, <1>9, <1>14, <1>15 DEF Shape, Placed
<1>19. c.exists  BY <1>1 DEF Shape
<1>20. Shape(d)  BY <1>7, <1>9, <1>15, <1>16, <1>17, <1>18, <1>19 DEF Shape, Idle
<1>21. ToSet(d.responses) = ToSet(c.responses) \ S /\ S \subseteq ToSet(c.responses)  BY <1>14, <1>15
<1>22. Good(v)
  <2> HIDE DEF S, c
  <2> QED BY <1>13, <1>20, <1>21, GoodMoves DEF c
<1> QED BY <1>10, <1>22 DEF v, told, u, a, c

\* An answer is complete: on to the next request, or nobody waits any more.
Answered(c) == [c EXCEPT !.responses = Tail(@)]
Following(c) ==
  [c EXCEPT !.first = FALSE, !.pendingWrite = TRUE, !.request = Head(c.pending), !.pending = Tail(@)]
Finished(c) ==
  [c EXCEPT !.first = FALSE, !.cannotPipeline = FALSE, !.request = IF c.first THEN None ELSE @,
            !.state = IF c.persistent THEN "EIdleConnected" ELSE "EClosing"]
Parsed(c) ==
  IF c.responses # <<>> /\ ~c.first THEN c ELSE IF c.pending # <<>> THEN Following(c) ELSE Finished(c)

\* The current response of c can be complete.
Answerable(c) ==
  /\ c.state = "EConnected" /\ c.responses # <<>>
  /\ Head(c.responses) \notin ToSet(c.pending)
  /\ Head(c.responses) = c.request => c.first

LEMMA ParsedIs ==
  ASSUME NEW c \in Manager, Shape(c), Answerable(c)
  PROVE  /\ Answered(c) \in Manager /\ Answered(c).exists = c.exists
         /\ Parsed(Answered(c)) \in Manager /\ Parsed(Answered(c)).exists = c.exists /\ Shape(Parsed(Answered(c)))
         /\ ToSet(Parsed(Answered(c)).responses) = ToSet(c.responses) \ {Head(c.responses)}
<1> DEFINE r == c.responses
           p == c.pending
           z == Tail(r)
           a == Answered(c)
           d == Parsed(a)
<1>1. r \in Seq(Trans) /\ p \in Seq(Trans) /\ c.request \in Trans \cup {None} /\ r # <<>>
      /\ IsInjective(r) /\ IsInjective(p) /\ ToSet(p) \subseteq ToSet(r)
      /\ c.request \in ToSet(r) \cup {None}
  BY ManagerMembers DEF Shape, Answerable
<1>2. /\ z \in Seq(Trans) /\ ToSet(r) = {Head(r)} \cup ToSet(z)
      /\ IsInjective(z) /\ Head(r) \notin ToSet(z) /\ Head(r) \in Trans
  <2> HIDE DEF r
  <2> QED BY <1>1, HeadAndTail
<1>3. ToSet(p) \subseteq ToSet(z)  BY <1>1, <1>2 DEF Answerable
<1>4. ToSet(z) = ToSet(r) \ {Head(r)}  BY <1>2
<1>5. p # <<>> => /\ Head(p) \in Trans /\ Head(p) \in ToSet(p) /\ Tail(p) \in Seq(Trans)
                  /\ ToSet(Tail(p)) \subseteq ToSet(p) /\ IsInjective(Tail(p))
  <2> HIDE DEF p
  <2> QED BY <1>1, HeadAndTail
<1>6. c.first => /\ c.request \in {Head(r), None} /\ ToSet(z) \subseteq ToSet(p)
                 /\ c.request = None => c.cannotPipeline
  BY <1>1 DEF Shape, FirstCurrent
<1>7. a = [c EXCEPT !.responses = z]  BY DEF Answered
<1> HIDE DEF z, a
<1>8. /\ a \in Manager /\ a.responses = z /\ a.exists = c.exists /\ a.state = c.state
      /\ a.cannotPipeline = c.cannotPipeline /\ a.first = c.first /\ a.request = c.request
      /\ a.pending = p /\ a.place = c.place /\ a.secure = c.secure
  BY <1>2, <1>7 DEF Manager
<1>9. c.exists  BY DEF Shape, Answerable
<1>10. \A s \in ToSet(z) : c.place = Place[s] /\ c.secure = (s \in Secure)
  BY <1>2 DEF Shape, Placed
<1>11. CASE z # <<>> /\ ~c.first
  <2>1. d = a  BY <1>8, <1>11 DEF Parsed
  <2>2. c.request \in ToSet(z) \cup {None}  BY <1>1, <1>2, <1>11 DEF Answerable
  <2>3. FirstCurrent(a)  BY <1>8, <1>11 DEF FirstCurrent
  <2>4. Placed(a)  BY <1>8, <1>10 DEF Placed
  <2>5. Shape(a)  BY <1>1, <1>2, <1>3, <1>8, <1>9, <1>11, <2>2, <2>3, <2>4 DEF Shape, Answerable, Idle
  <2> QED BY <1>4, <1>8, <2>1, <2>5 DEF a
<1>12. CASE ~(z # <<>> /\ ~c.first) /\ p # <<>>
  <2> DEFINE x == Head(p)
             y == Tail(p)
             f == [a EXCEPT !.first = FALSE, !.pendingWrite = TRUE, !.request = x, !.pending = y]
  <2>1. d = f  BY <1>8, <1>12 DEF Parsed, Following
  <2> HIDE DEF x, y
  <2>2. x \in Trans /\ y \in Seq(Trans) /\ x \in ToSet(z) /\ ToSet(y) \subseteq ToSet(z) /\ IsInjective(y)
    BY <1>3, <1>5, <1>12 DEF x, y
  <2>3. /\ f \in Manager /\ f.first = FALSE /\ f.request = x /\ f.pending = y /\ f.responses = z
        /\ f.exists = c.exists
    BY <1>8, <2>2 DEF Manager
  <2>4. f.state = c.state /\ f.place = c.place /\ f.secure = c.secure  BY <1>8 DEF Manager
  <2> HIDE DEF f
  <2>5. z # <<>>  BY <2>2, EmptyQueue
  <2>6. FirstCurrent(f)  BY <2>3 DEF FirstCurrent
  <2>7. Placed(f)  BY <1>10, <2>3, <2>4 DEF Placed
  <2>8. Shape(f)  BY <1>2, <1>9, <2>2, <2>3, <2>4, <2>5, <2>6, <2>7 DEF Shape, Answerable, Idle
  <2> QED BY <1>4, <1>8, <2>1, <2>3, <2>8 DEF a
<1>13. CASE ~(z # <<>> /\ ~c.first) /\ p = <<>>
  <2> DEFINE x == IF a.first THEN None ELSE a.request
             y == IF a.persistent THEN "EIdleConnected" ELSE "EClosing"
             f == [a EXCEPT !.first = FALSE, !.cannotPipeline = FALSE, !.request = x, !.state = y]
  <2>1. d = f  BY <1>8, <1>13 DEF Parsed, Finished
  <2>2. z = <<>>
    <3>1. c.first => ToSet(z) = {}  BY <1>6, <1>13, EmptyQueue
    <3> QED BY <1>2, <1>13, <3>1, SomeInQueue
  <2>3. x = None
    <3>1. ToSet(r) = {Head(r)}  BY <1>2, <2>2, EmptyQueue
    <3> QED BY <1>1, <1>8, <3>1 DEF Answerable
  <2>4. y \in Idle /\ y \in ConnStates  BY DEF Idle, ConnStates
  <2> HIDE DEF x, y
  <2>5. /\ f \in Manager /\ f.cannotPipeline = FALSE /\ f.request = None /\ f.pending = <<>>
        /\ f.responses = <<>> /\ f.exists = c.exists /\ f.state = y
    BY <1>8, <1>13, <2>2, <2>3, <2>4 DEF Manager
  <2> HIDE DEF f
  <2>6. Shape(f)  BY <1>9, <2>4, <2>5, EmptyShape
  <2> QED BY <1>4, <1>8, <2>1, <2>2, <2>5, <2>6 DEF a
<1> QED BY <1>11, <1>12, <1>13

LEMMA CompletedTells ==
  ASSUME NEW w \in World, NEW t \in Trans, w.trans[t].manager = 0, NEW e \in Events
  PROVE  Tells(w, TransactionCompleted(w, t, e), {t})
<1> DEFINE u == SendEvent(w, t, e)
           v == CompleteIfActive(u, t)
           r == [v.trans[t] EXCEPT !.state = "ECompleted"]
           x == SetTransaction(v, t, r)
<1>1. TransactionCompleted(w, t, e) = x  BY DEF TransactionCompleted, SetTransaction, Upd
<1>2. Same(w, u)  BY SendEventSame
<1> HIDE DEF u
<1>3. u \in World  BY <1>2 DEF Same
<1>4. Same(u, v)  BY <1>3, CompleteIfActiveSame
<1> HIDE DEF v
<1>5. Same(w, v)  BY <1>2, <1>4, SameTwice
<1>6. v \in World /\ v.trans[t].manager = 0  BY <1>5 DEF Same
<1>7. r \in ProtTransaction /\ r.manager = 0
  <2>1. v.trans[t] \in ProtTransaction  BY <1>6, Members
  <2> QED BY <1>6, <2>1 DEF ProtTransaction, ProtStates
<1> HIDE DEF r
<1>8. Tells(v, x, {t})  BY <1>6, <1>7, TransactionTells
<1>9. Tells(w, v, {})  BY <1>5, SameTells
<1> HIDE DEF x
<1>10. Tells(w, x, {} \cup {t})  BY <1>8, <1>9, TellsTwice
<1>11. {} \cup {t} = {t}  OBVIOUS
<1> QED BY <1>1, <1>10, <1>11

LEMMA AnsweredGood ==
  ASSUME NEW w, Good(w), NEW m \in Managers, Answerable(w.conn[m]), NEW t, t = Head(w.conn[m].responses)
  PROVE  LET taken == [w EXCEPT !.conn[m].responses = Tail(@), !.trans[t].manager = 0]
         IN  Good(ResponseDataParsed(TransactionCompleted(taken, t, "EResponseComplete"), m))
<1> DEFINE c == w.conn[m]
           a == Answered(c)
           u == SetManager(w, m, a)
           s == [u.trans[t] EXCEPT !.manager = 0]
           x == SetTransaction(u, t, s)
           y == TransactionCompleted(x, t, "EResponseComplete")
           d == Parsed(a)
           v == ResponseDataParsed(y, m)
<1>1. w \in World /\ c \in Manager /\ Shape(c) /\ c.responses \in Seq(Trans) /\ c.responses # <<>>
  BY ManagerThere, ManagerMembers DEF Good, Answerable
<1>2. /\ a \in Manager /\ a.exists = c.exists /\ d \in Manager /\ d.exists = c.exists /\ Shape(d)
      /\ ToSet(d.responses) = ToSet(c.responses) \ {t}
  BY <1>1, ParsedIs
<1>3. t \in Trans /\ t \in ToSet(c.responses)
  <2> DEFINE r == c.responses
  <2>1. r \in Seq(Trans) /\ r # <<>> /\ t = Head(r)  BY <1>1
  <2> HIDE DEF r
  <2>2. Head(r) \in Trans /\ Head(r) \in ToSet(r)  BY <2>1, HeadAndTail
  <2> QED BY <2>1, <2>2 DEF r
<1>4. [w EXCEPT !.conn[m].responses = Tail(@), !.trans[t].manager = 0] = x
  BY DEF SetTransaction, SetManager, Upd, Answered
<1> HIDE DEF a, d
<1>5. Takes(w, u, m, {}, a)  BY <1>1, <1>2, SetTakes
<1> HIDE DEF u
<1>6. u \in World /\ u.conn[m] = a  BY <1>5 DEF Takes, Moves
<1>7. s \in ProtTransaction /\ s.manager = 0
  <2>1. u.trans[t] \in ProtTransaction  BY <1>3, <1>6, Members
  <2> QED BY <2>1, ConstantsAssumption DEF ProtTransaction
<1> HIDE DEF s
<1>8. Tells(u, x, {t})  BY <1>3, <1>6, <1>7, TransactionTells
<1>9. x.trans[t].manager = 0 /\ x \in World  BY <1>3, <1>8 DEF Tells
<1> HIDE DEF x
<1>10. "EResponseComplete" \in Events  BY DEF Events
<1>11. Tells(x, y, {t})  BY <1>3, <1>9, <1>10, CompletedTells
<1> HIDE DEF y
<1>12. Tells(u, y, {t} \cup {t})  BY <1>8, <1>11, TellsTwice
<1>13. Takes(u, y, m, {t} \cup {t}, a)  BY <1>6, <1>12, TellsTakes
<1>14. y \in World /\ y.conn[m] = a  BY <1>13 DEF Takes, Moves
<1>15. Takes(w, y, m, {} \cup ({t} \cup {t}), a)  BY <1>1, <1>5, <1>6, <1>13, TakesTwice
<1>16. Takes(y, v, m, {}, d)
  <2>1. CASE a.responses # <<>> /\ ~a.first
    <3>1. v = y /\ d = a  BY <1>14, <2>1 DEF ResponseDataParsed, Parsed, d
    <3> HIDE DEF v
    <3> QED BY <1>14, <3>1 DEF Takes, Moves
  <2>2. CASE ~(a.responses # <<>> /\ ~a.first)
    <3> DEFINE parsed == IF a.pending # <<>> THEN Following(a) ELSE Finished(a)
    <3>1. v = SetManager(y, m, d)
      <4>1. d = parsed  BY <2>2 DEF Parsed, d
      <4>2. v = [y EXCEPT !.conn[m] = parsed]
        BY <1>14, <2>2, Zenon DEF ResponseDataParsed, Following, Finished
      <4> HIDE DEF parsed, v
      <4> QED BY <4>1, <4>2, Zenon DEF SetManager, Upd
    <3> HIDE DEF v
    <3> QED BY <1>2, <1>14, <3>1, SetTakes
  <2> QED BY <2>1, <2>2
<1> HIDE DEF v
<1>17. Takes(w, v, m, {} \cup ({t} \cup {t}) \cup {}, d)  BY <1>1, <1>14, <1>15, <1>16, TakesTwice
<1>18. {} \cup ({t} \cup {t}) \cup {} = {t}  OBVIOUS
<1>19. Takes(w, v, m, {t}, d) /\ {t} \subseteq ToSet(c.responses)  BY <1>3, <1>17, <1>18
<1>20. Good(v)
  <2> HIDE DEF c
  <2> QED BY <1>2, <1>19, GoodMoves DEF c
<1> QED BY <1>4, <1>20 DEF v, y
-----------------------------------------------------------------------------
(* The invariant holds *)

LEMMA BecomesWorld ==
  ASSUME NEW w \in World, Becomes(w)
  PROVE  world' = w
  BY DEF Becomes, world, World

LEMMA BecomesGood ==
  ASSUME NEW w, Good(w), Becomes(w)
  PROVE  Good(world)'
<1>1. world' = w  BY BecomesWorld DEF Good
<1> QED BY <1>1

\* A step of the connections alone.
LEMMA ConnBecomes ==
  ASSUME NEW w, w = world, NEW m, NEW d, conn' = Upd(conn, m, d),
         UNCHANGED <<trans, queue, active, fallback, events, client, submits, panic>>
  PROVE  Becomes(SetManager(w, m, d))
  BY DEF Becomes, SetManager, world

\* The client hears of something.
LEMMA ClientSame ==
  ASSUME NEW w \in World, NEW t \in Trans, NEW x \in Clients
  PROVE  Same(w, [w EXCEPT !.client[t] = x])
<1> DEFINE f == Upd(w.client, t, x)
<1>1. f \in [Trans -> Clients]
  <2>1. w.client \in [Trans -> Clients]  BY Members
  <2> QED BY <2>1, UpdIs
<1>2. [w EXCEPT !.client[t] = x] = [w EXCEPT !.client = f]  BY DEF Upd
<1> HIDE DEF f
<1>3. Same(w, [w EXCEPT !.client = f])  BY <1>1 DEF World, Same
<1> QED BY <1>2, <1>3

LEMMA DeliveredGood ==
  ASSUME NEW t \in Trans, Good(world), events[t] # <<>>
  PROVE  Good(Delivered(t))
<1> DEFINE q == Tail(events[t])
<1>1. events[t] \in Seq(Events)  BY DEF Good, World, world
<1>2. q \in Seq(Events)  BY <1>1, HeadTailProperties
<1>3. Delivered(t) = SetEvents(world, t, q)  BY DEF Delivered, SetEvents, Upd, world
<1> HIDE DEF q
<1>4. Same(world, SetEvents(world, t, q))  BY <1>2, EventsSame DEF Good
<1> QED BY <1>3, <1>4, SameGood

LEMMA SendGood ==
  ASSUME NEW w, Good(w), NEW t \in Trans, NEW e \in Events
  PROVE  Good(SendEvent(w, t, e))
<1>1. Same(w, SendEvent(w, t, e))  BY SendEventSame DEF Good
<1> QED BY <1>1, SameGood

LEMMA ClientGood ==
  ASSUME NEW w, Good(w), NEW t \in Trans, NEW x \in Clients
  PROVE  Good([w EXCEPT !.client[t] = x])
<1>1. Same(w, [w EXCEPT !.client[t] = x])  BY ClientSame DEF Good
<1> QED BY <1>1, SameGood

\* What a transaction runs, and what its client does.
LEMMA TransactionGood ==
  ASSUME NEW t \in Trans, Good(world),
         TransactionRuns(t) \/ ClientSubmits(t) \/ ClientCancels(t) \/ ClientCloses(t)
  PROVE  Good(world)'
<1>1. CASE HandlerSubmits(t)
  <2>1. Good(SubmitTransaction(Delivered(t), t))  BY <1>1, DeliveredGood, SubmittedGood DEF HandlerSubmits
  <2> QED BY <1>1, <2>1, BecomesGood DEF HandlerSubmits
<1>2. CASE ResetFails(t)
  <2>1. Good(Cancel(Delivered(t), t))  BY <1>2, DeliveredGood, CancelGood DEF ResetFails
  <2>2. "KErrHttpCantResetRequestBody" \in Events  BY DEF Events, Errors
  <2>3. Good(SendEvent(Cancel(Delivered(t), t), t, "KErrHttpCantResetRequestBody"))  BY <2>1, <2>2, SendGood
  <2> QED BY <1>2, <2>3, BecomesGood DEF ResetFails
<1>3. CASE FilterRetries(t)
  <2>1. Good(Cancel(Delivered(t), t))  BY <1>3, DeliveredGood, CancelGood DEF FilterRetries
  <2>2. "ESubmit" \in Events  BY DEF Events
  <2>3. Good(SendEvent(Cancel(Delivered(t), t), t, "ESubmit"))  BY <2>1, <2>2, SendGood
  <2> QED BY <1>3, <2>3, BecomesGood DEF FilterRetries
<1>4. CASE ClientHears(t)
  <2> DEFINE x == IF Head(events[t]) = "EResponseComplete" THEN "answered" ELSE "failed"
  <2>1. x \in Clients  BY DEF Clients
  <2>2. Becomes([Delivered(t) EXCEPT !.client[t] = x]) /\ events[t] # <<>>  BY <1>4 DEF ClientHears
  <2> HIDE DEF x
  <2>3. Good([Delivered(t) EXCEPT !.client[t] = x])  BY <2>1, <2>2, DeliveredGood, ClientGood
  <2> QED BY <2>2, <2>3, BecomesGood
<1>5. CASE ClientSubmits(t)
  <2>1. "waiting" \in Clients /\ "ESubmit" \in Events  BY DEF Clients, Events
  <2>2. Good([world EXCEPT !.client[t] = "waiting"])  BY <2>1, ClientGood
  <2>3. Good(SendEvent([world EXCEPT !.client[t] = "waiting"], t, "ESubmit"))  BY <2>1, <2>2, SendGood
  <2> QED BY <1>5, <2>3, BecomesGood DEF ClientSubmits
<1>6. CASE ClientCancels(t)
  <2>1. "open" \in Clients  BY DEF Clients
  <2>2. Good([Cancel(world, t) EXCEPT !.client[t] = "open"])  BY <2>1, CancelGood, ClientGood
  <2> QED BY <1>6, <2>2, BecomesGood DEF ClientCancels
<1>7. CASE ClientCloses(t)
  <2>1. "closed" \in Clients  BY DEF Clients
  <2>2. Good(HandleClosedTransaction(Cancel(world, t), t))  BY CancelGood, ClosedGood
  <2>3. Good([HandleClosedTransaction(Cancel(world, t), t) EXCEPT !.client[t] = "closed"])
    BY <2>1, <2>2, ClientGood
  <2> QED BY <1>7, <2>3, BecomesGood DEF ClientCloses
<1> QED BY <1>1, <1>2, <1>3, <1>4, <1>5, <1>6, <1>7 DEF TransactionRuns

\* What a connection does.
LEMMA ConnectionGood ==
  ASSUME NEW m \in Managers, Good(world), ConnectionRuns(m)
  PROVE  Good(world)'
<1> DEFINE c == conn[m]
<1>0. world.conn[m] = c  BY DEF world
<1>1. CASE Connected(m)
  <2> DEFINE s == IF c.secure THEN "EUpgrading" ELSE "EConnected"
             d == Reached(c, s)
  <2>1. c.state = "EConnecting" /\ conn' = Upd(conn, m, d)
        /\ UNCHANGED <<trans, queue, active, fallback, events, client, submits, panic>>
    BY <1>1, Zenon DEF Connected, Upd, Reached
  <2>2. s \in {"EUpgrading", "EConnected"}  OBVIOUS
  <2> HIDE DEF s
  <2>3. Good(SetManager(world, m, d))
    <3>1. world.conn[m].state \in {"EConnecting", "EUpgrading"}  BY <1>0, <2>1
    <3>2. Good(SetManager(world, m, Reached(world.conn[m], s)))  BY <2>2, <3>1, ReachedGood
    <3> QED BY <1>0, <3>2
  <2> HIDE DEF d
  <2>4. Becomes(SetManager(world, m, d))  BY <2>1, ConnBecomes
  <2> QED BY <2>3, <2>4, BecomesGood
<1>2. CASE SecureClientCnf(m)
  <2> DEFINE s == "EConnected"
             d == Reached(c, s)
  <2>1. c.state = "EUpgrading" /\ conn' = Upd(conn, m, d)
        /\ UNCHANGED <<trans, queue, active, fallback, events, client, submits, panic>>
    BY <1>2, Zenon DEF SecureClientCnf, Upd, Reached
  <2>2. s \in {"EUpgrading", "EConnected"}  OBVIOUS
  <2> HIDE DEF s
  <2>3. Good(SetManager(world, m, d))
    <3>1. world.conn[m].state \in {"EConnecting", "EUpgrading"}  BY <1>0, <2>1
    <3>2. Good(SetManager(world, m, Reached(world.conn[m], s)))  BY <2>2, <3>1, ReachedGood
    <3> QED BY <1>0, <3>2
  <2> HIDE DEF d
  <2>4. Becomes(SetManager(world, m, d))  BY <2>1, ConnBecomes
  <2> QED BY <2>3, <2>4, BecomesGood
<1>3. CASE RequestComplete(m)
  <2> DEFINE d == Written(c)
  <2>1. c.state = "EConnected" /\ c.request # None
        /\ UNCHANGED <<trans, queue, active, fallback, events, client, submits, panic>>
    BY <1>3 DEF RequestComplete
  <2>2. conn' = Upd(conn, m, d)
    <3>1. conn \in [Managers -> Manager]  BY DEF Good, World, world
    <3> QED BY <1>3, <3>1 DEF RequestComplete, Upd, Written, Manager
  <2>3. Good(SetManager(world, m, d))
    <3>1. world.conn[m].state = "EConnected" /\ world.conn[m].request # None  BY <1>0, <2>1
    <3>2. Good(SetManager(world, m, Written(world.conn[m])))  BY <3>1, WrittenGood
    <3> QED BY <1>0, <3>2
  <2> HIDE DEF d
  <2>4. Becomes(SetManager(world, m, d))  BY <2>1, <2>2, ConnBecomes
  <2> QED BY <2>3, <2>4, BecomesGood
<1>4. CASE MakeConnectionNonPersistent(m)
  <2> DEFINE u == SetManager(world, m, Lasting(c))
             told == NotifyPendingTransactions(u, m, "KErrHttpPipeliningError")
             v == [told EXCEPT !.conn[m].request = None]
  <2>1. c.state = "EConnected" /\ c.responses # <<>>  BY <1>4 DEF MakeConnectionNonPersistent, Answering
  <2>2. [world EXCEPT !.conn[m].persistent = FALSE, !.conn[m].cannotPipeline = TRUE] = u
    <3>1. world \in World  BY DEF Good
    <3>2. [world EXCEPT !.conn[m].persistent = FALSE, !.conn[m].cannotPipeline = TRUE]
            = SetManager(world, m, Lasting(world.conn[m]))
      BY <3>1 DEF SetManager, Upd, Lasting, World, Manager
    <3> QED BY <1>0, <3>2
  <2>3. Becomes(v)
    <3> HIDE DEF u
    <3> QED BY <1>4, <2>2 DEF MakeConnectionNonPersistent
  <2>4. Good(v)
    <3>1. world.conn[m].state = "EConnected" /\ world.conn[m].responses # <<>>  BY <1>0, <2>1
    <3> QED BY <1>0, <3>1, NonPersistentGood
  <2> HIDE DEF v
  <2> QED BY <2>3, <2>4, BecomesGood
<1>5. CASE ResponseComplete(m)
  <2> DEFINE t == Head(c.responses)
             taken == [world EXCEPT !.conn[m].responses = Tail(@), !.trans[t].manager = 0]
             v == ResponseDataParsed(TransactionCompleted(taken, t, "EResponseComplete"), m)
  <2>1. Answerable(world.conn[m])  BY <1>0, <1>5 DEF ResponseComplete, Answering, Answerable
  <2>2. Becomes(v)  BY <1>5 DEF ResponseComplete
  <2>3. Good(v)  BY <1>0, <2>1, AnsweredGood
  <2> HIDE DEF v
  <2> QED BY <2>2, <2>3, BecomesGood
<1>6. CASE ConnectionLost(m)
  <2>1. Becomes(HandleSocketError(world, m, "KErrEof")) /\ ~(world.conn[m].state = "EIdle")
    BY <1>0, <1>6 DEF ConnectionLost
  <2>2. "KErrEof" \in Reported  BY DEF Reported
  <2>3. Good(HandleSocketError(world, m, "KErrEof"))  BY <2>1, <2>2, HandleGood
  <2> QED BY <2>1, <2>3, BecomesGood
<1>7. CASE HandleConnectError(m)
  <2>1. Becomes(HandleSocketError(world, m, "KErrCouldNotConnect")) /\ ~(world.conn[m].state = "EIdle")
    BY <1>0, <1>7 DEF HandleConnectError
  <2>2. "KErrCouldNotConnect" \in Reported  BY DEF Reported, Errors
  <2>3. Good(HandleSocketError(world, m, "KErrCouldNotConnect"))  BY <2>1, <2>2, HandleGood
  <2> QED BY <2>1, <2>3, BecomesGood
<1> QED BY <1>1, <1>2, <1>3, <1>4, <1>5, <1>6, <1>7 DEF ConnectionRuns

LEMMA NextGood == IInv /\ [Next]_vars => IInv'
<1> SUFFICES ASSUME IInv, [Next]_vars PROVE IInv'  OBVIOUS
<1>1. Good(world) /\ submits \in 0 .. MaxSubmits /\ MaxSubmits \in Nat  BY ConstantsAssumption DEF IInv
<1>2. (submits \in 0 .. MaxSubmits)'
  <2>1. CASE UNCHANGED vars  BY <1>1, <2>1 DEF vars
  <2>2. CASE Next
    <3>1. UNCHANGED submits \/ (submits < MaxSubmits /\ submits' = submits + 1)
      BY <2>2 DEF Next, RunL, TransactionRuns, HandlerSubmits, ResetFails, FilterRetries, ClientHears,
                  ClientSubmits, ClientCancels, ClientCloses, ConnectionRuns, Connected, SecureClientCnf,
                  RequestComplete, MakeConnectionNonPersistent, ResponseComplete, ConnectionLost,
                  HandleConnectError
    <3> QED BY <1>1, <3>1
  <2> QED BY <2>1, <2>2
<1>3. Good(world)'
  <2>1. CASE RunL
    <3> DEFINE u == [world EXCEPT !.active = FALSE]
    <3>1. Same(world, u)  BY <1>1, ActiveSame DEF Good
    <3>2. Becomes(Scan(u))  BY <2>1 DEF RunL
    <3> HIDE DEF u
    <3>3. Good(Scan(u))  BY <1>1, <3>1, SameGood, ScanGood
    <3> QED BY <3>2, <3>3, BecomesGood
  <2>2. ASSUME NEW t \in Trans, TransactionRuns(t) \/ ClientSubmits(t) \/ ClientCancels(t) \/ ClientCloses(t)
        PROVE  Good(world)'
    BY <1>1, <2>2, TransactionGood
  <2>3. ASSUME NEW m \in Managers, ConnectionRuns(m) PROVE Good(world)'
    BY <1>1, <2>3, ConnectionGood
  <2>4. CASE UNCHANGED vars
    <3>1. world' = world  BY <2>4 DEF vars, world
    <3> QED BY <1>1, <3>1
  <2> QED BY <2>1, <2>2, <2>3, <2>4 DEF Next
<1> QED BY <1>2, <1>3 DEF IInv

LEMMA InitGood == Init => IInv
<1> SUFFICES ASSUME Init PROVE IInv  OBVIOUS
<1> DEFINE e == <<>>
<1>1. e \in Seq(Trans) /\ e \in Seq(Events) /\ ToSet(e) = {} /\ IsInjective(e)  BY EmptyQueue
<1>2. NewManager \in Manager /\ NewManager.responses = e /\ NewManager.pending = e
      /\ NewManager.request = None /\ NewManager.state = "EIdle" /\ NewManager.cannotPipeline = FALSE
      /\ NewManager.exists = FALSE
  <2> DEFINE p == CHOOSE q \in Places : TRUE
  <2>1. p \in Places
    <3>1. Places # {}  BY ConstantsAssumption DEF Places
    <3> QED BY <3>1
  <2>2. NewManager =
          [exists |-> FALSE, state |-> "EIdle", place |-> p, secure |-> FALSE,
           persistent |-> TRUE, cannotPipeline |-> FALSE, first |-> FALSE, pendingWrite |-> FALSE,
           request |-> None, pending |-> e, responses |-> e]
    BY DEF NewManager
  <2> HIDE DEF p, e
  <2> QED BY <1>1, <2>1, <2>2 DEF Manager, ConnStates
<1> HIDE DEF e
<1>3. NewTransaction \in ProtTransaction /\ NewTransaction.manager = 0
  BY ConstantsAssumption DEF NewTransaction, ProtTransaction, ProtStates
<1>4. /\ trans = [t \in Trans |-> NewTransaction] /\ queue = e /\ active = FALSE
      /\ conn = [m \in Managers |-> NewManager] /\ fallback = [p \in Places |-> 0]
      /\ events = [t \in Trans |-> e] /\ client = [t \in Trans |-> "open"]
      /\ submits = 0 /\ panic = {}
  BY DEF Init, e
<1>5. world \in World
  <2>1. trans \in [Trans -> ProtTransaction] /\ conn \in [Managers -> Manager]
    <3> HIDE DEF NewTransaction, NewManager
    <3> QED BY <1>2, <1>3, <1>4
  <2>2. client \in [Trans -> Clients] /\ fallback \in [Places -> 0 .. 2] /\ events \in [Trans -> Seq(Events)]
    BY <1>1, <1>4 DEF Clients
  <2> QED BY <1>1, <1>4, <2>1, <2>2 DEF World, world
<1>6. \A m \in Managers : Shape(world.conn[m])
  <2>1. Shape(NewManager)  BY <1>2, EmptyShape DEF Idle, e
  <2> QED BY <1>4, <2>1 DEF world
<1>7. 0 \notin Managers /\ 0 \in 0 .. MaxConnectionManagers /\ \A m \in Managers : ~(m <= 0)
  BY ConstantsAssumption DEF Managers
<1>8. Owned(world)  BY <1>1, <1>2, <1>3, <1>4, <1>7 DEF Owned, world
<1>9. Created(world)
  <2>1. \A m \in Managers : world.conn[m].exists <=> m <= 0  BY <1>2, <1>4, <1>7 DEF world
  <2> QED BY <1>7, <2>1 DEF Created
<1>10. IsInjective(world.queue) /\ world.panic = {}  BY <1>1, <1>4 DEF world
<1>11. submits \in 0 .. MaxSubmits  BY <1>4, ConstantsAssumption
<1> QED BY <1>5, <1>6, <1>8, <1>9, <1>10, <1>11 DEF IInv, Good

LEMMA Invariant == Spec => []IInv
  BY InitGood, NextGood, PTL DEF Spec

\* What is active is with one manager, and knows it: nothing is delivered to or reported
\* for a transaction that was cancelled, completed or closed, however the retries, the
\* cancellations and the losses of the connections fall (chttpclienthandler.cpp:991-1018).
THEOREM OneManagerHas == Spec => []OneManager
<1>1. IInv => OneManager
  <2> SUFFICES ASSUME IInv PROVE OneManager  OBVIOUS
  <2>1. Owned(world)  BY DEF IInv, Good
  <2>2. \A t \in Trans, m \in Managers : t \in ToSet(conn[m].responses) <=> trans[t].manager = m
    BY <2>1 DEF Owned, world
  <2>3. \A t \in Trans : trans[t].manager # 0 => trans[t].state = "EActive" /\ t \in ToSet(queue)
    BY <2>1 DEF Owned, world
  <2>4. 0 \notin Managers  BY DEF Managers
  <2> QED BY <2>2, <2>3, <2>4 DEF OneManager
<1> QED BY <1>1, Invariant, PTL

\* A transaction is only given to a manager that is free or may take one more, none of the
\* assertions that say so fails, and those in a manager's queues are all for its host
\* (chttpclienthandler.cpp:534-538, chttpconnectionmanager.cpp:86, 94, 118, 136).
THEOREM RightlyConnected == Spec => []RightConnection
<1>1. IInv => RightConnection
  <2> SUFFICES ASSUME IInv PROVE RightConnection  OBVIOUS
  <2>1. Good(world) /\ submits \in 0 .. MaxSubmits  BY DEF IInv
  <2>2. panic = {} /\ IsInjective(queue)  BY <2>1 DEF Good, world
  <2>3. /\ trans \in [Trans -> ProtTransaction] /\ queue \in Seq(Trans) /\ active \in BOOLEAN
        /\ conn \in [Managers -> Manager] /\ fallback \in [Places -> 0 .. 2]
        /\ events \in [Trans -> Seq(Events)] /\ client \in [Trans -> Clients] /\ panic \subseteq Assertions
    BY <2>1 DEF Good, World, world
  <2>4. TypeOK  BY <2>1, <2>2, <2>3 DEF TypeOK
  <2>5. \A m \in Managers : Placed(conn[m])  BY <2>1 DEF Good, Shape, world
  <2> QED BY <2>2, <2>4, <2>5 DEF RightConnection, Placed
<1> QED BY <1>1, Invariant, PTL
=============================================================================
