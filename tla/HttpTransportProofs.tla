------------------------- MODULE HttpTransportProofs -------------------------
(***************************************************************************)
(* Theorems about the socket transport of the HTTP framework, for any      *)
(* number of connection managers, connections and requests: what the       *)
(* managers and the transport hold of each other agrees, no assertion      *)
(* fails, and the transport implements HttpStreams.                        *)
(***************************************************************************)
EXTENDS HttpTransport, FiniteSetTheorems, SequenceTheorems, TLAPS

-----------------------------------------------------------------------------
(* The inductive invariant: l the links, g the managers, s the store, c the
   cache, h the open handles, r what is read in place, n the requests sent *)

\* The function f with another value at i.
Upd(f, i, x) == [f EXCEPT ![i] = x]

Live == {"EPendingDNSLookup", "EConnecting", "EConnected"}
Handshakes == {"EStartSecureHandshake", "ESecureHandshakeComplete"}
DeletedLink == [NewLink EXCEPT !.controller = "deleted", !.connector = "gone"]

\* No streams: before the connection is made, or when none was.
Quiet(x) ==
  /\ x.controller = "none"
  /\ x.input = "EIdle" /\ x.read = "none" /\ ~x.suspended
  /\ x.output = "EIdle" /\ x.write = "none"
  /\ x.timers = {} /\ x.served = 0 /\ x.answers = 0 /\ x.taken = 0 /\ ~x.eof

\* The two streams of a link x and what their manager y knows; b says that x is read
\* in place.
Reading(x, y, b) ==
  /\ x.input \in {"ERead", "EReceivedData", "EPendingAck"}
  /\ y.holds <=> x.input = "EPendingAck"
  /\ x.suspended <=> (b \/ y.phase = "upgrading")
  /\ x.suspended => x.read = "none" /\ x.input # "EReceivedData"
  /\ x.input = "ERead" => x.read \in {"none", "KErrNone"}
  /\ x.input = "EPendingAck" => x.read = "none"
  /\ x.taken = y.got + (IF x.input = "EReceivedData" /\ x.read = "KErrNone" THEN 1 ELSE 0)
Writing(x, y) ==
  /\ y.phase = "upgrading" <=> x.output \in Handshakes
  /\ y.phase = "connected" <=> x.output \in {"EPendingSend", "ESentData"}
  /\ x.write \in {"none", "pending", "KErrNone", "KErrGeneral"}
  /\ x.output = "EPendingSend" => x.write = "none" /\ y.asked = y.confirmed
  /\ x.output = "ESentData" => y.asked = y.confirmed + 1
  /\ x.output \in Handshakes => y.asked = 0 /\ y.confirmed = 0 /\ y.got = 0 /\ ~y.holds
  /\ x.served = y.confirmed + (IF x.output = "ESentData" /\ x.write = "KErrNone" THEN 1 ELSE 0)
  /\ x.taken <= x.answers /\ x.answers <= x.served
Streaming(x, y, b) ==
  /\ y.phase \in {"upgrading", "connected"}
  /\ Reading(x, y, b) /\ Writing(x, y)
  /\ b => y.phase = "connected" /\ x.taken < x.answers /\ x.write # "KErrGeneral"

Linked(i, l, g, r) ==
  LET x == l[i] IN
  \/ x = NewLink \/ x = DeletedLink
  \/ /\ x.connector \in Live /\ x.connect # "none" /\ Quiet(x)
     /\ x.owner \in Mgr /\ g[x.owner].connector = i
  \/ x.connector = "gone" /\ x.connect = "none" /\ Quiet(x)
  \/ /\ x.connector = "gone" /\ x.connect = "none" /\ x.controller = "up"
     /\ x.owner \in Mgr /\ g[x.owner].in = i /\ Streaming(x, g[x.owner], r = i)

Connecting(k) == [NewManager EXCEPT !.phase = "connecting", !.connector = k]
Managed(m, l, g, s) ==
  LET y == g[m] IN
  \/ y = NewManager
  \/ /\ y.connector \in Links /\ y = Connecting(y.connector)
     /\ l[y.connector].connector \in Live /\ l[y.connector].owner = m
  \/ /\ y.phase \in {"upgrading", "connected"} /\ y.connector = 0
     /\ y.in = y.out /\ y.in \in s /\ l[y.in].owner = m

Opened(l) == {i \in Links : l[i].connector \notin {"unused", "EPendingDNSLookup"}}
Resolvers(l, c, h) ==
  /\ IsInjective(c) /\ ToSet(c) \subseteq h
  /\ \A i \in Links : l[i].connector = "EConnecting" => l[i].resolver \in h \ ToSet(c)
  /\ \A i, j \in Links : l[i].connector = "EConnecting" /\ l[j].connector = "EConnecting" /\ i # j
                           => l[i].resolver # l[j].resolver
  /\ Cardinality(h) <= Cardinality(Opened(l))

Typed(l, g, s, c, h, r, n) ==
  /\ l \in [Links -> Link] /\ g \in [Mgr -> Manager]
  /\ s \subseteq Links /\ c \in Seq(Links) /\ h \subseteq Links
  /\ r \in 0 .. MaxConnects /\ n \in 0 .. MaxData

Good(l, g, s, c, h, r, n) ==
  /\ Typed(l, g, s, c, h, r, n)
  /\ s = {i \in Links : l[i].controller = "up"}
  /\ \A i \in Links : Linked(i, l, g, r)
  /\ \A m \in Mgr : Managed(m, l, g, s)
  /\ \A m \in Mgr : g[m].asked <= n
  /\ r # 0 => r \in s
  /\ Resolvers(l, c, h)

IInv == Good(link, mgr, store, cache, handles, reading, sends) /\ panic = {}

-----------------------------------------------------------------------------
(* Host resolvers: what the cache and the queries have of the handles *)

\* Nobody connects and nothing is connected.
Unused(l, s) == s = {} /\ \A i \in Links : l[i].connector \notin Live
CacheLeft(l, s, c) == IF Unused(l, s) THEN <<>> ELSE c
HandlesLeft(l, s, c, h) == IF Unused(l, s) THEN h \ ToSet(c) ELSE h

\* There are finitely many links, and 0 names none.
LEMMA LinksFinite == IsFiniteSet(Links) /\ 0 \notin Links /\ \A S \in SUBSET Links : IsFiniteSet(S)
<1>1. MaxConnects \in Nat  BY ConstantsAssumption
<1>2. IsFiniteSet(Links)  BY <1>1, FS_Interval DEF Links
<1>3. 0 \notin Links  BY DEF Links
<1>4. \A S \in SUBSET Links : IsFiniteSet(S)  BY <1>2, FS_Subset
<1> QED BY <1>2, <1>3, <1>4

\* The more links have opened a resolver, the more handles there may be.
LEMMA FewerOpened ==
  ASSUME NEW l, NEW k, Opened(l) \subseteq Opened(k)
  PROVE  Cardinality(Opened(l)) <= Cardinality(Opened(k))
<1>1. IsFiniteSet(Opened(k))  BY LinksFinite DEF Opened
<1> QED BY <1>1, FS_Subset

\* A link that is not asking changes: nobody's resolver does.
LEMMA ResolversStay ==
  ASSUME NEW l \in [Links -> Link], NEW c, NEW h, Resolvers(l, c, h), NEW i \in Links, NEW x \in Link,
         h \subseteq Links,
         l[i].connector \in {"unused", "EPendingDNSLookup"} \/ x.connector \notin {"unused", "EPendingDNSLookup"},
         x.connector # "EConnecting" \/ (l[i].connector = "EConnecting" /\ x.resolver = l[i].resolver)
  PROVE  Resolvers(Upd(l, i, x), c, h)
<1> DEFINE k == Upd(l, i, x)
<1>1. \A j \in Links : k[j] = IF j = i THEN x ELSE l[j]  BY DEF Upd
<1> HIDE DEF k
<1>2. Opened(l) \subseteq Opened(k)  BY <1>1 DEF Opened
<1>3. Cardinality(h) <= Cardinality(Opened(k))
  <2>1. Cardinality(h) \in Nat /\ Cardinality(Opened(l)) \in Nat /\ Cardinality(Opened(k)) \in Nat
    <3>1. Opened(l) \subseteq Links /\ Opened(k) \subseteq Links  BY DEF Opened
    <3> QED BY <3>1, LinksFinite, FS_CardinalityType
  <2>2. Cardinality(Opened(l)) <= Cardinality(Opened(k))  BY <1>2, FewerOpened
  <2>3. Cardinality(h) <= Cardinality(Opened(l))  BY DEF Resolvers
  <2> HIDE DEF k
  <2> QED BY <2>1, <2>2, <2>3
<1>4. IsInjective(c) /\ ToSet(c) \subseteq h  BY DEF Resolvers
<1>5. \A j \in Links : k[j].connector = "EConnecting" => l[j].connector = "EConnecting" /\ k[j].resolver = l[j].resolver
  BY <1>1
<1>6. \A j \in Links : k[j].connector = "EConnecting" => k[j].resolver \in h \ ToSet(c)
  BY <1>5 DEF Resolvers
<1>7. \A j, m \in Links : k[j].connector = "EConnecting" /\ k[m].connector = "EConnecting" /\ j # m
                           => k[j].resolver # k[m].resolver
  BY <1>5 DEF Resolvers
<1> QED BY <1>3, <1>4, <1>6, <1>7 DEF Resolvers, k

\* What is in front of the last element, and the last.
LEMMA FrontAndLast ==
  ASSUME NEW c \in Seq(Links), c # <<>>, IsInjective(c)
  PROVE  /\ Front(c) \in Seq(Links) /\ IsInjective(Front(c))
         /\ Last(c) \in ToSet(c) /\ Last(c) \in Links
         /\ ToSet(Front(c)) = ToSet(c) \ {Last(c)}
<1>1. Len(c) \in Nat /\ Len(c) >= 1 /\ c \in [1 .. Len(c) -> Links] /\ DOMAIN c = 1 .. Len(c)
  BY LenProperties, EmptySeq
<1>2. /\ Front(c) \in Seq(Links) /\ DOMAIN Front(c) = 1 .. Len(c) - 1
      /\ \A j \in 1 .. Len(c) - 1 : Front(c)[j] = c[j]
  BY <1>1 DEF Front
<1>3. Last(c) = c[Len(c)] /\ Len(c) \in DOMAIN c  BY <1>1 DEF Last
<1>4. IsInjective(Front(c))  BY <1>1, <1>2 DEF IsInjective
<1>5. Last(c) \in ToSet(c) /\ Last(c) \in Links  BY <1>1, <1>3 DEF ToSet
<1>6. ToSet(Front(c)) = ToSet(c) \ {Last(c)}
  <2>1. ASSUME NEW e, e \in ToSet(Front(c))  PROVE e \in ToSet(c) \ {Last(c)}
    <3>1. PICK j \in 1 .. Len(c) - 1 : e = c[j]  BY <1>2, <2>1 DEF ToSet
    <3> HIDE DEF Links
    <3>2. j \in DOMAIN c /\ j # Len(c)
      <4>1. Len(c) \in Nat /\ j \in Int /\ 1 <= j /\ j <= Len(c) - 1  BY <1>1
      <4>2. j \in 1 .. Len(c)  BY <4>1
      <4>3. j # Len(c)  BY <4>1
      <4> QED BY <1>1, <4>2, <4>3
    <3> QED BY <1>3, <3>1, <3>2 DEF ToSet, IsInjective
  <2>2. ASSUME NEW e, e \in ToSet(c) \ {Last(c)}  PROVE e \in ToSet(Front(c))
    <3>1. PICK j \in DOMAIN c : e = c[j]  BY <2>2 DEF ToSet
    <3>2. j # Len(c)  BY <1>3, <2>2, <3>1
    <3>3. j \in 1 .. Len(c) - 1  BY <1>1, <3>2
    <3> QED BY <1>2, <3>1, <3>3 DEF ToSet
  <2> QED BY <2>1, <2>2
<1> QED BY <1>2, <1>4, <1>5, <1>6

\* An element that was not there is appended.
LEMMA AppendedTo ==
  ASSUME NEW c \in Seq(Links), IsInjective(c), NEW e \in Links, e \notin ToSet(c)
  PROVE  /\ Append(c, e) \in Seq(Links) /\ IsInjective(Append(c, e))
         /\ ToSet(Append(c, e)) = ToSet(c) \cup {e}
<1> DEFINE d == Append(c, e)
<1>1. Len(c) \in Nat /\ DOMAIN c = 1 .. Len(c)  BY LenProperties
<1>2. /\ d \in Seq(Links) /\ DOMAIN d = 1 .. Len(c) + 1
      /\ \A j \in 1 .. Len(c) : d[j] = c[j]
      /\ d[Len(c) + 1] = e
  BY <1>1, AppendProperties
<1> HIDE DEF d
<1>3. \A j \in DOMAIN d : j = Len(c) + 1 \/ j \in DOMAIN c  BY <1>1, <1>2
<1>4. \A j \in DOMAIN c : j \in DOMAIN d /\ d[j] = c[j] /\ c[j] \in ToSet(c)  BY <1>1, <1>2 DEF ToSet
<1>5. Len(c) + 1 \in DOMAIN d  BY <1>1, <1>2
<1>6. IsInjective(d)
  <2> SUFFICES ASSUME NEW a \in DOMAIN d, NEW b \in DOMAIN d, d[a] = d[b] PROVE a = b
    BY Zenon DEF IsInjective
  <2> QED BY <1>2, <1>3, <1>4 DEF IsInjective
<1>7. ToSet(d) = ToSet(c) \cup {e}
  <2>1. \A z : z \in ToSet(d) => z \in ToSet(c) \cup {e}  BY <1>2, <1>3, <1>4 DEF ToSet
  <2>2. \A z : z \in ToSet(c) => z \in ToSet(d)  BY <1>4 DEF ToSet
  <2>3. e \in ToSet(d)  BY <1>2, <1>5 DEF ToSet
  <2> QED BY <2>1, <2>2, <2>3
<1> QED BY <1>2, <1>6, <1>7 DEF d

\* A link that has opened nothing takes the last handle of the cache.
LEMMA ResolverFromCache ==
  ASSUME NEW l \in [Links -> Link], NEW c \in Seq(Links), NEW h \in SUBSET Links, Resolvers(l, c, h),
         NEW i \in Links, NEW x \in Link, c # <<>>,
         l[i].connector \in {"unused", "EPendingDNSLookup"},
         x.connector = "EConnecting", x.resolver = Last(c)
  PROVE  Resolvers(Upd(l, i, x), Front(c), h)
<1> DEFINE k == Upd(l, i, x)
<1>1. \A j \in Links : k[j] = IF j = i THEN x ELSE l[j]  BY DEF Upd
<1> HIDE DEF k
<1>2. IsInjective(c) /\ ToSet(c) \subseteq h  BY DEF Resolvers
<1>3. /\ IsInjective(Front(c)) /\ Last(c) \in ToSet(c)
      /\ ToSet(Front(c)) = ToSet(c) \ {Last(c)}
  BY <1>2, FrontAndLast
<1>4. \A j \in Links : j # i /\ k[j].connector = "EConnecting" => k[j].resolver \in h \ ToSet(c)
  BY <1>1 DEF Resolvers
<1>5. k[i].resolver = Last(c)  BY <1>1
<1>6. \A j \in Links : k[j].connector = "EConnecting" => k[j].resolver \in h \ ToSet(Front(c))
  BY <1>2, <1>3, <1>4, <1>5
<1>7. \A j, m \in Links : k[j].connector = "EConnecting" /\ k[m].connector = "EConnecting" /\ j # m
                           => k[j].resolver # k[m].resolver
  BY <1>1, <1>3, <1>4, <1>5 DEF Resolvers
<1>8. Cardinality(h) <= Cardinality(Opened(k))
  <2>1. Opened(l) \subseteq Opened(k)  BY <1>1 DEF Opened
  <2>2. Cardinality(h) \in Nat /\ Cardinality(Opened(l)) \in Nat /\ Cardinality(Opened(k)) \in Nat
    <3>1. Opened(l) \subseteq Links /\ Opened(k) \subseteq Links  BY DEF Opened
    <3> QED BY <3>1, LinksFinite, FS_CardinalityType
  <2>3. Cardinality(Opened(l)) <= Cardinality(Opened(k))  BY <2>1, FewerOpened
  <2>4. Cardinality(h) <= Cardinality(Opened(l))  BY DEF Resolvers
  <2> QED BY <2>2, <2>3, <2>4
<1> QED BY <1>2, <1>3, <1>6, <1>7, <1>8 DEF Resolvers, k

\* There is a handle for a link that has opened nothing.
LEMMA HandleThere ==
  ASSUME NEW l \in [Links -> Link], NEW c, NEW h \in SUBSET Links, Resolvers(l, c, h),
         NEW i \in Links, l[i].connector \in {"unused", "EPendingDNSLookup"}
  PROVE  \E k \in Links : k \notin h
<1>1. Opened(l) \subseteq Links /\ i \in Links \ Opened(l)  BY DEF Opened
<1>2. Cardinality(Opened(l)) < Cardinality(Links)
  <2>1. IsFiniteSet(Links)  BY LinksFinite
  <2>2. Opened(l) \cup {i} \subseteq Links /\ IsFiniteSet(Opened(l))  BY <1>1, LinksFinite
  <2>3. Cardinality(Opened(l) \cup {i}) = Cardinality(Opened(l)) + 1  BY <1>1, <2>2, FS_AddElement
  <2>4. Cardinality(Opened(l) \cup {i}) <= Cardinality(Links)  BY <2>1, <2>2, FS_Subset
  <2>5. Cardinality(Opened(l)) \in Nat /\ Cardinality(Links) \in Nat  BY <2>1, <2>2, FS_CardinalityType
  <2> QED BY <2>3, <2>4, <2>5
<1>3. Cardinality(h) <= Cardinality(Opened(l))  BY DEF Resolvers
<1>4. Cardinality(h) \in Nat /\ Cardinality(Opened(l)) \in Nat /\ Cardinality(Links) \in Nat
  BY <1>1, LinksFinite, FS_CardinalityType
<1>5. Cardinality(h) < Cardinality(Links)  BY <1>2, <1>3, <1>4
<1>6. h # Links  BY <1>4, <1>5
<1> QED BY <1>6

\* ... and it is opened.
LEMMA ResolverOpened ==
  ASSUME NEW l \in [Links -> Link], NEW c \in Seq(Links), NEW h \in SUBSET Links, Resolvers(l, c, h),
         NEW i \in Links, NEW x \in Link, NEW k \in Links, k \notin h,
         l[i].connector \in {"unused", "EPendingDNSLookup"},
         x.connector = "EConnecting", x.resolver = k
  PROVE  Resolvers(Upd(l, i, x), c, h \cup {k})
<1> DEFINE f == Upd(l, i, x)
<1>1. \A j \in Links : f[j] = IF j = i THEN x ELSE l[j]  BY DEF Upd
<1> HIDE DEF f
<1>2. IsInjective(c) /\ ToSet(c) \subseteq h  BY DEF Resolvers
<1>3. \A j \in Links : j # i /\ f[j].connector = "EConnecting" => f[j].resolver \in h \ ToSet(c)
  BY <1>1 DEF Resolvers
<1>4. f[i].resolver = k  BY <1>1
<1>5. \A j \in Links : f[j].connector = "EConnecting" => f[j].resolver \in (h \cup {k}) \ ToSet(c)
  BY <1>2, <1>3, <1>4
<1>6. \A j, m \in Links : f[j].connector = "EConnecting" /\ f[m].connector = "EConnecting" /\ j # m
                           => f[j].resolver # f[m].resolver
  BY <1>1, <1>3, <1>4 DEF Resolvers
<1>7. Cardinality(h \cup {k}) <= Cardinality(Opened(f))
  <2>1. Opened(f) = Opened(l) \cup {i} /\ i \notin Opened(l)  BY <1>1 DEF Opened
  <2>2. IsFiniteSet(h) /\ IsFiniteSet(Opened(l))
    <3>1. Opened(l) \subseteq Links  BY DEF Opened
    <3> QED BY <3>1, LinksFinite
  <2>3. Cardinality(Opened(f)) = Cardinality(Opened(l)) + 1  BY <2>1, <2>2, FS_AddElement
  <2>4. Cardinality(h \cup {k}) = Cardinality(h) + 1  BY <2>2, FS_AddElement
  <2>5. Cardinality(h) \in Nat /\ Cardinality(Opened(l)) \in Nat  BY <2>2, FS_CardinalityType
  <2>6. Cardinality(h) <= Cardinality(Opened(l))  BY DEF Resolvers
  <2> QED BY <2>3, <2>4, <2>5, <2>6
<1> QED BY <1>2, <1>5, <1>6, <1>7 DEF Resolvers, f

\* The handle of a query that is over goes into the cache.
LEMMA ResolverReturned ==
  ASSUME NEW l \in [Links -> Link], NEW c \in Seq(Links), NEW h \in SUBSET Links, Resolvers(l, c, h),
         NEW i \in Links, NEW x \in Link, l[i].connector = "EConnecting",
         x.connector \in {"EConnected", "gone"}
  PROVE  /\ Resolvers(Upd(l, i, x), Append(c, l[i].resolver), h)
         /\ Append(c, l[i].resolver) \in Seq(Links)
<1> DEFINE k == Upd(l, i, x)
           e == l[i].resolver
<1>1. e \in h \ ToSet(c) /\ IsInjective(c) /\ ToSet(c) \subseteq h  BY DEF Resolvers
<1>2. /\ Append(c, e) \in Seq(Links) /\ IsInjective(Append(c, e))
      /\ ToSet(Append(c, e)) = ToSet(c) \cup {e}
  BY <1>1, AppendedTo
<1>3. Resolvers(k, c, h)  BY ResolversStay
<1>4. \A j \in Links : k[j].connector = "EConnecting" => j # i /\ k[j] = l[j]  BY DEF Upd
<1>5. \A j \in Links : k[j].connector = "EConnecting" => k[j].resolver \in h \ ToSet(c) /\ k[j].resolver # e
  BY <1>4 DEF Resolvers
<1> HIDE DEF k, e
<1>6. \A j \in Links : k[j].connector = "EConnecting" => k[j].resolver \in h \ ToSet(Append(c, e))
  BY <1>2, <1>5
<1> QED BY <1>1, <1>2, <1>3, <1>6 DEF Resolvers, k, e

\* The cache is emptied only when there are no queries.
LEMMA ResolversEmptied ==
  ASSUME NEW l \in [Links -> Link], NEW s, NEW c \in Seq(Links), NEW h \in SUBSET Links, Resolvers(l, c, h)
  PROVE  /\ CacheLeft(l, s, c) \in Seq(Links) /\ HandlesLeft(l, s, c, h) \in SUBSET Links
         /\ Resolvers(l, CacheLeft(l, s, c), HandlesLeft(l, s, c, h))
<1>1. CASE ~Unused(l, s)  BY <1>1 DEF CacheLeft, HandlesLeft
<1>2. CASE Unused(l, s)
  <2>1. \A i \in Links : l[i].connector # "EConnecting"  BY <1>2 DEF Unused, Live
  <2>2. CacheLeft(l, s, c) = <<>> /\ HandlesLeft(l, s, c, h) = h \ ToSet(c)
    BY <1>2 DEF CacheLeft, HandlesLeft
  <2>3. IsInjective(<<>>) /\ ToSet(<<>>) = {} /\ <<>> \in Seq(Links)  BY DEF IsInjective, ToSet
  <2>4. Cardinality(h \ ToSet(c)) <= Cardinality(h)
    BY LinksFinite, FS_Subset
  <2>5. Cardinality(h \ ToSet(c)) <= Cardinality(Opened(l))
    <3>1. Opened(l) \subseteq Links  BY DEF Opened
    <3>2. Cardinality(h) \in Nat /\ Cardinality(h \ ToSet(c)) \in Nat /\ Cardinality(Opened(l)) \in Nat
      BY <3>1, LinksFinite, FS_CardinalityType
    <3> QED BY <2>4, <3>2 DEF Resolvers
  <2> QED BY <2>1, <2>2, <2>3, <2>5 DEF Resolvers
<1> QED BY <1>1, <1>2

-----------------------------------------------------------------------------
(* What a good world has, and how it stays good when one link and its manager change *)

\* The fields of the initial records.
LEMMA NewFields ==
  /\ NewLink.connector = "unused" /\ NewLink.controller = "none" /\ NewLink.connect = "none" /\ NewLink.resolver = 0
  /\ DeletedLink.connector = "gone" /\ DeletedLink.controller = "deleted"
  /\ NewManager.phase = "idle" /\ NewManager.connector = 0 /\ NewManager.in = 0 /\ NewManager.out = 0
  /\ NewManager.asked = 0 /\ NewManager.confirmed = 0 /\ NewManager.got = 0 /\ NewManager.holds = FALSE
  /\ \A k : /\ Connecting(k).phase = "connecting" /\ Connecting(k).connector = k
            /\ Connecting(k).in = 0 /\ Connecting(k).out = 0 /\ Connecting(k).asked = 0
            /\ Connecting(k).confirmed = 0 /\ Connecting(k).got = 0 /\ Connecting(k).holds = FALSE
BY DEF NewLink, DeletedLink, NewManager, Connecting

\* What a good world says of one link.
LEMMA LinkStands ==
  ASSUME NEW l, NEW g, NEW s, NEW c, NEW h, NEW r, NEW n, Good(l, g, s, c, h, r, n), NEW i \in Links
  PROVE  /\ l[i] \in Link
         /\ l[i].connector = "unused" => l[i] = NewLink /\ i \notin s
         /\ l[i].connector \in Live =>
              /\ l[i].connect # "none" /\ Quiet(l[i]) /\ i \notin s
              /\ l[i].owner \in Mgr /\ g[l[i].owner] = Connecting(i)
         /\ i \in s =>
              /\ l[i].connector = "gone" /\ l[i].connect = "none" /\ l[i].controller = "up"
              /\ l[i].owner \in Mgr /\ g[l[i].owner].in = i /\ g[l[i].owner].out = i
              /\ g[l[i].owner].connector = 0 /\ Streaming(l[i], g[l[i].owner], r = i)
         /\ i \notin s => l[i] = NewLink \/ l[i] = DeletedLink \/ Quiet(l[i])
         /\ l[i].connect # "none" => l[i].connector \in Live
         /\ l[i].controller = "up" => i \in s
<1>1. Linked(i, l, g, r) /\ (i \in s <=> l[i].controller = "up") /\ l[i] \in Link  BY DEF Good, Typed
<1>2. \A m \in Mgr : Managed(m, l, g, s)  BY DEF Good
<1>3. i # 0  BY LinksFinite
<1>4. "up" # "none" /\ "up" # "deleted" /\ "unused" \notin Live /\ "gone" \notin Live /\ "gone" # "unused"
  BY DEF Live
<1>5. Quiet(l[i]) => l[i].controller = "none"  BY DEF Quiet
<1>6. l[i].connector = "unused" => l[i] = NewLink /\ i \notin s
  BY <1>1, <1>4, NewFields DEF Linked
<1>7. l[i].connector \in Live =>
        /\ l[i].connect # "none" /\ Quiet(l[i]) /\ i \notin s
        /\ l[i].owner \in Mgr /\ g[l[i].owner].connector = i
  BY <1>1, <1>4, <1>5, NewFields DEF Linked
<1>8. l[i].connector \in Live => g[l[i].owner] = Connecting(i)
  BY <1>2, <1>3, <1>7, NewFields DEF Managed
<1>9. i \in s =>
        /\ l[i].connector = "gone" /\ l[i].connect = "none" /\ l[i].controller = "up"
        /\ l[i].owner \in Mgr /\ g[l[i].owner].in = i /\ Streaming(l[i], g[l[i].owner], r = i)
  BY <1>1, <1>4, <1>5, NewFields DEF Linked
<1>10. i \in s => g[l[i].owner].out = i /\ g[l[i].owner].connector = 0
  BY <1>2, <1>3, <1>9, NewFields DEF Managed
<1>11. i \notin s => l[i] = NewLink \/ l[i] = DeletedLink \/ Quiet(l[i])
  BY <1>1 DEF Linked
<1>12. l[i].connect # "none" => l[i].connector \in Live
  BY <1>1, NewFields DEF Linked, DeletedLink, NewLink
<1> QED BY <1>1, <1>6, <1>7, <1>8, <1>9, <1>10, <1>11, <1>12

\* What a good world says of one manager.
LEMMA ManagerStands ==
  ASSUME NEW l, NEW g, NEW s, NEW c, NEW h, NEW r, NEW n, Good(l, g, s, c, h, r, n), NEW m \in Mgr
  PROVE  /\ g[m] \in Manager /\ g[m].asked <= n
         /\ g[m].phase = "idle" => g[m] = NewManager
         /\ g[m].phase = "connecting" =>
              /\ g[m].connector \in Links /\ g[m] = Connecting(g[m].connector)
              /\ l[g[m].connector].connector \in Live /\ l[g[m].connector].owner = m
         /\ (g[m].phase \in {"upgrading", "connected"} \/ g[m].holds \/ g[m].timedOut) =>
              /\ g[m].connector = 0 /\ g[m].in = g[m].out /\ g[m].in \in s /\ g[m].in \in Links
              /\ g[m].phase \in {"upgrading", "connected"} /\ l[g[m].in].owner = m
         /\ g[m].phase # "closing"
<1>1. Managed(m, l, g, s) /\ g[m] \in Manager /\ g[m].asked <= n /\ s \subseteq Links  BY DEF Good, Typed
<1>2. NewManager.timedOut = FALSE /\ \A k : Connecting(k).timedOut = FALSE  BY DEF NewManager, Connecting
<1> QED BY <1>1, <1>2, NewFields DEF Managed

\* The link i and the manager m belong together, or i is new and m has nothing.
Mine(i, m, l, g, s) ==
  \/ l[i].connector = "unused" /\ g[m] = NewManager
  \/ (l[i].connector \in Live \/ i \in s) /\ l[i].owner = m

\* A step of one link and its manager: the rest of the world need not be looked at.
LEMMA GoodTurn ==
  ASSUME NEW l, NEW g, NEW s, NEW c, NEW h, NEW r, NEW n, Good(l, g, s, c, h, r, n),
         NEW i \in Links, NEW m \in Mgr, Mine(i, m, l, g, s), NEW x \in Link, NEW y \in Manager,
         NEW d \in Seq(Links), NEW f \in SUBSET Links, Resolvers(Upd(l, i, x), d, f),
         NEW q, q = r \/ (r \in {0, i} /\ q \in {0, i}),
         NEW v, v = IF x.controller = "up" THEN s \cup {i} ELSE s \ {i},
         q # 0 => q \in v,
         NEW k \in 0 .. MaxData, n <= k, y.asked <= k,
         Linked(i, Upd(l, i, x), Upd(g, m, y), q),
         Managed(m, Upd(l, i, x), Upd(g, m, y), v)
  PROVE  Good(Upd(l, i, x), Upd(g, m, y), v, d, f, q, k)
<1> DEFINE l2 == Upd(l, i, x)
           g2 == Upd(g, m, y)
<1>1. l \in [Links -> Link] /\ g \in [Mgr -> Manager] /\ s \subseteq Links /\ r \in 0 .. MaxConnects
      /\ s = {j \in Links : l[j].controller = "up"} /\ n \in 0 .. MaxData
  BY DEF Good, Typed
<1>2. /\ l2 \in [Links -> Link] /\ l2[i] = x /\ \A j \in Links \ {i} : l2[j] = l[j]
      /\ g2 \in [Mgr -> Manager] /\ g2[m] = y /\ \A o \in Mgr \ {m} : g2[o] = g[o]
  BY <1>1 DEF Upd
<1> HIDE DEF l2, g2
<1>3. i # 0 /\ \A j \in Links : j # 0  BY LinksFinite
<1>4. i \in 0 .. MaxConnects /\ 0 \in 0 .. MaxConnects  BY ConstantsAssumption DEF Links
<1>5. Typed(l2, g2, v, d, f, q, k)
  <2>1. v \subseteq Links  BY <1>1
  <2>2. q \in 0 .. MaxConnects  BY <1>1, <1>4
  <2> QED BY <1>2, <2>1, <2>2 DEF Typed
<1>6. v = {j \in Links : l2[j].controller = "up"}  BY <1>1, <1>2
<1>7. /\ l[i].connector = "unused" => g[m] = NewManager
      /\ l[i].connector \in Live => l[i].owner = m /\ g[m] = Connecting(i) /\ i \notin s
      /\ i \in s => l[i].owner = m /\ g[m].in = i /\ g[m].connector = 0 /\ l[i].connector = "gone"
      /\ l[i].connector = "unused" \/ l[i].connector \in Live \/ i \in s
      /\ l[i].connector = "unused" => i \notin s
  BY LinkStands DEF Mine, Live
<1>8. ASSUME NEW j \in Links, j # i  PROVE Linked(j, l2, g2, q)
  <2>1. Linked(j, l, g, r)  BY DEF Good
  <2>2. l2[j] = l[j] /\ ((q = j) <=> (r = j))  BY <1>2, <1>3, <1>8
  <2>3. g[m].connector # j /\ g[m].in # j  BY <1>3, <1>7, <1>8, NewFields
  <2>4. \A o \in Mgr : (g[o].connector = j \/ g[o].in = j) => g2[o] = g[o]  BY <1>2, <2>3
  <2>5. (r = j) = (q = j)  BY <2>2
  <2>6. l[j].owner \in Mgr /\ (g[l[j].owner].connector = j \/ g[l[j].owner].in = j)
          => g2[l[j].owner] = g[l[j].owner]
    BY <2>4
  <2> QED BY <2>1, <2>2, <2>5, <2>6 DEF Linked
<1>9. ASSUME NEW o \in Mgr, o # m  PROVE Managed(o, l2, g2, v)
  <2>1. Managed(o, l, g, s) /\ g2[o] = g[o]  BY <1>2, <1>9 DEF Good
  <2>2. g[o].connector \in Links /\ l[g[o].connector].connector \in Live /\ l[g[o].connector].owner = o
          => g[o].connector # i
    BY <1>7, <1>9 DEF Live
  <2>3. g[o].in \in s /\ l[g[o].in].owner = o => g[o].in # i  BY <1>7, <1>9
  <2>4. \A j \in Links : j # i => l2[j] = l[j]  BY <1>2
  <2>5. \A j \in s : j # i => j \in v /\ j \in Links  BY <1>1
  <2> QED BY <2>1, <2>2, <2>3, <2>4, <2>5 DEF Managed
<1>10. \A o \in Mgr : g2[o].asked <= k
  <2>1. \A o \in Mgr : g[o].asked \in Int /\ g[o].asked <= n
    BY <1>1 DEF Good, Manager
  <2>2. n \in Int /\ k \in Int  BY <1>1
  <2>3. \A a, b, z \in Int : a <= b /\ b <= z => a <= z  OBVIOUS
  <2> QED BY <1>2, <2>1, <2>2, <2>3
<1>11. Linked(i, l2, g2, q) /\ Managed(m, l2, g2, v)  BY DEF l2, g2
<1>12. Resolvers(l2, d, f)  BY DEF l2
<1>13. \A j \in Links : Linked(j, l2, g2, q)  BY <1>8, <1>11
<1>14. \A o \in Mgr : Managed(o, l2, g2, v)  BY <1>9, <1>11
<1> QED BY <1>5, <1>6, <1>10, <1>12, <1>13, <1>14 DEF Good, l2, g2

-----------------------------------------------------------------------------
(* The operations, on a world in which no assertion has failed *)

W(l, g, s, c, h, r, n) ==
  [link |-> l, mgr |-> g, store |-> s, cache |-> c, handles |-> h, reading |-> r, sends |-> n, panic |-> {}]
PutLink(w, i, x) == [w EXCEPT !.link[i] = x]
PutMgr(w, m, y) == [w EXCEPT !.mgr[m] = y]
SetStore(w, x) == [w EXCEPT !.store = x]
SetCache(w, x) == [w EXCEPT !.cache = x]
SetHandles(w, x) == [w EXCEPT !.handles = x]
SetReading(w, x) == [w EXCEPT !.reading = x]
SetSends(w, x) == [w EXCEPT !.sends = x]

\* The state is a world.
LEMMA WorldBegins == panic = {} => world = W(link, mgr, store, cache, handles, reading, sends)
BY DEF world, W

\* The next state is that of the world it becomes.
LEMMA WorldEnds ==
  ASSUME NEW l, NEW g, NEW s, NEW c, NEW h, NEW r, NEW n, Becomes(W(l, g, s, c, h, r, n))
  PROVE  /\ link' = l /\ mgr' = g /\ store' = s /\ cache' = c /\ handles' = h /\ reading' = r
         /\ sends' = n /\ panic' = {}
BY DEF Becomes, W

\* The parts of a world.
LEMMA WorldParts ==
  ASSUME NEW l, NEW g, NEW s, NEW c, NEW h, NEW r, NEW n
  PROVE  LET w == W(l, g, s, c, h, r, n) IN
         w.link = l /\ w.mgr = g /\ w.store = s /\ w.cache = c /\ w.handles = h /\ w.reading = r /\ w.sends = n
BY DEF W

\* A link or a manager is written.
LEMMA PutTurns ==
  ASSUME NEW l, NEW g, NEW s, NEW c, NEW h, NEW r, NEW n, NEW i, NEW x
  PROVE  /\ PutLink(W(l, g, s, c, h, r, n), i, x) = W(Upd(l, i, x), g, s, c, h, r, n)
         /\ PutMgr(W(l, g, s, c, h, r, n), i, x) = W(l, Upd(g, i, x), s, c, h, r, n)
BY DEF PutLink, PutMgr, W, Upd

\* Another part is written.
LEMMA SetTurns ==
  ASSUME NEW l, NEW g, NEW s, NEW c, NEW h, NEW r, NEW n, NEW x
  PROVE  /\ SetStore(W(l, g, s, c, h, r, n), x) = W(l, g, x, c, h, r, n)
         /\ SetCache(W(l, g, s, c, h, r, n), x) = W(l, g, s, x, h, r, n)
         /\ SetHandles(W(l, g, s, c, h, r, n), x) = W(l, g, s, c, x, r, n)
         /\ SetReading(W(l, g, s, c, h, r, n), x) = W(l, g, s, c, h, x, n)
         /\ SetSends(W(l, g, s, c, h, r, n), x) = W(l, g, s, c, h, r, x)
BY SMTT(30) DEF W, SetStore, SetCache, SetHandles, SetReading, SetSends

\* Of two writings the second stands.
LEMMA Twice ==
  ASSUME NEW f, NEW i, NEW x, NEW y
  PROVE  /\ Upd(Upd(f, i, x), i, y) = Upd(f, i, y)
         /\ i \in DOMAIN f => Upd(f, i, x)[i] = x
         /\ DOMAIN Upd(f, i, x) = DOMAIN f
BY DEF Upd

\* An assertion that holds does nothing.
LEMMA CheckTurns ==
  \A w, p, name : p => Check(w, p, name) = w
BY DEF Check

\* EmptyHostResolverCacheIfNeeded, as a world.
LEMMA EmptyTurns ==
  ASSUME NEW l \in [Links -> Link], NEW g, NEW s, NEW c, NEW h, NEW r, NEW n
  PROVE  EmptyHostResolverCacheIfNeeded(W(l, g, s, c, h, r, n))
           = W(l, g, s, CacheLeft(l, s, c), HandlesLeft(l, s, c, h), r, n)
<1> DEFINE w == W(l, g, s, c, h, r, n)
<1>1. w.link = l /\ w.store = s /\ w.cache = c /\ w.handles = h  BY DEF W
<1>2. \A i \in Links : l[i].connector \in ConnectStates  BY DEF Link
<1>3. (InConnectorStore(w) = {} /\ w.store = {}) <=> Unused(l, s)
  BY <1>1, <1>2 DEF InConnectorStore, Unused, Live, ConnectStates
<1>4. [w EXCEPT !.handles = w.handles \ ToSet(w.cache), !.cache = <<>>] = W(l, g, s, <<>>, h \ ToSet(c), r, n)
  <2>1. [w EXCEPT !.handles = w.handles \ ToSet(w.cache), !.cache = <<>>]
          = SetCache(SetHandles(w, h \ ToSet(c)), <<>>)
    BY <1>1 DEF SetCache, SetHandles
  <2> QED BY <2>1, SetTurns
<1>5. CASE Unused(l, s)
  BY <1>1, <1>3, <1>4, <1>5 DEF EmptyHostResolverCacheIfNeeded, CacheLeft, HandlesLeft
<1>6. CASE ~Unused(l, s)
  BY <1>3, <1>6 DEF EmptyHostResolverCacheIfNeeded, CacheLeft, HandlesLeft
<1> QED BY <1>5, <1>6

Finished(x) == [x EXCEPT !.connector = "gone", !.connect = "none", !.resolver = 0, !.restarted = FALSE]

\* A connector that is gone is a link.
LEMMA FinishedLink == \A x \in Link : Finished(x) \in Link
<1>1. 0 \in 0 .. MaxConnects  BY ConstantsAssumption
<1> QED BY <1>1 DEF Link, Finished, ConnectStates, Requests

\* Suicide writes the link and then looks at the cache.
LEMMA SuicideIs ==
  ASSUME NEW w, NEW i, "link" \in DOMAIN w, i \in DOMAIN w.link
  PROVE  Suicide(w, i) = EmptyHostResolverCacheIfNeeded(PutLink(w, i, Finished(w.link[i])))
<1>1. [w EXCEPT !.link[i].connector = "gone", !.link[i].connect = "none",
                !.link[i].resolver = 0, !.link[i].restarted = FALSE] = PutLink(w, i, Finished(w.link[i]))
  BY DEF PutLink, Finished
<1> QED BY <1>1 DEF Suicide

\* Suicide, as a world.
LEMMA SuicideTurns ==
  ASSUME NEW l \in [Links -> Link], NEW g, NEW s, NEW c, NEW h, NEW r, NEW n, NEW i \in Links,
         NEW k, k = Upd(l, i, Finished(l[i]))
  PROVE  Suicide(W(l, g, s, c, h, r, n), i) = W(k, g, s, CacheLeft(k, s, c), HandlesLeft(k, s, c, h), r, n)
<1> DEFINE w == W(l, g, s, c, h, r, n)
<1>1. w.link = l /\ "link" \in DOMAIN w /\ i \in DOMAIN l  BY DEF W
<1>2. PutLink(w, i, Finished(l[i])) = W(k, g, s, c, h, r, n)  BY PutTurns
<1> HIDE DEF w
<1>3. Suicide(w, i) = EmptyHostResolverCacheIfNeeded(PutLink(w, i, Finished(l[i])))
  BY <1>1, SuicideIs
<1>4. k \in [Links -> Link]
  <2>1. Finished(l[i]) \in Link  BY FinishedLink
  <2> QED BY <2>1 DEF Upd
<1> QED BY <1>2, <1>3, <1>4, EmptyTurns DEF w

\* AddToHostResolverCache, as a world.
LEMMA AddTurns ==
  ASSUME NEW l, NEW g, NEW s, NEW c, NEW h, NEW r, NEW n, NEW i
  PROVE  AddToHostResolverCache(W(l, g, s, c, h, r, n), i) = W(l, g, s, Append(c, l[i].resolver), h, r, n)
<1> DEFINE w == W(l, g, s, c, h, r, n)
<1>1. w.link = l /\ w.cache = c  BY DEF W
<1>2. AddToHostResolverCache(w, i) = SetCache(w, Append(c, l[i].resolver))
  BY <1>1 DEF AddToHostResolverCache, SetCache
<1> QED BY <1>2, SetTurns

\* The link x with a request of its connector.
Attempting(x, state, request) == [x EXCEPT !.connector = state, !.connect = request]
Asking(x, k) == [x EXCEPT !.resolver = k, !.connector = "EConnecting", !.connect = "pending"]

\* FailInPlace, as a world.
LEMMA FailInPlaceTurns ==
  ASSUME NEW l \in [Links -> Link], NEW g, NEW s, NEW c, NEW h, NEW r, NEW n, NEW i \in Links, NEW code
  PROVE  FailInPlace(W(l, g, s, c, h, r, n), i, code)
           = W(Upd(l, i, Attempting(l[i], "EPendingDNSLookup", code)), g, s, c, h, r, n)
<1> DEFINE w == W(l, g, s, c, h, r, n)
<1>1. FailInPlace(w, i, code) = PutLink(w, i, Attempting(w.link[i], "EPendingDNSLookup", code))
  BY DEF FailInPlace, PutLink, Attempting, W
<1>2. w.link = l  BY DEF W
<1> QED BY <1>1, <1>2, PutTurns

\* What DoPendingDNSLookup may make of a world.
LookedUp(v, l, g, s, c, h, r, n, i, open) ==
  \/ c # <<>> /\ v = W(Upd(l, i, Asking(l[i], Last(c))), g, s, Front(c), h, r, n)
  \/ \E k \in Links \ h : v = W(Upd(l, i, Asking(l[i], k)), g, s, c, h \cup {k}, r, n)
  \/ open # "KErrNone" /\ v = W(Upd(l, i, Attempting(l[i], "EPendingDNSLookup", open)), g, s, c, h, r, n)

\* DoPendingDNSLookup, as a world, with no assertion that fails.
LEMMA LookupTurns ==
  ASSUME NEW l \in [Links -> Link], NEW g, NEW s, NEW c \in Seq(Links), NEW h \in SUBSET Links, NEW r, NEW n,
         NEW i \in Links, NEW open, Resolvers(l, c, h),
         l[i].connector \in {"unused", "EPendingDNSLookup"}
  PROVE  LookedUp(DoPendingDNSLookup(W(l, g, s, c, h, r, n), i, open), l, g, s, c, h, r, n, i, open)
<1> DEFINE w == W(l, g, s, c, h, r, n)
           Taken(k, d) == [w EXCEPT !.cache = d, !.handles = w.handles \cup {k}, !.link[i].resolver = k,
                                    !.link[i].connector = "EConnecting", !.link[i].connect = "pending"]
<1>1. w.link = l /\ w.cache = c /\ w.handles = h  BY DEF W
<1>2. ASSUME NEW k, NEW d  PROVE Taken(k, d) = W(Upd(l, i, Asking(l[i], k)), g, s, d, h \cup {k}, r, n)
  <2> DEFINE u == W(l, g, s, d, h \cup {k}, r, n)
  <2>1. [w EXCEPT !.cache = d, !.handles = w.handles \cup {k}] = u
    <3>1. [w EXCEPT !.cache = d, !.handles = w.handles \cup {k}] = SetHandles(SetCache(w, d), h \cup {k})
      BY <1>1 DEF SetCache, SetHandles
    <3> QED BY <3>1, SetTurns
  <2>2. Taken(k, d) = [u EXCEPT !.link[i].resolver = k,
                                    !.link[i].connector = "EConnecting", !.link[i].connect = "pending"]
    BY <2>1
  <2>3. [u EXCEPT !.link[i].resolver = k, !.link[i].connector = "EConnecting", !.link[i].connect = "pending"]
          = PutLink(u, i, Asking(u.link[i], k))
    BY ZenonT(30) DEF PutLink, Asking, W
  <2>4. u.link = l  BY DEF W
  <2> QED BY <2>2, <2>3, <2>4, PutTurns
<1> HIDE DEF Taken
<1>3. CASE c # <<>>
  <2> DEFINE k == Last(c)
  <2>1. k \in h  BY <1>3, FrontAndLast DEF Resolvers
  <2>2. h \cup {k} = h  BY <2>1
  <2>3. DoPendingDNSLookup(w, i, open)
          = Check(Taken(k, Front(c)), k \in w.handles \/ ~(w.cache # <<>>), "EBadHandle")
    <3> HIDE DEF w
    <3>1. w.cache # <<>> /\ Last(w.cache) = k  BY <1>1, <1>3
    <3> HIDE DEF k
    <3> QED BY <1>1, <3>1 DEF DoPendingDNSLookup, Taken
  <2>4. DoPendingDNSLookup(w, i, open) = Taken(k, Front(c))
    <3> HIDE DEF k, w
    <3> QED BY <1>1, <2>1, <2>3, CheckTurns
  <2> QED BY <1>2, <1>3, <2>2, <2>4 DEF LookedUp
<1>4. CASE c = <<>> /\ open = "KErrNone"
  <2> DEFINE k == CHOOSE j \in Links : j \notin h
  <2>1. k \in Links \ h  BY HandleThere
  <2>2. DoPendingDNSLookup(w, i, open) = Check(Taken(k, c), TRUE, "EBadHandle")
    BY <1>1, <1>4 DEF DoPendingDNSLookup, Taken
  <2>3. DoPendingDNSLookup(w, i, open) = Taken(k, c)  BY <2>2, CheckTurns
  <2> QED BY <1>2, <2>1, <2>3 DEF LookedUp
<1>5. CASE c = <<>> /\ open # "KErrNone"
  <2>1. DoPendingDNSLookup(w, i, open) = FailInPlace(w, i, open)
    BY <1>1, <1>5 DEF DoPendingDNSLookup
  <2> QED BY <1>5, <2>1, FailInPlaceTurns DEF LookedUp
<1> QED BY <1>3, <1>4, <1>5

\* DoConnect: what the cache is after it, and the link.
CacheAfter(l, c, i) == IF l[i].resolver # 0 THEN Append(c, l[i].resolver) ELSE c
Started(x, start) == IF start = "KErrNone" THEN Attempting(x, "EConnected", "pending")
                     ELSE [x EXCEPT !.connect = start]

\* DoConnect, as a world.
LEMMA DoConnectTurns ==
  ASSUME NEW l \in [Links -> Link], NEW g, NEW s, NEW c, NEW h, NEW r, NEW n, NEW i \in Links, NEW start
  PROVE  DoConnect(W(l, g, s, c, h, r, n), i, start)
           = W(Upd(l, i, Started(l[i], start)), g, s, CacheAfter(l, c, i), h, r, n)
<1> DEFINE w == W(l, g, s, c, h, r, n)
           v == W(l, g, s, CacheAfter(l, c, i), h, r, n)
<1>1. w.link = l /\ v.link = l  BY DEF W
<1>2. (IF w.link[i].resolver # 0 THEN AddToHostResolverCache(w, i) ELSE w) = v
  BY <1>1, AddTurns DEF CacheAfter
<1>3. DoConnect(w, i, start) = IF start = "KErrNone"
        THEN [v EXCEPT !.link[i].connector = "EConnected", !.link[i].connect = "pending"]
        ELSE [v EXCEPT !.link[i].connect = start]
  BY <1>2 DEF DoConnect
<1>4. [v EXCEPT !.link[i].connector = "EConnected", !.link[i].connect = "pending"]
        = PutLink(v, i, Attempting(v.link[i], "EConnected", "pending"))
  BY DEF PutLink, Attempting, W
<1>5. [v EXCEPT !.link[i].connect = start] = PutLink(v, i, [v.link[i] EXCEPT !.connect = start])
  BY DEF PutLink, W
<1> HIDE DEF v
<1>6. DoConnect(w, i, start) = PutLink(v, i, Started(l[i], start))  BY <1>1, <1>3, <1>4, <1>5 DEF Started
<1> QED BY <1>6, PutTurns DEF v

-----------------------------------------------------------------------------
(* Connecting *)

\* What is written has its type.
LEMMA UpdTyped ==
  /\ \A l \in [Links -> Link], i \in Links, x \in Link : Upd(l, i, x) \in [Links -> Link] /\ Upd(l, i, x)[i] = x
  /\ \A g \in [Mgr -> Manager], m \in Mgr, y \in Manager : Upd(g, m, y) \in [Mgr -> Manager] /\ Upd(g, m, y)[m] = y
  /\ \A f, i, j, x : i # j => Upd(f, i, x)[j] = f[j]
BY DEF Upd

\* The first of the links that are not used.
LEMMA NextThere ==
  ASSUME NEW w, CanConnect(w)
  PROVE  NextLink(w) \in Links /\ w.link[NextLink(w)].connector = "unused"
<1> DEFINE S == {i \in Links : w.link[i].connector = "unused"}
<1>1. S # {} /\ S \subseteq Nat  BY DEF CanConnect, Links
<1>2. IsWellFoundedOn(OpToRel(<, Nat), Nat)  BY NatLessThanWellFounded
<1>3. PICK i \in S : \A j \in S : ~(<<j, i>> \in OpToRel(<, Nat))  BY <1>1, <1>2, WFMin
<1>4. i \in Links /\ w.link[i].connector = "unused"  OBVIOUS
<1>5. \A j \in 1 .. i - 1 : w.link[j].connector # "unused"
  <2> SUFFICES ASSUME NEW j \in 1 .. i - 1, w.link[j].connector = "unused" PROVE FALSE
    OBVIOUS
  <2>1. j \in Links /\ j < i /\ j \in Nat /\ i \in Nat  BY <1>4, ConstantsAssumption DEF Links
  <2>2. j \in S  BY <2>1
  <2> QED BY <1>3, <2>1, <2>2 DEF OpToRel
<1> QED BY <1>4, <1>5 DEF NextLink

Owned(x, m) == [x EXCEPT !.owner = m]
Towards(y, k) == [y EXCEPT !.connector = k, !.phase = "connecting"]

\* ConnectL owns a link and goes on with it.
LEMMA ConnectLIs ==
  ASSUME NEW w, NEW m, NEW result, "link" \in DOMAIN w, "mgr" \in DOMAIN w
  PROVE  LET k == NextLink(w)
             v == PutMgr(PutLink(w, k, Owned(w.link[k], m)), m, Towards(w.mgr[m], k))
             u == DoConnect(v, k, result)
         IN ConnectL(w, m, result) =
              IF w.store = {} THEN DoPendingDNSLookup(v, k, result)
              ELSE IF result = "KErrNone" THEN u ELSE FailInPlace(u, k, result)
<1> DEFINE k == NextLink(w)
           v == PutMgr(PutLink(w, k, Owned(w.link[k], m)), m, Towards(w.mgr[m], k))
<1> HIDE DEF k
<1>1. [w EXCEPT !.link[k].owner = m, !.mgr[m].connector = k, !.mgr[m].phase = "connecting"] = v
  <2> DEFINE u == PutLink(w, k, Owned(w.link[k], m))
  <2>1. [w EXCEPT !.link[k].owner = m] = u  BY DEF PutLink, Owned
  <2>2. u.mgr = w.mgr /\ "mgr" \in DOMAIN u  BY DEF PutLink
  <2>3. [w EXCEPT !.link[k].owner = m, !.mgr[m].connector = k, !.mgr[m].phase = "connecting"]
          = [u EXCEPT !.mgr[m].connector = k, !.mgr[m].phase = "connecting"]
    BY <2>1
  <2> HIDE DEF u
  <2>4. [u EXCEPT !.mgr[m].connector = k, !.mgr[m].phase = "connecting"] = PutMgr(u, m, Towards(u.mgr[m], k))
    BY <2>2 DEF PutMgr, Towards
  <2> QED BY <2>2, <2>3, <2>4 DEF u
<1> HIDE DEF v
<1>2. ConnectL(w, m, result) =
        IF w.store = {} THEN DoPendingDNSLookup(v, k, result)
        ELSE IF result = "KErrNone" THEN DoConnect(v, k, result) ELSE FailInPlace(DoConnect(v, k, result), k, result)
  BY <1>1 DEF ConnectL, k
<1> QED BY <1>2 DEF v, k

\* What ConnectL may make of a world: v, by way of links e and managers f.
Connected(v, l, e, f, s, c, h, r, n, k, result) ==
  /\ k \in Links /\ l[k].connector = "unused"
  /\ e \in [Links -> Link]
  /\ s = {} => v = DoPendingDNSLookup(W(e, f, s, c, h, r, n), k, result)
  /\ s # {} /\ result = "KErrNone" => v = W(Upd(e, k, Started(e[k], result)), f, s, CacheAfter(e, c, k), h, r, n)
  /\ s # {} /\ result # "KErrNone" =>
       v = FailInPlace(W(Upd(e, k, Started(e[k], result)), f, s, CacheAfter(e, c, k), h, r, n), k, result)

\* ConnectL, on a world: by a look-up when nothing is in the store, otherwise at once.
LEMMA ConnectLTurns ==
  ASSUME NEW l \in [Links -> Link], NEW g, NEW s, NEW c, NEW h, NEW r, NEW n, NEW m \in Mgr, NEW result,
         CanConnect(W(l, g, s, c, h, r, n)), NEW k, k = NextLink(W(l, g, s, c, h, r, n)),
         NEW e, e = Upd(l, k, Owned(l[k], m)), NEW f, f = Upd(g, m, Towards(g[m], k))
  PROVE  Connected(ConnectL(W(l, g, s, c, h, r, n), m, result), l, e, f, s, c, h, r, n, k, result)
<1> DEFINE w == W(l, g, s, c, h, r, n)
           v == PutMgr(PutLink(w, k, Owned(l[k], m)), m, Towards(g[m], k))
           u == DoConnect(v, k, result)
<1>1. w.link = l /\ w.mgr = g /\ w.store = s /\ "link" \in DOMAIN w /\ "mgr" \in DOMAIN w  BY DEF W
<1>2. k \in Links /\ l[k].connector = "unused"  BY <1>1, NextThere
<1>3. e \in [Links -> Link]
  <2>1. l[k] \in Link  BY <1>2
  <2>2. \A x \in Link : Owned(x, m) \in Link  BY DEF Owned, Link
  <2> QED BY <1>2, <2>1, <2>2, UpdTyped
<1>4. v = W(e, f, s, c, h, r, n)
  <2>1. PutLink(w, k, Owned(l[k], m)) = W(e, g, s, c, h, r, n)  BY PutTurns
  <2> QED BY <2>1, PutTurns
<1>5. u = W(Upd(e, k, Started(e[k], result)), f, s, CacheAfter(e, c, k), h, r, n)
  BY <1>2, <1>3, <1>4, DoConnectTurns
<1> HIDE DEF w, v
<1>6. ConnectL(w, m, result) =
        IF s = {} THEN DoPendingDNSLookup(v, k, result)
        ELSE IF result = "KErrNone" THEN u ELSE FailInPlace(u, k, result)
  BY <1>1, ConnectLIs DEF w, v
<1> HIDE DEF u
<1>7. s = {} => ConnectL(w, m, result) = DoPendingDNSLookup(v, k, result)  BY <1>6
<1>8. s # {} /\ result = "KErrNone" => ConnectL(w, m, result) = u  BY <1>6
<1>9. s # {} /\ result # "KErrNone" => ConnectL(w, m, result) = FailInPlace(u, k, result)  BY <1>6
<1> QED BY <1>2, <1>3, <1>4, <1>5, <1>7, <1>8, <1>9 DEF w, Connected

\* What is known of a link on which somebody is connecting.
Attempt(x, m) == x \in Link /\ x.connector \in Live /\ x.connect # "none" /\ Quiet(x) /\ x.owner = m

\* The two managers without a connection are managers.
LEMMA ConnectingTyped == \A k \in Links : Connecting(k) \in Manager /\ NewManager \in Manager
<1>1. 0 \in 0 .. MaxConnects /\ 0 \in 0 .. MaxData /\ \A k \in Links : k \in 0 .. MaxConnects
  BY ConstantsAssumption DEF Links
<1> QED BY <1>1 DEF Connecting, NewManager, Manager

\* Somebody connects on a link, for the first time or still.
LEMMA AttemptTurn ==
  ASSUME NEW l, NEW g, NEW s, NEW c, NEW h, NEW r, NEW n, Good(l, g, s, c, h, r, n),
         NEW i \in Links, NEW m \in Mgr, NEW x, Attempt(x, m),
         (l[i].connector = "unused" /\ g[m] = NewManager) \/ (l[i].connector \in Live /\ l[i].owner = m),
         NEW d \in Seq(Links), NEW f \in SUBSET Links, Resolvers(Upd(l, i, x), d, f)
  PROVE  Good(Upd(l, i, x), Upd(g, m, Connecting(i)), s, d, f, r, n)
<1> DEFINE k == Upd(l, i, x)
           y == Connecting(i)
           p == Upd(g, m, y)
<1>1. /\ l \in [Links -> Link] /\ g \in [Mgr -> Manager] /\ n \in 0 .. MaxData /\ n \in Int
      /\ r # 0 => r \in s
  BY DEF Good, Typed
<1>2. Mine(i, m, l, g, s)  BY DEF Mine
<1>3. x \in Link /\ y \in Manager  BY ConnectingTyped DEF Attempt
<1>4. k[i] = x /\ p[m] = y
  <2>1. k[i] = x  BY <1>1, <1>3, UpdTyped, ZenonT(30)
  <2> HIDE DEF y
  <2>2. p[m] = y  BY <1>1, <1>3, UpdTyped
  <2> QED BY <2>1, <2>2
<1>5. i \notin s  BY LinkStands
<1>6. s = IF x.controller = "up" THEN s \cup {i} ELSE s \ {i}  BY <1>5 DEF Attempt, Quiet
<1>7. y.asked <= n  BY <1>1, NewFields
<1> HIDE DEF k, y, p
<1>8. Linked(i, k, p, r)
  <2>1. y.connector = i  BY NewFields DEF y
  <2> QED BY <1>4, <2>1 DEF Linked, Attempt
<1>9. Managed(m, k, p, s)
  <2>1. y.connector = i /\ y = Connecting(y.connector)  BY NewFields DEF y
  <2> QED BY <1>4, <2>1 DEF Managed, Attempt
<1>10. n <= n  BY <1>1
<1> QED BY <1>1, <1>2, <1>3, <1>6, <1>7, <1>8, <1>9, <1>10, GoodTurn DEF k, p, y

\* What the attempts do to a link.
LEMMA Attempts ==
  ASSUME NEW m \in Mgr, NEW x \in Link, Quiet(x), x.owner = m
  PROVE  /\ \A k \in Links : /\ Attempt(Asking(x, k), m)
                             /\ Asking(x, k).connector = "EConnecting" /\ Asking(x, k).resolver = k
         /\ \A state \in Live, code \in Codes \cup {"pending"} :
              /\ Attempt(Attempting(x, state, code), m)
              /\ Attempting(x, state, code).connector = state
         /\ \A code \in Codes :
              [x EXCEPT !.connect = code] \in Link /\ Quiet([x EXCEPT !.connect = code])
<1>1. \A k \in Links : k \in 0 .. MaxConnects  BY ConstantsAssumption DEF Links
<1>2. ASSUME NEW k \in Links
      PROVE  /\ Attempt(Asking(x, k), m)
             /\ Asking(x, k).connector = "EConnecting" /\ Asking(x, k).resolver = k
  BY <1>1 DEF Asking, Attempt, Link, Quiet, Live, ConnectStates, Requests
<1>3. ASSUME NEW state \in Live, NEW code \in Codes \cup {"pending"}
      PROVE  Attempt(Attempting(x, state, code), m) /\ Attempting(x, state, code).connector = state
  BY ZenonT(30) DEF Attempting, Attempt, Link, Quiet, Live, ConnectStates, Requests, Codes
<1>4. ASSUME NEW code \in Codes
      PROVE  [x EXCEPT !.connect = code] \in Link /\ Quiet([x EXCEPT !.connect = code])
  BY DEF Link, Quiet, Requests, Codes
<1> QED BY <1>2, <1>3, <1>4

\* A look-up keeps a world good.
LEMMA LookupGood ==
  ASSUME NEW l, NEW g, NEW s, NEW c, NEW h, NEW r, NEW n, Good(l, g, s, c, h, r, n),
         NEW i \in Links, NEW m \in Mgr, NEW x \in Link, Quiet(x), x.owner = m,
         x.connector = l[i].connector, x.connector \in {"unused", "EPendingDNSLookup"},
         (l[i].connector = "unused" /\ g[m] = NewManager) \/ (l[i].connector \in Live /\ l[i].owner = m),
         NEW open \in Codes
  PROVE  \E y, d, f :
           /\ DoPendingDNSLookup(W(Upd(l, i, x), Upd(g, m, Connecting(i)), s, c, h, r, n), i, open)
                = W(Upd(l, i, y), Upd(g, m, Connecting(i)), s, d, f, r, n)
           /\ Good(Upd(l, i, y), Upd(g, m, Connecting(i)), s, d, f, r, n)
<1> DEFINE e == Upd(l, i, x)
           p == Upd(g, m, Connecting(i))
           w == W(e, p, s, c, h, r, n)
           Result(y, d, f) == W(Upd(l, i, y), p, s, d, f, r, n)
<1>1. /\ l \in [Links -> Link] /\ c \in Seq(Links) /\ h \in SUBSET Links /\ h \subseteq Links
      /\ Resolvers(l, c, h) /\ l[i].connector \in {"unused", "EPendingDNSLookup"}
  BY DEF Good, Typed
<1>2. /\ e \in [Links -> Link] /\ e[i] = x /\ \A y : Upd(e, i, y) = Upd(l, i, y)
      /\ Resolvers(e, c, h) /\ e[i].connector \in {"unused", "EPendingDNSLookup"}
  <2>1. e \in [Links -> Link] /\ e[i] = x  BY <1>1, UpdTyped
  <2>2. \A y : Upd(e, i, y) = Upd(l, i, y)  BY Twice
  <2>3. Resolvers(e, c, h)  BY <1>1, ResolversStay
  <2> QED BY <2>1, <2>2, <2>3
<1>3. \/ /\ c # <<>>
         /\ DoPendingDNSLookup(w, i, open) = Result(Asking(x, Last(c)), Front(c), h)
      \/ \E k \in Links \ h : DoPendingDNSLookup(w, i, open) = Result(Asking(x, k), c, h \cup {k})
      \/ DoPendingDNSLookup(w, i, open) = Result(Attempting(x, "EPendingDNSLookup", open), c, h)
  <2> HIDE DEF e, p
  <2>1. LookedUp(DoPendingDNSLookup(W(e, p, s, c, h, r, n), i, open), e, p, s, c, h, r, n, i, open)
    BY <1>1, <1>2, LookupTurns
  <2>2. e[i] = x  BY <1>2
  <2>3. \A y : Upd(e, i, y) = Upd(l, i, y)  BY <1>2
  <2> QED BY <2>1, <2>2, <2>3 DEF LookedUp
<1>4. CASE c # <<>> /\ DoPendingDNSLookup(w, i, open) = Result(Asking(x, Last(c)), Front(c), h)
  <2> DEFINE y == Asking(x, Last(c))
  <2>1. Last(c) \in Links /\ Front(c) \in Seq(Links)  BY <1>1, <1>4, FrontAndLast DEF Resolvers
  <2>2. Attempt(y, m) /\ y.connector = "EConnecting" /\ y.resolver = Last(c) /\ y \in Link
    BY <2>1, Attempts DEF Attempt
  <2> HIDE DEF y
  <2>3. Resolvers(Upd(l, i, y), Front(c), h)  BY <1>1, <1>4, <2>2, ResolverFromCache
  <2>4. Good(Upd(l, i, y), p, s, Front(c), h, r, n)  BY <1>1, <2>1, <2>2, <2>3, AttemptTurn
  <2>5. DoPendingDNSLookup(w, i, open) = Result(y, Front(c), h)  BY <1>4 DEF y
  <2> HIDE DEF w, p
  <2> QED BY <2>4, <2>5 DEF w, p
<1>5. CASE \E k \in Links \ h : DoPendingDNSLookup(w, i, open) = Result(Asking(x, k), c, h \cup {k})
  <2>1. PICK k \in Links \ h : DoPendingDNSLookup(w, i, open) = Result(Asking(x, k), c, h \cup {k})  BY <1>5
  <2> DEFINE y == Asking(x, k)
  <2>2. Attempt(y, m) /\ y.connector = "EConnecting" /\ y.resolver = k /\ y \in Link
    BY Attempts DEF Attempt
  <2> HIDE DEF y
  <2>3. Resolvers(Upd(l, i, y), c, h \cup {k})  BY <1>1, <2>2, ResolverOpened
  <2>4. h \cup {k} \in SUBSET Links  BY <1>1
  <2>5. Good(Upd(l, i, y), p, s, c, h \cup {k}, r, n)  BY <1>1, <2>2, <2>3, <2>4, AttemptTurn
  <2>6. DoPendingDNSLookup(w, i, open) = Result(y, c, h \cup {k})  BY <2>1 DEF y
  <2> HIDE DEF w, p
  <2> QED BY <2>5, <2>6 DEF w, p
<1>6. CASE DoPendingDNSLookup(w, i, open) = Result(Attempting(x, "EPendingDNSLookup", open), c, h)
  <2> DEFINE y == Attempting(x, "EPendingDNSLookup", open)
  <2>1. Attempt(y, m) /\ y.connector = "EPendingDNSLookup" /\ y \in Link
    BY Attempts DEF Attempt, Live
  <2> HIDE DEF y
  <2>2. Resolvers(Upd(l, i, y), c, h)  BY <1>1, <2>1, ResolversStay
  <2>3. Good(Upd(l, i, y), p, s, c, h, r, n)  BY <1>1, <2>1, <2>2, AttemptTurn
  <2>4. DoPendingDNSLookup(w, i, open) = Result(y, c, h)  BY <1>6 DEF y
  <2> HIDE DEF w, p
  <2> QED BY <2>3, <2>4 DEF w, p
<1> QED BY <1>3, <1>4, <1>5, <1>6

\* A new link of a manager.
LEMMA NewOwned ==
  ASSUME NEW m \in Mgr
  PROVE  /\ Owned(NewLink, m) \in Link /\ Quiet(Owned(NewLink, m)) /\ Owned(NewLink, m).owner = m
         /\ Owned(NewLink, m).connector = "unused" /\ Owned(NewLink, m).resolver = 0
         /\ \A k : Towards(NewManager, k) = Connecting(k)
<1>1. 0 \in 0 .. MaxConnects /\ 0 \in 0 .. MaxData  BY ConstantsAssumption
<1>2. Owned(NewLink, m) \in Link
  BY <1>1 DEF Owned, NewLink, Link, ConnectStates, Requests, InputStates, OutputStates
<1> QED BY <1>2 DEF Owned, NewLink, Quiet, Towards, NewManager, Connecting

\* A manager that has nothing connects.
LEMMA ConnectGood ==
  ASSUME NEW l, NEW g, NEW s, NEW c, NEW h, NEW r, NEW n, Good(l, g, s, c, h, r, n),
         NEW m \in Mgr, g[m] = NewManager, CanConnect(W(l, g, s, c, h, r, n)), NEW result \in Codes
  PROVE  \E k \in Links : \E y, d, f :
           /\ ConnectL(W(l, g, s, c, h, r, n), m, result)
                = W(Upd(l, k, y), Upd(g, m, Connecting(k)), s, d, f, r, n)
           /\ Good(Upd(l, k, y), Upd(g, m, Connecting(k)), s, d, f, r, n)
<1> DEFINE w == W(l, g, s, c, h, r, n)
           k == NextLink(w)
           x == Owned(l[k], m)
           e == Upd(l, k, x)
           p == Upd(g, m, Towards(g[m], k))
<1>1. /\ l \in [Links -> Link] /\ c \in Seq(Links) /\ h \in SUBSET Links /\ h \subseteq Links
      /\ Resolvers(l, c, h)
  BY DEF Good, Typed
<1> HIDE DEF k
<1>2. /\ k \in Links /\ l[k].connector = "unused"
      /\ e \in [Links -> Link]
      /\ s = {} => ConnectL(w, m, result) = DoPendingDNSLookup(W(e, p, s, c, h, r, n), k, result)
      /\ s # {} /\ result = "KErrNone" =>
           ConnectL(w, m, result) = W(Upd(e, k, Started(e[k], result)), p, s, CacheAfter(e, c, k), h, r, n)
      /\ s # {} /\ result # "KErrNone" =>
           ConnectL(w, m, result)
             = FailInPlace(W(Upd(e, k, Started(e[k], result)), p, s, CacheAfter(e, c, k), h, r, n), k, result)
  <2>1. k = NextLink(W(l, g, s, c, h, r, n))  BY DEF k
  <2>2. l \in [Links -> Link]  BY <1>1
  <2>3. e = Upd(l, k, Owned(l[k], m)) /\ p = Upd(g, m, Towards(g[m], k))  OBVIOUS
  <2> HIDE DEF e, p
  <2>4. Connected(ConnectL(W(l, g, s, c, h, r, n), m, result), l, e, p, s, c, h, r, n, k, result)
    BY <2>1, <2>2, <2>3, ConnectLTurns
  <2> QED BY <2>4 DEF Connected
<1>3. l[k] = NewLink  BY <1>2, LinkStands
<1>4. x \in Link /\ Quiet(x) /\ x.owner = m /\ x.connector = "unused" /\ x.resolver = 0
      /\ p = Upd(g, m, Connecting(k))
  BY <1>3, NewOwned
<1>5. e[k] = x /\ \A y : Upd(e, k, y) = Upd(l, k, y)
  <2>1. e[k] = x  BY <1>1, <1>2, <1>4, UpdTyped
  <2> QED BY <2>1, Twice
<1> HIDE DEF w, x, e, p
<1>6. CacheAfter(e, c, k) = c  BY <1>4, <1>5 DEF CacheAfter
<1>7. CASE s = {}
  <2>1. \E y, d, f :
           /\ DoPendingDNSLookup(W(Upd(l, k, x), Upd(g, m, Connecting(k)), s, c, h, r, n), k, result)
                = W(Upd(l, k, y), Upd(g, m, Connecting(k)), s, d, f, r, n)
           /\ Good(Upd(l, k, y), Upd(g, m, Connecting(k)), s, d, f, r, n)
    BY <1>2, <1>4, LookupGood
  <2> QED BY <1>2, <1>4, <1>7, <2>1 DEF w, e
<1>8. ASSUME NEW y, Attempt(y, m), y.connector \in {"EConnected", "EPendingDNSLookup"}
      PROVE  Good(Upd(l, k, y), Upd(g, m, Connecting(k)), s, c, h, r, n)
  <2>1. y \in Link /\ y.connector # "EConnecting"  BY <1>8 DEF Attempt
  <2>2. Resolvers(Upd(l, k, y), c, h)  BY <1>1, <1>2, <2>1, ResolversStay
  <2> QED BY <1>1, <1>2, <1>8, <2>1, <2>2, AttemptTurn
<1>9. CASE s # {} /\ result = "KErrNone"
  <2> DEFINE y == Attempting(x, "EConnected", "pending")
  <2>1. Attempt(y, m) /\ y.connector = "EConnected"  BY <1>4, Attempts DEF Live
  <2> HIDE DEF y
  <2>2. Started(x, result) = y  BY <1>9 DEF Started, y
  <2>3. ConnectL(w, m, result) = W(Upd(l, k, y), Upd(g, m, Connecting(k)), s, c, h, r, n)
    BY <1>2, <1>4, <1>5, <1>6, <1>9, <2>2
  <2>4. Good(Upd(l, k, y), Upd(g, m, Connecting(k)), s, c, h, r, n)  BY <1>8, <2>1
  <2> QED BY <1>2, <2>3, <2>4 DEF w
<1>10. CASE s # {} /\ result # "KErrNone"
  <2> DEFINE z == [x EXCEPT !.connect = result]
             y == Attempting(z, "EPendingDNSLookup", result)
             q == Upd(l, k, z)
  <2>1. z \in Link /\ Quiet(z) /\ z.owner = m  BY <1>4, Attempts DEF Link
  <2>2. Started(x, result) = z  BY <1>10 DEF Started
  <2> HIDE DEF z
  <2>3. Attempt(y, m) /\ y.connector = "EPendingDNSLookup"  BY <2>1, Attempts DEF Live
  <2>4. q \in [Links -> Link] /\ q[k] = z /\ Upd(q, k, y) = Upd(l, k, y)
    <3>1. q \in [Links -> Link] /\ q[k] = z  BY <1>1, <1>2, <2>1, UpdTyped, ZenonT(30)
    <3> HIDE DEF y
    <3> QED BY <3>1, Twice
  <2>5. ConnectL(w, m, result) = FailInPlace(W(q, p, s, c, h, r, n), k, result)
    BY <1>2, <1>5, <1>6, <1>10, <2>2
  <2> HIDE DEF q
  <2>6. ConnectL(w, m, result) = W(Upd(l, k, y), p, s, c, h, r, n)
    BY <1>2, <2>4, <2>5, FailInPlaceTurns
  <2> HIDE DEF y
  <2>7. Good(Upd(l, k, y), Upd(g, m, Connecting(k)), s, c, h, r, n)  BY <1>8, <2>3
  <2> QED BY <1>2, <1>4, <2>6, <2>7 DEF w
<1> QED BY <1>7, <1>9, <1>10

-----------------------------------------------------------------------------
(* The end of an attempt *)

Idle(y) == [NewManager EXCEPT !.in = y.in, !.out = y.out]
Unconnected(y) == [y EXCEPT !.connector = 0]
Unconnect(w, m) == [w EXCEPT !.mgr[m].connector = 0]
Request(w, i, code) == [w EXCEPT !.link[i].connect = code]
Requested(x, code) == [x EXCEPT !.connect = code]

\* What SetIdleState makes of a manager without streams.
LEMMA IdleManager ==
  /\ \A y : y.in = 0 /\ y.out = 0 => Idle(y) = NewManager
  /\ \A y \in Manager : /\ Unconnected(y).in = y.in /\ Unconnected(y).out = y.out
                        /\ Unconnected(y) \in Manager
<1>1. 0 \in 0 .. MaxConnects  BY ConstantsAssumption
<1>2. ASSUME NEW y, y.in = 0, y.out = 0  PROVE Idle(y) = NewManager
  <2>1. Idle(y) = [NewManager EXCEPT !.in = 0, !.out = 0]  BY <1>2 DEF Idle
  <2> QED BY <2>1 DEF NewManager
<1>3. \A y \in Manager : /\ Unconnected(y).in = y.in /\ Unconnected(y).out = y.out
                         /\ Unconnected(y) \in Manager
  BY <1>1 DEF Unconnected, Manager
<1> QED BY <1>2, <1>3

\* SetIdleState, as a world.
LEMMA SetIdleTurns ==
  ASSUME NEW l, NEW g, NEW s, NEW c, NEW h, NEW r, NEW n, NEW m
  PROVE  SetIdleState(W(l, g, s, c, h, r, n), m) = W(l, Upd(g, m, Idle(g[m])), s, c, h, r, n)
<1> DEFINE w == W(l, g, s, c, h, r, n)
<1>1. w.mgr = g  BY DEF W
<1>2. SetIdleState(w, m) = PutMgr(w, m, Idle(w.mgr[m]))  BY DEF SetIdleState, PutMgr, Idle
<1> QED BY <1>1, <1>2, PutTurns

\* The manager forgets its connector, as a world.
LEMMA UnconnectedTurns ==
  ASSUME NEW l, NEW g, NEW s, NEW c, NEW h, NEW r, NEW n, NEW m
  PROVE  Unconnect(W(l, g, s, c, h, r, n), m)
           = W(l, Upd(g, m, Unconnected(g[m])), s, c, h, r, n)
<1> DEFINE w == W(l, g, s, c, h, r, n)
<1>1. w.mgr = g  BY DEF W
<1>2. Unconnect(w, m) = PutMgr(w, m, Unconnected(w.mgr[m]))
  BY DEF PutMgr, Unconnected, Unconnect, W
<1> QED BY <1>1, <1>2, PutTurns

\* The status of a connector is written, as a world.
LEMMA RequestTurns ==
  ASSUME NEW l, NEW g, NEW s, NEW c, NEW h, NEW r, NEW n, NEW i, NEW code
  PROVE  Request(W(l, g, s, c, h, r, n), i, code)
           = W(Upd(l, i, Requested(l[i], code)), g, s, c, h, r, n)
<1> DEFINE w == W(l, g, s, c, h, r, n)
<1>1. w.link = l  BY DEF W
<1>2. Request(w, i, code) = PutLink(w, i, Requested(w.link[i], code))
  BY DEF PutLink, Requested, Request, W
<1> QED BY <1>1, <1>2, PutTurns

\* The manager whose attempt is over has nothing.
LEMMA ErrorTurns ==
  ASSUME NEW l, NEW g \in [Mgr -> Manager], NEW s, NEW c, NEW h, NEW r, NEW n, NEW m \in Mgr,
         g[m].in = 0, g[m].out = 0
  PROVE  /\ HandleConnectError(W(l, g, s, c, h, r, n), m) = W(l, Upd(g, m, NewManager), s, c, h, r, n)
         /\ SetIdleState(Unconnect(W(l, g, s, c, h, r, n), m), m)
              = W(l, Upd(g, m, NewManager), s, c, h, r, n)
<1> DEFINE y == Unconnected(g[m])
           p == Upd(g, m, y)
<1>1. y \in Manager /\ Idle(y) = NewManager  BY IdleManager
<1> HIDE DEF y
<1>2. p[m] = y /\ Upd(p, m, NewManager) = Upd(g, m, NewManager)  BY <1>1, UpdTyped, Twice
<1>3. Unconnect(W(l, g, s, c, h, r, n), m) = W(l, p, s, c, h, r, n)
  BY UnconnectedTurns DEF y
<1> HIDE DEF p
<1>4. SetIdleState(W(l, p, s, c, h, r, n), m) = W(l, Upd(g, m, NewManager), s, c, h, r, n)
  BY <1>1, <1>2, SetIdleTurns
<1>5. \A w : HandleConnectError(w, m) = SetIdleState(Unconnect(w, m), m)  BY DEF HandleConnectError, Unconnect
<1> QED BY <1>3, <1>4, <1>5

\* The end of an attempt keeps a world good.
LEMMA FinishGood ==
  ASSUME NEW l, NEW g, NEW s, NEW c, NEW h, NEW r, NEW n, Good(l, g, s, c, h, r, n),
         NEW i \in Links, NEW m \in Mgr, l[i].connector \in Live, l[i].owner = m,
         NEW k, k = Upd(l, i, Finished(l[i])), NEW d \in Seq(Links), Resolvers(k, d, h)
  PROVE  Good(k, Upd(g, m, NewManager), s, CacheLeft(k, s, d), HandlesLeft(k, s, d, h), r, n)
<1> DEFINE x == Finished(l[i])
           y == NewManager
           p == Upd(g, m, y)
           a == CacheLeft(k, s, d)
           b == HandlesLeft(k, s, d, h)
<1>1. /\ l \in [Links -> Link] /\ g \in [Mgr -> Manager] /\ n \in 0 .. MaxData /\ n \in Int
      /\ h \in SUBSET Links
      /\ r # 0 => r \in s
  BY DEF Good, Typed
<1>2. Mine(i, m, l, g, s) /\ i \notin s /\ Quiet(l[i]) /\ l[i] \in Link  BY LinkStands DEF Mine
<1>3. /\ x \in Link /\ x.connector = "gone" /\ x.connect = "none" /\ Quiet(x)
  <2>1. x \in Link  BY <1>2, FinishedLink
  <2> QED BY <1>2, <2>1 DEF Finished, Quiet, Link
<1>4. y \in Manager  BY ConnectingTyped
<1>13. k = Upd(l, i, x)  OBVIOUS
<1> HIDE DEF x
<1>5. k \in [Links -> Link] /\ k[i] = x
  <2>1. Upd(l, i, x) \in [Links -> Link] /\ Upd(l, i, x)[i] = x  BY <1>1, <1>3, UpdTyped, ZenonT(30)
  <2> QED BY <1>13, <2>1
<1>6. a \in Seq(Links) /\ b \in SUBSET Links /\ Resolvers(k, a, b)
  <2>1. k \in [Links -> Link] /\ h \in SUBSET Links  BY <1>1, <1>5
  <2> QED BY <2>1, ResolversEmptied
<1>7. s = IF x.controller = "up" THEN s \cup {i} ELSE s \ {i}  BY <1>2, <1>3 DEF Quiet
<1>8. p[m] = y  BY <1>1, <1>4, UpdTyped
<1>9. y.asked <= n  BY <1>1, NewFields
<1> HIDE DEF x, p, a, b
<1>10. Linked(i, k, p, r)  BY <1>3, <1>5 DEF Linked
<1>11. Managed(m, k, p, s)  BY <1>8 DEF Managed
<1>12. n <= n  BY <1>1
<1> HIDE DEF y
<1> QED BY <1>1, <1>2, <1>3, <1>4, <1>6, <1>7, <1>9, <1>10, <1>11, <1>12, <1>13, GoodTurn DEF a, b, p, y

-----------------------------------------------------------------------------
(* What a step is: a good world follows, and one manager does what HttpStreams
   promises it *)

SameCounts(y, z) ==
  z.asked = y.asked /\ z.confirmed = y.confirmed /\ z.got = y.got /\ z.holds = y.holds

Promised(y, z) ==
  \/ SameCounts(y, z) /\ z.phase = y.phase
  \/ SameCounts(y, z) /\ y.phase = "idle" /\ z.phase = "connecting"
  \/ SameCounts(y, z) /\ y.phase = "connecting" /\ z.phase \in {"upgrading", "connected"}
  \/ SameCounts(y, z) /\ y.phase = "upgrading" /\ z.phase = "connected"
  \/ /\ z.phase = y.phase /\ y.phase = "connected" /\ y.asked = y.confirmed /\ y.asked < MaxData
     /\ z.asked = y.asked + 1 /\ z.confirmed = y.confirmed /\ z.got = y.got /\ z.holds = y.holds
  \/ /\ z.phase = y.phase /\ y.confirmed < y.asked
     /\ z.asked = y.asked /\ z.confirmed = y.confirmed + 1 /\ z.got = y.got /\ z.holds = y.holds
  \/ /\ z.phase = y.phase /\ y.got < y.confirmed
     /\ z.asked = y.asked /\ z.confirmed = y.confirmed /\ z.got = y.got + 1 /\ z.holds \in BOOLEAN
  \/ /\ z.phase = y.phase /\ y.holds
     /\ z.asked = y.asked /\ z.confirmed = y.confirmed /\ z.got = y.got /\ z.holds = FALSE
  \/ y.phase # "idle" /\ (z = NewManager \/ \E k \in Links : z = Connecting(k))

\* The world w is good, and follows that of the managers g.
Follows(w, g) ==
  \E l, m, y, s, c, h, r, n :
    /\ w = W(l, Upd(g, m, y), s, c, h, r, n) /\ m \in Mgr /\ y \in Manager
    /\ Good(l, Upd(g, m, y), s, c, h, r, n) /\ Promised(g[m], y)

\* To follow, a world is good and the manager keeps the promise.
LEMMA FollowsIs ==
  ASSUME NEW l, NEW g, NEW m \in Mgr, NEW y \in Manager, NEW s, NEW c, NEW h, NEW r, NEW n,
         Good(l, Upd(g, m, y), s, c, h, r, n), Promised(g[m], y)
  PROVE  Follows(W(l, Upd(g, m, y), s, c, h, r, n), g)
BY DEF Follows

\* ... and when the manager only keeps what it has.
LEMMA Keeps ==
  ASSUME NEW l, NEW g \in [Mgr -> Manager], NEW m \in Mgr, NEW s, NEW c, NEW h, NEW r, NEW n,
         Good(l, g, s, c, h, r, n)
  PROVE  Follows(W(l, g, s, c, h, r, n), g)
<1>1. Upd(g, m, g[m]) = g  BY DEF Upd
<1>2. Promised(g[m], g[m])  BY DEF Promised, SameCounts
<1>3. g[m] \in Manager  OBVIOUS
<1> QED BY <1>1, <1>2, <1>3, FollowsIs

\* The invariant after such a step.
Kept == \E m \in Mgr, y \in Manager : mgr' = Upd(mgr, m, y) /\ Promised(mgr[m], y)

\* The next state is a good world that follows.
LEMMA StepEnds ==
  ASSUME NEW w, Follows(w, mgr), Becomes(w)
  PROVE  IInv' /\ Kept
<1>1. PICK l, m, y, s, c, h, r, n :
        /\ w = W(l, Upd(mgr, m, y), s, c, h, r, n) /\ m \in Mgr /\ y \in Manager
        /\ Good(l, Upd(mgr, m, y), s, c, h, r, n) /\ Promised(mgr[m], y)
  BY DEF Follows
<1> DEFINE g == Upd(mgr, m, y)
<1>2. Becomes(W(l, g, s, c, h, r, n))  BY <1>1
<1> HIDE DEF g
<1>3. link' = l /\ mgr' = g /\ store' = s /\ cache' = c /\ handles' = h /\ reading' = r /\ sends' = n /\ panic' = {}
  BY <1>2, WorldEnds
<1>4. Good(l, g, s, c, h, r, n)  BY <1>1 DEF g
<1>5. Good(link', mgr', store', cache', handles', reading', sends') /\ panic' = {}  BY <1>3, <1>4
<1>6. IInv'  BY <1>5 DEF IInv
<1>7. mgr' = Upd(mgr, m, y)  BY <1>3 DEF g
<1> QED BY <1>1, <1>6, <1>7 DEF Kept

-----------------------------------------------------------------------------
(* Connect, StopConnect *)

\* CHttpConnectionManager asks for a connection.
LEMMA ConnectKeeps ==
  ASSUME IInv, NEW m \in Mgr, NEW result \in Codes, Connect(m, result)
  PROVE  IInv' /\ Kept
<1> DEFINE w == W(link, mgr, store, cache, handles, reading, sends)
<1>1. world = w /\ Good(link, mgr, store, cache, handles, reading, sends)  BY WorldBegins DEF IInv
<1>2. mgr[m] = NewManager  BY <1>1, ManagerStands DEF Connect
<1>3. CanConnect(w) /\ Becomes(ConnectL(w, m, result))  BY <1>1 DEF Connect
<1>4. PICK k \in Links : \E y, d, f :
           /\ ConnectL(w, m, result) = W(Upd(link, k, y), Upd(mgr, m, Connecting(k)), store, d, f, reading, sends)
           /\ Good(Upd(link, k, y), Upd(mgr, m, Connecting(k)), store, d, f, reading, sends)
  BY <1>1, <1>2, <1>3, ConnectGood
<1>5. PICK y, d, f :
           /\ ConnectL(w, m, result) = W(Upd(link, k, y), Upd(mgr, m, Connecting(k)), store, d, f, reading, sends)
           /\ Good(Upd(link, k, y), Upd(mgr, m, Connecting(k)), store, d, f, reading, sends)
  BY <1>4
<1>6. Connecting(k) \in Manager /\ Promised(mgr[m], Connecting(k))
  BY <1>2, NewFields, ConnectingTyped DEF Promised, SameCounts
<1> HIDE DEF w
<1>7. Follows(ConnectL(w, m, result), mgr)  BY <1>5, <1>6, FollowsIs
<1> QED BY <1>3, <1>7, StepEnds

\* CancelConnect, as a world.
LEMMA CancelConnectTurns ==
  ASSUME NEW l \in [Links -> Link], NEW g, NEW s, NEW c, NEW h, NEW r, NEW n, NEW i \in Links,
         l[i].connect # "none"
  PROVE  CancelConnect(W(l, g, s, c, h, r, n), i)
           = W(Upd(l, i, Requested(l[i], "none")), g, s,
               IF l[i].connector = "EConnecting" THEN Append(c, l[i].resolver) ELSE c, h, r, n)
<1> DEFINE w == W(l, g, s, c, h, r, n)
           k == Upd(l, i, Requested(l[i], "none"))
           v == W(k, g, s, c, h, r, n)
<1>1. w.link = l  BY DEF W
<1>2. Request(w, i, "none") = v  BY RequestTurns
<1>3. k[i].resolver = l[i].resolver  BY DEF Upd, Requested, Link
<1>4. AddToHostResolverCache(v, i) = W(k, g, s, Append(c, l[i].resolver), h, r, n)  BY <1>3, AddTurns
<1>5. CancelConnect(w, i) = IF l[i].connector = "EConnecting" THEN AddToHostResolverCache(v, i) ELSE v
  BY <1>1, <1>2 DEF CancelConnect, Request
<1> HIDE DEF w, v, k
<1>6. CASE l[i].connector = "EConnecting"  BY <1>4, <1>5, <1>6 DEF w, k
<1>7. CASE l[i].connector # "EConnecting"  BY <1>5, <1>7 DEF w, k, v
<1> QED BY <1>6, <1>7

\* What a connector had asked for is not left when it is gone.
LEMMA FinishedSame ==
  \A x, code : Finished(Requested(x, code)) = Finished(x)
BY DEF Finished, Requested

\* A manager gives up its attempt to connect.
LEMMA StopConnectKeeps ==
  ASSUME IInv, NEW m \in Mgr, StopConnect(m)
  PROVE  IInv' /\ Kept
<1> DEFINE i == mgr[m].connector
           w == W(link, mgr, store, cache, handles, reading, sends)
           x == Requested(link[i], "none")
           e == Upd(link, i, x)
           k == Upd(link, i, Finished(link[i]))
           d == IF link[i].connector = "EConnecting" THEN Append(cache, link[i].resolver) ELSE cache
           p == Upd(mgr, m, NewManager)
           a == CacheLeft(k, store, d)
           b == HandlesLeft(k, store, d, handles)
<1>1. world = w /\ Good(link, mgr, store, cache, handles, reading, sends)  BY WorldBegins DEF IInv
<1>2. /\ link \in [Links -> Link] /\ mgr \in [Mgr -> Manager] /\ cache \in Seq(Links) /\ handles \in SUBSET Links
      /\ Resolvers(link, cache, handles)
  BY <1>1 DEF Good, Typed
<1>3. mgr[m].phase = "connecting" /\ Becomes(SetIdleState(Unconnect(Suicide(CancelConnect(w, i), i), m), m))
  BY <1>1 DEF StopConnect, Unconnect
<1>4. i \in Links /\ link[i].connector \in Live /\ link[i].owner = m /\ mgr[m] = Connecting(i)
  BY <1>1, <1>3, ManagerStands
<1> HIDE DEF i
<1>5. link[i].connect # "none" /\ link[i] \in Link /\ Quiet(link[i])  BY <1>1, <1>4, LinkStands
<1>6. CancelConnect(w, i) = W(e, mgr, store, d, handles, reading, sends)
  BY <1>2, <1>4, <1>5, CancelConnectTurns
<1>7. x \in Link /\ Finished(x) = Finished(link[i])
  <2>1. x \in Link  BY <1>5 DEF Requested, Link, Requests
  <2> QED BY <2>1, FinishedSame
<1>8. Finished(link[i]) \in Link /\ Finished(link[i]).connector = "gone"
  <2>1. Finished(link[i]) \in Link  BY <1>5, FinishedLink
  <2> QED BY <1>5, <2>1 DEF Finished, Link
<1>9. d \in Seq(Links) /\ Resolvers(k, d, handles)
  <2> DEFINE z == Finished(link[i])
  <2>1. z \in Link /\ z.connector = "gone"  BY <1>8
  <2> HIDE DEF z
  <2>2. CASE link[i].connector = "EConnecting"
    <3>1. Resolvers(Upd(link, i, z), Append(cache, link[i].resolver), handles) /\ Append(cache, link[i].resolver) \in Seq(Links)
      BY <1>2, <1>4, <2>1, <2>2, ResolverReturned
    <3> QED BY <2>2, <3>1 DEF z
  <2>3. CASE link[i].connector # "EConnecting"
    <3>1. Resolvers(Upd(link, i, z), cache, handles)
      BY <1>2, <1>4, <2>1, <2>3, ResolversStay
    <3> QED BY <1>2, <2>3, <3>1 DEF z
  <2> QED BY <2>2, <2>3
<1> HIDE DEF x, d
<1>10. e \in [Links -> Link] /\ e[i] = x
  <2>1. link \in [Links -> Link] /\ i \in Links /\ x \in Link  BY <1>2, <1>4, <1>7
  <2> QED BY <2>1, UpdTyped
<1>11. k = Upd(e, i, Finished(e[i]))  BY <1>7, <1>10, Twice
<1> HIDE DEF e, w
<1>12. Suicide(CancelConnect(w, i), i) = W(k, mgr, store, a, b, reading, sends)
  BY <1>4, <1>6, <1>10, <1>11, SuicideTurns
<1>13. Good(k, p, store, a, b, reading, sends)
  BY <1>1, <1>4, <1>9, FinishGood
<1>14. SetIdleState(Unconnect(W(k, mgr, store, a, b, reading, sends), m), m) = W(k, p, store, a, b, reading, sends)
  <2>1. mgr[m].in = 0 /\ mgr[m].out = 0  BY <1>4, NewFields
  <2> HIDE DEF k, a, b
  <2> QED BY <1>2, <2>1, ErrorTurns
<1> HIDE DEF k, a, b
<1>15. Follows(W(k, p, store, a, b, reading, sends), mgr)
  <2>1. NewManager \in Manager /\ Promised(mgr[m], NewManager)
    BY <1>3, <1>4, ConnectingTyped DEF Promised
  <2> QED BY <1>13, <2>1, FollowsIs
<1> QED BY <1>3, <1>12, <1>14, <1>15, StepEnds

-----------------------------------------------------------------------------
(* The connectors *)

\* An attempt fails.
LEMMA FailsFollow ==
  ASSUME NEW l, NEW g, NEW s, NEW c, NEW h, NEW r, NEW n, Good(l, g, s, c, h, r, n),
         NEW i \in Links, NEW m \in Mgr, l[i].connector \in Live, l[i].owner = m,
         NEW x \in Link, Finished(x) = Finished(l[i]), NEW d \in Seq(Links),
         Resolvers(Upd(l, i, Finished(l[i])), d, h)
  PROVE  Follows(Suicide(HandleConnectError(W(Upd(l, i, x), g, s, d, h, r, n), m), i), g)
<1> DEFINE e == Upd(l, i, x)
           k == Upd(l, i, Finished(l[i]))
           p == Upd(g, m, NewManager)
           a == CacheLeft(k, s, d)
           b == HandlesLeft(k, s, d, h)
<1>1. l \in [Links -> Link] /\ g \in [Mgr -> Manager]  BY DEF Good, Typed
<1>2. g[m] = Connecting(i)  BY LinkStands
<1>3. e \in [Links -> Link] /\ e[i] = x
  <2>1. l \in [Links -> Link]  BY <1>1
  <2> QED BY <2>1, UpdTyped
<1>4. k = Upd(e, i, Finished(e[i]))  BY <1>3, Twice
<1>5. Good(k, p, s, a, b, r, n)  BY FinishGood
<1> HIDE DEF e
<1>6. HandleConnectError(W(e, g, s, d, h, r, n), m) = W(e, p, s, d, h, r, n)
  <2>1. g[m].in = 0 /\ g[m].out = 0  BY <1>2, NewFields
  <2> QED BY <1>1, <2>1, ErrorTurns
<1>7. Suicide(W(e, p, s, d, h, r, n), i) = W(k, p, s, a, b, r, n)
  <2> HIDE DEF p
  <2> QED BY <1>3, <1>4, SuicideTurns
<1> HIDE DEF k, a, b
<1>8. NewManager \in Manager /\ Promised(g[m], NewManager)
  BY <1>2, NewFields, ConnectingTyped DEF Promised
<1>9. Follows(W(k, p, s, a, b, r, n), g)  BY <1>5, <1>8, FollowsIs
<1> QED BY <1>6, <1>7, <1>9 DEF e

\* The two streams of a new connection.
Made(x) == [x EXCEPT !.controller = "up", !.input = "ERead", !.read = "KErrNone", !.output = "EPendingSend"]
Bound(y, i) == [y EXCEPT !.connector = 0, !.in = i, !.out = i]
Suspended(x) ==
  [x EXCEPT !.read = "none", !.input = IF x.input = "EReceivedData" THEN "ERead" ELSE x.input, !.suspended = TRUE]
Handshaking(x) == [x EXCEPT !.output = "EStartSecureHandshake", !.write = "KErrNone"]
Phased(y, p) == [y EXCEPT !.phase = p]
SetPhase(w, m, p) == [w EXCEPT !.mgr[m].phase = p]

\* The phase of a manager is written, as a world.
LEMMA PhaseTurns ==
  ASSUME NEW l, NEW g, NEW s, NEW c, NEW h, NEW r, NEW n, NEW m, NEW p
  PROVE  SetPhase(W(l, g, s, c, h, r, n), m, p) = W(l, Upd(g, m, Phased(g[m], p)), s, c, h, r, n)
<1> DEFINE w == W(l, g, s, c, h, r, n)
<1>1. w.mgr = g  BY DEF W
<1>2. SetPhase(w, m, p) = PutMgr(w, m, Phased(w.mgr[m], p))  BY DEF PutMgr, SetPhase, Phased, W
<1> QED BY <1>1, <1>2, PutTurns

\* Suspend, as a world, with no assertion that fails.
LEMMA SuspendTurns ==
  ASSUME NEW l \in [Links -> Link], NEW g, NEW s, NEW c, NEW h, NEW r, NEW n, NEW i \in Links, ~l[i].suspended
  PROVE  Suspend(W(l, g, s, c, h, r, n), i) = W(Upd(l, i, Suspended(l[i])), g, s, c, h, r, n)
<1> DEFINE w == W(l, g, s, c, h, r, n)
           x == [l[i] EXCEPT !.read = "none"]
           v == W(Upd(l, i, x), g, s, c, h, r, n)
<1>1. w.link = l  BY DEF W
<1>2. CancelRead(w, i) = PutLink(w, i, [w.link[i] EXCEPT !.read = "none"])  BY DEF CancelRead, PutLink
<1>3. CancelRead(w, i) = v  BY <1>1, <1>2, PutTurns
<1>4. v.link = Upd(l, i, x) /\ v.link[i] = x /\ x.input = l[i].input  BY DEF W, Upd, Link
<1> HIDE DEF x
<1>5. Suspend(w, i) = [v EXCEPT !.link[i].input = IF v.link[i].input = "EReceivedData" THEN "ERead" ELSE v.link[i].input,
                                !.link[i].suspended = TRUE]
  <2>1. Check(CancelRead(w, i), ~w.link[i].suspended, "EInputStreamAlreadySuspended") = v
    BY <1>1, <1>3, CheckTurns
  <2> HIDE DEF v, w
  <2> QED BY <2>1 DEF Suspend
<1>6. [v EXCEPT !.link[i].input = IF v.link[i].input = "EReceivedData" THEN "ERead" ELSE v.link[i].input,
                !.link[i].suspended = TRUE]
        = PutLink(v, i, [v.link[i] EXCEPT !.input = IF v.link[i].input = "EReceivedData" THEN "ERead" ELSE v.link[i].input,
                                          !.suspended = TRUE])
  BY ZenonT(30) DEF PutLink, W
<1> HIDE DEF v
<1>7. Suspend(w, i) = PutLink(v, i, Suspended(l[i]))
  <2>1. [x EXCEPT !.input = IF l[i].input = "EReceivedData" THEN "ERead" ELSE l[i].input, !.suspended = TRUE]
          = Suspended(l[i])
    BY DEF x, Suspended, Link
  <2> QED BY <1>4, <1>5, <1>6, <2>1
<1> QED BY <1>7, PutTurns, Twice DEF v

\* SecureClientReq, as a world, with no assertion that fails.
LEMMA SecureTurns ==
  ASSUME NEW l \in [Links -> Link], NEW g, NEW s, NEW c, NEW h, NEW r, NEW n, NEW i \in Links,
         ~l[i].suspended, l[i].output = "EPendingSend"
  PROVE  SecureClientReq(W(l, g, s, c, h, r, n), i)
           = W(Upd(l, i, Handshaking(Suspended(l[i]))), g, s, c, h, r, n)
<1> DEFINE w == W(l, g, s, c, h, r, n)
           x == Suspended(l[i])
           v == W(Upd(l, i, x), g, s, c, h, r, n)
<1>1. w.link = l  BY DEF W
<1>2. Check(w, w.link[i].output = "EPendingSend", "EBadOutputStreamState") = w
  <2> HIDE DEF w
  <2> QED BY <1>1, CheckTurns
<1>3. Suspend(w, i) = v  BY SuspendTurns
<1>4. v.link = Upd(l, i, x) /\ v.link[i] = x  BY DEF W, Upd
<1>5. SecureClientReq(w, i) = [v EXCEPT !.link[i].output = "EStartSecureHandshake", !.link[i].write = "KErrNone"]
  <2> HIDE DEF v, w
  <2> QED BY <1>2, <1>3 DEF SecureClientReq
<1>6. [v EXCEPT !.link[i].output = "EStartSecureHandshake", !.link[i].write = "KErrNone"]
        = PutLink(v, i, Handshaking(v.link[i]))
  BY DEF PutLink, W, Handshaking
<1> HIDE DEF x
<1>7. SecureClientReq(w, i) = PutLink(v, i, Handshaking(x))  BY <1>4, <1>5, <1>6
<1> QED BY <1>7, PutTurns, Twice DEF x

Make(w, i) == [w EXCEPT !.link[i].controller = "up", !.link[i].input = "ERead",
                       !.link[i].read = "KErrNone", !.link[i].output = "EPendingSend"]
Bind(w, i, m) == [w EXCEPT !.mgr[m].connector = 0, !.mgr[m].in = i, !.mgr[m].out = i]

\* The controller and its streams are made in one writing.
LEMMA MakeIs ==
  ASSUME NEW w, NEW i, "link" \in DOMAIN w, i \in DOMAIN w.link
  PROVE  Make(w, i) = PutLink(w, i, Made(w.link[i]))
BY DEF PutLink, Made, Make

\* The streams are made and bound, as a world.
LEMMA BindTurns ==
  ASSUME NEW l \in [Links -> Link], NEW g, NEW s, NEW c, NEW h, NEW r, NEW n, NEW i \in Links, NEW m
  PROVE  Bind(Make(W(l, g, s, c, h, r, n), i), i, m)
           = W(Upd(l, i, Made(l[i])), Upd(g, m, Bound(g[m], i)), s, c, h, r, n)
<1> DEFINE w == W(l, g, s, c, h, r, n)
           k == Upd(l, i, Made(l[i]))
           v == W(k, g, s, c, h, r, n)
<1>1. w.link = l /\ v.mgr = g /\ "link" \in DOMAIN w  BY DEF W
<1>2. i \in DOMAIN l  OBVIOUS
<1>3. Make(w, i) = v
  <2> HIDE DEF w
  <2>1. Make(w, i) = PutLink(w, i, Made(l[i]))  BY <1>1, <1>2, MakeIs
  <2> QED BY <2>1, PutTurns DEF w
<1>4. Bind(v, i, m) = PutMgr(v, m, Bound(v.mgr[m], i))  BY ZenonT(30) DEF PutMgr, Bound, Bind, W
<1> HIDE DEF k
<1>5. PutMgr(v, m, Bound(v.mgr[m], i)) = W(k, Upd(g, m, Bound(g[m], i)), s, c, h, r, n)  BY <1>1, PutTurns
<1> QED BY <1>3, <1>4, <1>5 DEF k

\* ConnectionMade in its steps.
LEMMA ConnectionMadeIs ==
  ASSUME NEW w, NEW i, NEW m, w.link[i].owner = m
  PROVE  ConnectionMade(w, i) =
           IF m \in Secure THEN SetPhase(SecureClientReq(Bind(Make(w, i), i, m), i), m, "upgrading")
           ELSE SetPhase(Bind(Make(w, i), i, m), m, "connected")
<1> DEFINE v == [w EXCEPT !.link[i].controller = "up", !.link[i].input = "ERead",
                          !.link[i].read = "KErrNone", !.link[i].output = "EPendingSend",
                          !.mgr[m].connector = 0, !.mgr[m].in = i, !.mgr[m].out = i]
<1>1. v = Bind(Make(w, i), i, m)
  <2> DEFINE u == [w EXCEPT !.link[i].controller = "up", !.link[i].input = "ERead",
                            !.link[i].read = "KErrNone", !.link[i].output = "EPendingSend"]
  <2>1. v = [u EXCEPT !.mgr[m].connector = 0, !.mgr[m].in = i, !.mgr[m].out = i]  OBVIOUS
  <2>2. u = Make(w, i)  BY DEF Make
  <2> HIDE DEF u, v
  <2> QED BY <2>1, <2>2 DEF Bind
<1>2. ConnectionMade(w, i) =
        IF m \in Secure THEN SetPhase(SecureClientReq(v, i), m, "upgrading") ELSE SetPhase(v, m, "connected")
  <2> DEFINE o == w.link[i].owner
  <2>1. o = m  OBVIOUS
  <2>2. ConnectionMade(w, i) =
          IF o \in Secure THEN [SecureClientReq([w EXCEPT !.link[i].controller = "up", !.link[i].input = "ERead",
                                  !.link[i].read = "KErrNone", !.link[i].output = "EPendingSend",
                                  !.mgr[o].connector = 0, !.mgr[o].in = i, !.mgr[o].out = i], i) EXCEPT !.mgr[o].phase = "upgrading"]
          ELSE [[w EXCEPT !.link[i].controller = "up", !.link[i].input = "ERead",
                                  !.link[i].read = "KErrNone", !.link[i].output = "EPendingSend",
                                  !.mgr[o].connector = 0, !.mgr[o].in = i, !.mgr[o].out = i] EXCEPT !.mgr[o].phase = "connected"]
    BY Zenon DEF ConnectionMade
  <2> HIDE DEF o
  <2> QED BY <2>1, <2>2 DEF SetPhase
<1> QED BY <1>1, <1>2

EstablishedLink(x, m) == IF m \in Secure THEN Handshaking(Suspended(Made(x))) ELSE Made(x)
EstablishedManager(y, m, i) == Phased(Bound(y, i), IF m \in Secure THEN "upgrading" ELSE "connected")

\* A link with its new streams is a link.
LEMMA MadeLink ==
  \A x \in Link : Made(x) \in Link /\ (x.suspended <=> Made(x).suspended) /\ Made(x).output = "EPendingSend"
<1>1. \A x \in Link : Made(x) \in Link
  <2>1. "ERead" \in InputStates /\ "EPendingSend" \in OutputStates /\ "KErrNone" \in Requests
    BY DEF InputStates, OutputStates, Requests, Codes
  <2> QED BY <2>1 DEF Made, Link
<1>2. \A x \in Link : (x.suspended <=> Made(x).suspended) /\ Made(x).output = "EPendingSend"  BY DEF Made, Link
<1> QED BY <1>1, <1>2

\* ConnectionMade, as a world.
LEMMA MadeTurns ==
  ASSUME NEW l \in [Links -> Link], NEW g \in [Mgr -> Manager], NEW s, NEW c, NEW h, NEW r, NEW n,
         NEW i \in Links, NEW m \in Mgr, l[i].owner = m, ~l[i].suspended
  PROVE  ConnectionMade(W(l, g, s, c, h, r, n), i)
           = W(Upd(l, i, EstablishedLink(l[i], m)), Upd(g, m, EstablishedManager(g[m], m, i)), s, c, h, r, n)
<1> DEFINE w == W(l, g, s, c, h, r, n)
           x == Made(l[i])
           y == Bound(g[m], i)
           e == Upd(l, i, x)
           f == Upd(g, m, y)
           v == W(e, f, s, c, h, r, n)
           k == Upd(l, i, Handshaking(Suspended(x)))
<1>1. w.link = l  BY DEF W
<1>2. x \in Link /\ y \in Manager /\ ~x.suspended /\ x.output = "EPendingSend"
  <2>1. 0 \in 0 .. MaxConnects /\ i \in 0 .. MaxConnects  BY ConstantsAssumption DEF Links
  <2>2. x \in Link /\ ~x.suspended /\ x.output = "EPendingSend"
    <3>1. l[i] \in Link /\ ~l[i].suspended  OBVIOUS
    <3> QED BY <3>1, MadeLink
  <2>3. y \in Manager  BY <2>1, ZenonT(30) DEF Bound, Manager
  <2> QED BY <2>2, <2>3
<1>3. ConnectionMade(w, i) =
        IF m \in Secure THEN SetPhase(SecureClientReq(v, i), m, "upgrading") ELSE SetPhase(v, m, "connected")
  <2>1. w.link[i].owner = m  BY <1>1
  <2>2. Bind(Make(w, i), i, m) = v  BY BindTurns
  <2> HIDE DEF w, v
  <2> QED BY <2>1, <2>2, ConnectionMadeIs
<1> HIDE DEF x, y
<1>4. e \in [Links -> Link] /\ e[i] = x /\ f[m] = y
  <2>1. e \in [Links -> Link] /\ e[i] = x  BY <1>2, UpdTyped
  <2>2. f[m] = y  BY <1>2, UpdTyped
  <2> QED BY <2>1, <2>2
<1>5. Upd(e, i, Handshaking(Suspended(x))) = k /\ \A z : Upd(f, m, z) = Upd(g, m, z)  BY Twice
<1> HIDE DEF e, f, k
<1>6. SecureClientReq(v, i) = W(k, f, s, c, h, r, n)
  BY <1>2, <1>4, <1>5, SecureTurns
<1>7. \A p : SetPhase(W(k, f, s, c, h, r, n), m, p) = W(k, Upd(g, m, Phased(y, p)), s, c, h, r, n)
  BY <1>4, <1>5, PhaseTurns
<1>8. \A p : SetPhase(v, m, p) = W(e, Upd(g, m, Phased(y, p)), s, c, h, r, n)
  BY <1>4, <1>5, PhaseTurns
<1> HIDE DEF w, v
<1>9. CASE m \in Secure
  BY <1>3, <1>6, <1>7, <1>9 DEF EstablishedLink, EstablishedManager, w, k, x, y
<1>10. CASE m \notin Secure
  BY <1>3, <1>8, <1>10 DEF EstablishedLink, EstablishedManager, w, e, x, y
<1> QED BY <1>9, <1>10

\* The end of a connector that has made its connection.
LEMMA EstablishedIs ==
  ASSUME NEW m \in Mgr, NEW i \in Links, NEW x \in Link, Quiet(x), x.owner = m
  PROVE  LET u == Finished(EstablishedLink(x, m))
             y == EstablishedManager(Connecting(i), m, i)
         IN /\ u \in Link /\ EstablishedLink(x, m) \in Link
            /\ u.connector = "gone" /\ u.connect = "none" /\ u.controller = "up" /\ u.owner = m
            /\ y \in Manager /\ y.in = i /\ y.out = i /\ y.connector = 0 /\ y.asked = 0
            /\ y.phase \in {"upgrading", "connected"} /\ SameCounts(Connecting(i), y)
            /\ Streaming(u, y, FALSE)
<1> DEFINE z == EstablishedLink(x, m)
           u == Finished(z)
           c == Connecting(i)
           y == EstablishedManager(c, m, i)
<1>1. 0 \in 0 .. MaxConnects /\ i \in 0 .. MaxConnects  BY ConstantsAssumption DEF Links
<1>2. Made(x) \in Link /\ Made(x).input = "ERead"
  <2>1. Made(x).input = "ERead"  BY DEF Made, Link
  <2> QED BY <2>1, MadeLink
<1>3. Handshaking(Suspended(Made(x))) \in Link
  <2> DEFINE w == Made(x)
  <2>1. "none" \in Requests /\ "KErrNone" \in Requests /\ "ERead" \in InputStates
        /\ "EStartSecureHandshake" \in OutputStates
    BY DEF InputStates, OutputStates, Requests, Codes
  <2>2. w \in Link /\ w.input = "ERead"  BY <1>2
  <2> HIDE DEF w
  <2>3. Suspended(w) \in Link  BY <2>1, <2>2 DEF Suspended, Link
  <2>4. \A v \in Link : Handshaking(v) \in Link  BY <2>1 DEF Handshaking, Link
  <2> QED BY <2>3, <2>4 DEF w
<1>4. z \in Link  BY <1>2, <1>3 DEF EstablishedLink
<1>5. /\ z.controller = "up" /\ z.owner = m /\ z.input = "ERead"
      /\ z.taken = 0 /\ z.served = 0 /\ z.answers = 0
      /\ m \in Secure => z.suspended /\ z.read = "none" /\ z.output = "EStartSecureHandshake" /\ z.write = "KErrNone"
      /\ m \notin Secure => ~z.suspended /\ z.read = "KErrNone" /\ z.output = "EPendingSend" /\ z.write = "none"
  BY DEF EstablishedLink, Handshaking, Suspended, Made, Link, Quiet
<1>6. u \in Link  BY <1>4, FinishedLink
<1> HIDE DEF z
<1>7. /\ u.connector = "gone" /\ u.connect = "none"
      /\ u.controller = z.controller /\ u.owner = z.owner /\ u.input = z.input
      /\ u.taken = z.taken /\ u.served = z.served /\ u.answers = z.answers
      /\ u.suspended <=> z.suspended
      /\ u.read = z.read /\ u.output = z.output /\ u.write = z.write
  BY <1>4 DEF Finished, Link
<1> HIDE DEF u
<1>8. c \in Manager /\ c.asked = 0 /\ c.confirmed = 0 /\ c.got = 0 /\ c.holds = FALSE
  BY ConnectingTyped, NewFields
<1> HIDE DEF c
<1>9. y \in Manager  BY <1>1, <1>8 DEF EstablishedManager, Phased, Bound, Manager
<1>10. /\ y.in = i /\ y.out = i /\ y.connector = 0
       /\ y.phase = IF m \in Secure THEN "upgrading" ELSE "connected"
       /\ y.asked = c.asked /\ y.confirmed = c.confirmed /\ y.got = c.got /\ y.holds = c.holds
  BY <1>8 DEF EstablishedManager, Phased, Bound, Manager
<1> HIDE DEF y
<1>11. Reading(u, y, FALSE)  BY <1>5, <1>7, <1>8, <1>10 DEF Reading
<1>12. Writing(u, y)
  <2>1. 0 \in Int /\ 0 + 0 = 0  OBVIOUS
  <2> QED BY <1>5, <1>7, <1>8, <1>10, <2>1 DEF Writing, Handshakes
<1>13. Streaming(u, y, FALSE)  BY <1>10, <1>11, <1>12 DEF Streaming
<1>14. SameCounts(c, y)  BY <1>10 DEF SameCounts
<1>15. u \in Link /\ z \in Link /\ u.connector = "gone" /\ u.connect = "none" /\ u.controller = "up" /\ u.owner = m
       /\ y.asked = 0 /\ y.phase \in {"upgrading", "connected"}
  BY <1>4, <1>5, <1>6, <1>7, <1>8, <1>10
<1> QED BY <1>9, <1>10, <1>13, <1>14, <1>15 DEF u, y, c, z

\* The connection is made.
LEMMA MadeFollow ==
  ASSUME NEW l, NEW g, NEW s, NEW c, NEW h, NEW r, NEW n, Good(l, g, s, c, h, r, n),
         NEW i \in Links, NEW m \in Mgr, l[i].connector \in Live, l[i].owner = m,
         NEW x \in Link, Quiet(x), x.owner = m
  PROVE  Follows(Suicide(SetStore(ConnectionMade(W(Upd(l, i, x), g, s, c, h, r, n), i), s \cup {i}), i), g)
<1> DEFINE e == Upd(l, i, x)
           z == EstablishedLink(x, m)
           y == EstablishedManager(Connecting(i), m, i)
           u == Finished(z)
           k == Upd(l, i, u)
           f == Upd(l, i, z)
           p == Upd(g, m, y)
           v == s \cup {i}
<1>1. /\ l \in [Links -> Link] /\ g \in [Mgr -> Manager] /\ n \in 0 .. MaxData /\ n \in Int
      /\ Resolvers(l, c, h) /\ c \in Seq(Links) /\ h \in SUBSET Links
      /\ r # 0 => r \in s
  BY DEF Good, Typed
<1>2. g[m] = Connecting(i) /\ Mine(i, m, l, g, s) /\ i \notin s  BY LinkStands DEF Mine
<1>3. /\ u \in Link /\ z \in Link
      /\ u.connector = "gone" /\ u.connect = "none" /\ u.controller = "up" /\ u.owner = m
      /\ y \in Manager /\ y.in = i /\ y.out = i /\ y.connector = 0 /\ y.asked = 0
      /\ y.phase \in {"upgrading", "connected"} /\ SameCounts(Connecting(i), y)
      /\ Streaming(u, y, FALSE)
  BY EstablishedIs
<1>4. e \in [Links -> Link] /\ e[i] = x /\ Upd(e, i, z) = f
  <2>1. l \in [Links -> Link]  BY <1>1
  <2>2. e \in [Links -> Link] /\ e[i] = x  BY <2>1, UpdTyped
  <2> HIDE DEF z
  <2> QED BY <2>2, Twice
<1>5. ConnectionMade(W(e, g, s, c, h, r, n), i) = W(f, p, s, c, h, r, n)
  <2>1. ~x.suspended  BY DEF Quiet
  <2>2. ConnectionMade(W(e, g, s, c, h, r, n), i)
           = W(Upd(e, i, EstablishedLink(e[i], m)), Upd(g, m, EstablishedManager(g[m], m, i)), s, c, h, r, n)
    <3> HIDE DEF e
    <3> QED BY <1>1, <1>4, <2>1, MadeTurns
  <2> QED BY <1>2, <1>4, <2>2
<1> HIDE DEF e
<1>6. SetStore(W(f, p, s, c, h, r, n), v) = W(f, p, v, c, h, r, n)
  <2> HIDE DEF f, p, v
  <2> QED BY SetTurns
<1> HIDE DEF z
<1>7. f \in [Links -> Link] /\ f[i] = z /\ k = Upd(f, i, Finished(f[i]))
  <2>1. l \in [Links -> Link] /\ z \in Link  BY <1>1, <1>3
  <2>2. f \in [Links -> Link] /\ f[i] = z  BY <2>1, UpdTyped
  <2> QED BY <2>2, Twice
<1>8. Suicide(W(f, p, v, c, h, r, n), i) = W(k, p, v, c, h, r, n)
  <2>1. ~Unused(k, v)  BY DEF Unused
  <2> HIDE DEF f, k, p, v
  <2>2. Suicide(W(f, p, v, c, h, r, n), i) = W(k, p, v, CacheLeft(k, v, c), HandlesLeft(k, v, c, h), r, n)
    BY <1>7, SuicideTurns
  <2> QED BY <2>1, <2>2 DEF CacheLeft, HandlesLeft
<1> HIDE DEF f, u, y
<1>9. k[i] = u /\ p[m] = y
  <2>1. l \in [Links -> Link] /\ u \in Link /\ g \in [Mgr -> Manager] /\ y \in Manager  BY <1>1, <1>3
  <2>2. k[i] = u  BY <2>1, UpdTyped
  <2>3. p[m] = y  BY <2>1, UpdTyped
  <2> QED BY <2>2, <2>3
<1>10. Resolvers(k, c, h)
  <2>1. u \in Link /\ u.connector = "gone" /\ h \subseteq Links  BY <1>1, <1>3
  <2> QED BY <1>1, <2>1, ResolversStay
<1> HIDE DEF k, p
<1>11. Linked(i, k, p, r)
  <2>1. (r = i) = FALSE  BY <1>1, <1>2, LinksFinite
  <2> QED BY <1>3, <1>9, <2>1 DEF Linked
<1>12. Managed(m, k, p, v)  BY <1>3, <1>9 DEF Managed
<1>13. v = (IF u.controller = "up" THEN s \cup {i} ELSE s \ {i}) /\ (r # 0 => r \in v)  BY <1>1, <1>3
<1>14. n <= n /\ y.asked <= n  BY <1>1, <1>3
<1> HIDE DEF v
<1>15. Good(k, p, v, c, h, r, n)
  BY <1>1, <1>2, <1>3, <1>10, <1>11, <1>12, <1>13, <1>14, GoodTurn DEF k, p
<1>16. Promised(g[m], y)  BY <1>2, <1>3, NewFields DEF Promised
<1>17. Follows(W(k, p, v, c, h, r, n), g)
  <2>1. Good(k, Upd(g, m, y), v, c, h, r, n)  BY <1>15 DEF p
  <2>2. Follows(W(k, Upd(g, m, y), v, c, h, r, n), g)  BY <1>3, <1>16, <2>1, FollowsIs
  <2> QED BY <2>2 DEF p
<1> QED BY <1>5, <1>6, <1>8, <1>17 DEF e, v

\* A link whose status is written is a link.
LEMMA RequestedLink ==
  \A x \in Link, code \in Requests :
    /\ Requested(x, code) \in Link /\ Requested(x, code).owner = x.owner
    /\ Requested(x, code).connector = x.connector /\ Requested(x, code).resolver = x.resolver
    /\ Requested(x, code).connect = code /\ (Quiet(x) => Quiet(Requested(x, code)))
    /\ Finished(Requested(x, code)) = Finished(x)
<1>1. \A x \in Link, code \in Requests : Requested(x, code) \in Link  BY DEF Requested, Link
<1>2. \A x \in Link, code \in Requests :
        /\ Requested(x, code).owner = x.owner /\ Requested(x, code).connect = code
        /\ Requested(x, code).connector = x.connector /\ Requested(x, code).resolver = x.resolver
  BY DEF Requested, Link
<1>3. \A x \in Link, code \in Requests : Quiet(x) => Quiet(Requested(x, code))  BY DEF Requested, Link, Quiet
<1> QED BY <1>1, <1>2, <1>3, FinishedSame

\* The interface was not ready.
Again(x) == [x EXCEPT !.connect = "KErrNone", !.restarted = TRUE]
TryAgain(w, i) == [w EXCEPT !.link[i].connect = "KErrNone", !.link[i].restarted = TRUE]

\* The connector waits for the interface, as a world.
LEMMA AgainTurns ==
  ASSUME NEW l \in [Links -> Link], NEW g, NEW s, NEW c, NEW h, NEW r, NEW n, NEW i \in Links
  PROVE  TryAgain(W(l, g, s, c, h, r, n), i) = W(Upd(l, i, Again(l[i])), g, s, c, h, r, n)
<1> DEFINE w == W(l, g, s, c, h, r, n)
<1>1. w.link = l  BY DEF W
<1>2. TryAgain(w, i) = PutLink(w, i, Again(w.link[i]))  BY DEF TryAgain, PutLink, Again, W
<1> QED BY <1>1, <1>2, PutTurns

\* ... and is a link.
LEMMA AgainLink ==
  \A x \in Link : /\ Again(x) \in Link /\ Again(x).owner = x.owner /\ Again(x).connect = "KErrNone"
                  /\ Again(x).connector = x.connector /\ Again(x).resolver = x.resolver
                  /\ (Quiet(x) => Quiet(Again(x)))
<1>1. "KErrNone" \in Requests  BY DEF Requests, Codes
<1>2. \A x \in Link : Again(x) \in Link  BY <1>1 DEF Again, Link
<1>3. \A x \in Link : /\ Again(x).owner = x.owner /\ Again(x).connect = "KErrNone"
                      /\ Again(x).connector = x.connector /\ Again(x).resolver = x.resolver
  BY DEF Again, Link
<1>4. \A x \in Link : Quiet(x) => Quiet(Again(x))  BY DEF Again, Link, Quiet
<1> QED BY <1>2, <1>3, <1>4

\* What RunConnector may make of the world w, in which the request is gone.
Fails(w, i, m) == Suicide(HandleConnectError(w, m), i)
Ran(u, w, i, m, state, next) ==
  \/ u = TryAgain(w, i)
  \/ u = Fails(w, i, m)
  \/ state = "EPendingDNSLookup" /\ u = DoPendingDNSLookup(w, i, next)
  \/ state = "EConnecting" /\ next = "KErrNone" /\ u = DoConnect(w, i, next)
  \/ state = "EConnecting" /\ next # "KErrNone" /\ u = Fails(DoConnect(w, i, next), i, m)
  \/ /\ state \notin {"EPendingDNSLookup", "EConnecting"}
     /\ u = Suicide(SetStore(ConnectionMade(w, i), ConnectionMade(w, i).store \cup {i}), i)

\* RunL and RunError of a connector become one world.
LEMMA RunConnectorIs ==
  ASSUME NEW i \in Links, NEW code, NEW next, RunConnector(i, code, next),
         NEW w, w = Request(world, i, "none")
  PROVE  /\ link[i].connect # "none"
         /\ \E u : Ran(u, w, i, link[i].owner, link[i].connector, next) /\ Becomes(u)
<1> DEFINE m == link[i].owner
           state == link[i].connector
           made == [ConnectionMade(w, i) EXCEPT !.store = ConnectionMade(w, i).store \cup {i}]
           try == [w EXCEPT !.link[i].connect = "KErrNone", !.link[i].restarted = TRUE]
           u == IF code = "KErrNone"
                THEN IF state = "EPendingDNSLookup" THEN DoPendingDNSLookup(w, i, next)
                     ELSE IF state = "EConnecting"
                     THEN IF next = "KErrNone" THEN DoConnect(w, i, next)
                          ELSE Suicide(HandleConnectError(DoConnect(w, i, next), m), i)
                     ELSE Suicide(made, i)
                ELSE IF code = "KErrNotReady" /\ state # "EConnected" THEN try
                ELSE Suicide(HandleConnectError(w, m), i)
<1>1. [world EXCEPT !.link[i].connect = "none"] = w  BY DEF Request
<1>2. link[i].connect # "none" /\ Becomes(u)
  <2> HIDE DEF made, try
  <2>1. link[i].connect # "none"  BY DEF RunConnector
  <2>2. Becomes(u)
    <3> HIDE DEF m, state
    <3> QED BY <1>1 DEF RunConnector, m, state, made, try
  <2> QED BY <2>1, <2>2
<1>3. made = SetStore(ConnectionMade(w, i), ConnectionMade(w, i).store \cup {i}) /\ try = TryAgain(w, i)
  BY DEF SetStore, TryAgain
<1> HIDE DEF made, try
<1>4. Ran(u, w, i, m, state, next)
  <2> HIDE DEF m, state
  <2> QED BY <1>3 DEF Ran, Fails
<1> HIDE DEF u
<1> QED BY <1>2, <1>4

\* That world follows.
LEMMA RanFollows ==
  ASSUME NEW l, NEW g, NEW s, NEW c, NEW h, NEW r, NEW n, Good(l, g, s, c, h, r, n),
         NEW i \in Links, l[i].connect # "none", NEW next \in Codes, NEW u,
         Ran(u, W(Upd(l, i, Requested(l[i], "none")), g, s, c, h, r, n), i, l[i].owner, l[i].connector, next)
  PROVE  Follows(u, g)
<1> DEFINE m == l[i].owner
           x == Requested(l[i], "none")
           e == Upd(l, i, x)
           w == W(e, g, s, c, h, r, n)
           z == Finished(l[i])
<1>1. /\ l \in [Links -> Link] /\ g \in [Mgr -> Manager]
      /\ Resolvers(l, c, h) /\ c \in Seq(Links) /\ h \in SUBSET Links /\ h \subseteq Links
  BY DEF Good, Typed
<1>2. l[i].connector \in Live /\ l[i] \in Link /\ Quiet(l[i]) /\ m \in Mgr /\ g[m] = Connecting(i)
  BY LinkStands
<1>3. /\ x \in Link /\ Quiet(x) /\ x.owner = m
      /\ x.connector = l[i].connector /\ x.resolver = l[i].resolver /\ Finished(x) = z
  <2>1. "none" \in Requests  BY DEF Requests
  <2> QED BY <1>2, <2>1, RequestedLink
<1>4. z \in Link /\ z.connector = "gone"
  <2>1. Finished(l[i]) \in Link  BY <1>2, FinishedLink
  <2> QED BY <1>2, <2>1 DEF Finished, Link
<1> HIDE DEF x, z
<1>5. e \in [Links -> Link] /\ e[i] = x /\ \A y : Upd(e, i, y) = Upd(l, i, y)
  <2>1. l \in [Links -> Link]  BY <1>1
  <2>2. e \in [Links -> Link] /\ e[i] = x  BY <1>3, <2>1, UpdTyped
  <2> QED BY <2>2, Twice
<1>6. Upd(g, m, Connecting(i)) = g  BY <1>1, <1>2 DEF Upd
<1> HIDE DEF m, e
<1>7. Ran(u, w, i, m, l[i].connector, next)  BY DEF m, e, x
<1>8. Resolvers(Upd(l, i, z), c, h)  BY <1>1, <1>4, ResolversStay
\* An attempt goes on, as y.
<1>9. ASSUME NEW y, Attempt(y, m), NEW d \in Seq(Links), NEW f \in SUBSET Links, Resolvers(Upd(l, i, y), d, f)
      PROVE  Follows(W(Upd(l, i, y), g, s, d, f, r, n), g)
  <2>1. Good(Upd(l, i, y), Upd(g, m, Connecting(i)), s, d, f, r, n)
    BY <1>2, <1>9, AttemptTurn DEF m
  <2>2. Good(Upd(l, i, y), g, s, d, f, r, n)  BY <1>6, <2>1
  <2> QED BY <1>1, <1>2, <2>2, Keeps
<1>10. CASE u = TryAgain(w, i)
  <2> DEFINE y == Again(x)
  <2>1. TryAgain(w, i) = W(Upd(e, i, Again(e[i])), g, s, c, h, r, n)  BY <1>5, AgainTurns
  <2>2. u = W(Upd(l, i, y), g, s, c, h, r, n)  BY <1>5, <1>10, <2>1
  <2>3. /\ y \in Link /\ y.owner = m /\ y.connect = "KErrNone" /\ Quiet(y)
        /\ y.connector = l[i].connector /\ y.resolver = l[i].resolver
    BY <1>3, AgainLink
  <2> HIDE DEF y
  <2>4. Attempt(y, m)  BY <1>2, <2>3 DEF Attempt
  <2>5. Resolvers(Upd(l, i, y), c, h)
    <3>1. l[i].connector \in {"unused", "EPendingDNSLookup"} \/ y.connector \notin {"unused", "EPendingDNSLookup"}
      BY <2>3
    <3>2. y.connector # "EConnecting" \/ (l[i].connector = "EConnecting" /\ y.resolver = l[i].resolver)
      BY <2>3
    <3> QED BY <1>1, <2>3, <3>1, <3>2, ResolversStay
  <2> QED BY <1>1, <1>9, <2>2, <2>4, <2>5
<1>11. CASE u = Fails(w, i, m)
  <2>1. l[i].owner = m /\ Finished(x) = Finished(l[i]) /\ Resolvers(Upd(l, i, Finished(l[i])), c, h)
    BY <1>3, <1>8 DEF m, z
  <2>2. Follows(Suicide(HandleConnectError(W(Upd(l, i, x), g, s, c, h, r, n), m), i), g)
    BY <1>1, <1>2, <1>3, <2>1, FailsFollow
  <2> QED BY <1>11, <2>2 DEF Fails, e
<1>12. CASE l[i].connector = "EPendingDNSLookup" /\ u = DoPendingDNSLookup(w, i, next)
  <2>1. l[i].owner = m  BY DEF m
  <2>2. x.connector = l[i].connector /\ x.connector \in {"unused", "EPendingDNSLookup"}  BY <1>3, <1>12
  <2>3. \E y, d, f :
           /\ DoPendingDNSLookup(W(Upd(l, i, x), Upd(g, m, Connecting(i)), s, c, h, r, n), i, next)
                = W(Upd(l, i, y), Upd(g, m, Connecting(i)), s, d, f, r, n)
           /\ Good(Upd(l, i, y), Upd(g, m, Connecting(i)), s, d, f, r, n)
    BY <1>2, <1>3, <2>1, <2>2, LookupGood
  <2>4. PICK y, d, f :
           /\ DoPendingDNSLookup(W(Upd(l, i, x), Upd(g, m, Connecting(i)), s, c, h, r, n), i, next)
                = W(Upd(l, i, y), Upd(g, m, Connecting(i)), s, d, f, r, n)
           /\ Good(Upd(l, i, y), Upd(g, m, Connecting(i)), s, d, f, r, n)
    BY <2>3
  <2>5. u = W(Upd(l, i, y), g, s, d, f, r, n) /\ Good(Upd(l, i, y), g, s, d, f, r, n)
    BY <1>6, <1>12, <2>4 DEF e
  <2> QED BY <1>1, <1>2, <2>5, Keeps
\* The look-up is over: the handle goes into the cache.
<1>13. CASE l[i].connector = "EConnecting"
  <2> DEFINE d == Append(c, l[i].resolver)
  <2>1. CacheAfter(e, c, i) = d
    <3>1. l[i].resolver \in Links /\ 0 \notin Links  BY <1>1, <1>13, LinksFinite DEF Resolvers
    <3> QED BY <1>3, <1>5, <3>1 DEF CacheAfter
  <2>2. DoConnect(w, i, next) = W(Upd(l, i, Started(x, next)), g, s, d, h, r, n)
    <3>1. DoConnect(w, i, next) = W(Upd(e, i, Started(e[i], next)), g, s, CacheAfter(e, c, i), h, r, n)
      BY <1>5, DoConnectTurns
    <3> QED BY <1>5, <2>1, <3>1
  <2>3. ASSUME NEW y \in Link, y.connector \in {"EConnected", "gone"}
        PROVE  d \in Seq(Links) /\ Resolvers(Upd(l, i, y), d, h)
    BY <1>1, <1>13, <2>3, ResolverReturned
  <2> HIDE DEF d
  <2>4. CASE next = "KErrNone" /\ u = DoConnect(w, i, next)
    <3> DEFINE y == Attempting(x, "EConnected", "pending")
    <3>1. Attempt(y, m) /\ y.connector = "EConnected"
      BY <1>2, <1>3, Attempts DEF Live
    <3>2. Started(x, next) = y  BY <2>4 DEF Started
    <3> HIDE DEF y
    <3>3. y \in Link  BY <3>1 DEF Attempt
    <3>4. d \in Seq(Links) /\ Resolvers(Upd(l, i, y), d, h)  BY <2>3, <3>1, <3>3
    <3>5. u = W(Upd(l, i, y), g, s, d, h, r, n)  BY <2>2, <2>4, <3>2
    <3> QED BY <1>1, <1>9, <3>1, <3>4, <3>5
  <2>5. CASE next # "KErrNone" /\ u = Fails(DoConnect(w, i, next), i, m)
    <3> DEFINE y == Requested(x, next)
    <3>1. Started(x, next) = y  BY <2>5 DEF Started, Requested
    <3>2. y \in Link /\ Finished(y) = Finished(l[i])
      <4>1. next \in Requests  BY DEF Requests
      <4> QED BY <1>3, <4>1, RequestedLink DEF z
    <3> HIDE DEF y
    <3>3. d \in Seq(Links) /\ Resolvers(Upd(l, i, z), d, h)  BY <1>4, <2>3
    <3>4. l[i].owner = m /\ Resolvers(Upd(l, i, Finished(l[i])), d, h)  BY <3>3 DEF m, z
    <3>5. Follows(Suicide(HandleConnectError(W(Upd(l, i, y), g, s, d, h, r, n), m), i), g)
      BY <1>1, <1>2, <3>2, <3>3, <3>4, FailsFollow
    <3> QED BY <2>2, <2>5, <3>1, <3>5 DEF Fails
  <2> QED BY <1>7, <1>10, <1>11, <1>13, <2>4, <2>5 DEF Ran
<1>14. CASE /\ l[i].connector \notin {"EPendingDNSLookup", "EConnecting"}
            /\ u = Suicide(SetStore(ConnectionMade(w, i), ConnectionMade(w, i).store \cup {i}), i)
  <2>1. ConnectionMade(w, i).store = s
    <3>1. ~x.suspended /\ e[i].owner = m /\ ~e[i].suspended  BY <1>3, <1>5 DEF Quiet
    <3>2. ConnectionMade(w, i)
           = W(Upd(e, i, EstablishedLink(e[i], m)), Upd(g, m, EstablishedManager(g[m], m, i)), s, c, h, r, n)
      BY <1>1, <1>2, <1>5, <3>1, MadeTurns
    <3> QED BY <3>2, WorldParts
  <2>2. l[i].owner = m  BY DEF m
  <2>3. Follows(Suicide(SetStore(ConnectionMade(W(Upd(l, i, x), g, s, c, h, r, n), i), s \cup {i}), i), g)
    BY <1>2, <1>3, <2>2, MadeFollow
  <2> QED BY <1>14, <2>1, <2>3 DEF e
<1> QED BY <1>7, <1>10, <1>11, <1>12, <1>13, <1>14 DEF Ran

\* The RunL and the RunError of a connector.
LEMMA RunConnectorKeeps ==
  ASSUME IInv, NEW i \in Links, NEW code, NEW next \in Codes, RunConnector(i, code, next)
  PROVE  IInv' /\ Kept
<1> DEFINE v == Request(world, i, "none")
<1>1. world = W(link, mgr, store, cache, handles, reading, sends)
      /\ Good(link, mgr, store, cache, handles, reading, sends)
  BY WorldBegins DEF IInv
<1>2. v = W(Upd(link, i, Requested(link[i], "none")), mgr, store, cache, handles, reading, sends)
  BY <1>1, RequestTurns
<1> HIDE DEF v
<1>3. /\ link[i].connect # "none"
      /\ \E u : Ran(u, v, i, link[i].owner, link[i].connector, next) /\ Becomes(u)
  BY RunConnectorIs DEF v
<1>4. PICK u : Ran(u, v, i, link[i].owner, link[i].connector, next) /\ Becomes(u)  BY <1>3
<1>5. Follows(u, mgr)  BY <1>1, <1>2, <1>3, <1>4, RanFollows
<1> QED BY <1>4, <1>5, StepEnds

-----------------------------------------------------------------------------
(* The end of a connection *)

ShutIn(x) == [x EXCEPT !.input = "EClosed"]
ShutOut(x) == [x EXCEPT !.output = "EClosed"]
Unread(x) == [x EXCEPT !.read = "none"]
Unwritten(x) == [x EXCEPT !.write = "none"]
ShutInput(w, i) == [w EXCEPT !.link[i].input = "EClosed"]
ShutOutput(w, i) == [w EXCEPT !.link[i].output = "EClosed"]
WithoutIn(y) == [y EXCEPT !.in = 0]
WithoutOut(y) == [y EXCEPT !.out = 0]
DropIn(w, m) == [w EXCEPT !.mgr[m].in = 0]
DropOut(w, m) == [w EXCEPT !.mgr[m].out = 0]

\* A stream is closed or its request cancelled, as a world.
LEMMA ShutTurns ==
  ASSUME NEW l, NEW g, NEW s, NEW c, NEW h, NEW r, NEW n, NEW i
  PROVE  /\ ShutInput(W(l, g, s, c, h, r, n), i) = W(Upd(l, i, ShutIn(l[i])), g, s, c, h, r, n)
         /\ ShutOutput(W(l, g, s, c, h, r, n), i) = W(Upd(l, i, ShutOut(l[i])), g, s, c, h, r, n)
         /\ CancelRead(W(l, g, s, c, h, r, n), i) = W(Upd(l, i, Unread(l[i])), g, s, c, h, r, n)
         /\ CancelWrite(W(l, g, s, c, h, r, n), i) = W(Upd(l, i, Unwritten(l[i])), g, s, c, h, r, n)
<1> DEFINE w == W(l, g, s, c, h, r, n)
<1>1. w.link = l  BY DEF W
<1>2. ShutInput(w, i) = PutLink(w, i, ShutIn(w.link[i]))  BY DEF ShutInput, PutLink, ShutIn
<1>3. ShutOutput(w, i) = PutLink(w, i, ShutOut(w.link[i]))  BY DEF ShutOutput, PutLink, ShutOut
<1>4. CancelRead(w, i) = PutLink(w, i, Unread(w.link[i]))  BY DEF CancelRead, PutLink, Unread
<1>5. CancelWrite(w, i) = PutLink(w, i, Unwritten(w.link[i]))  BY DEF CancelWrite, PutLink, Unwritten
<1> QED BY <1>1, <1>2, <1>3, <1>4, <1>5, PutTurns

\* A manager forgets a stream, as a world.
LEMMA DropTurns ==
  ASSUME NEW l, NEW g, NEW s, NEW c, NEW h, NEW r, NEW n, NEW m
  PROVE  /\ DropIn(W(l, g, s, c, h, r, n), m) = W(l, Upd(g, m, WithoutIn(g[m])), s, c, h, r, n)
         /\ DropOut(W(l, g, s, c, h, r, n), m) = W(l, Upd(g, m, WithoutOut(g[m])), s, c, h, r, n)
<1> DEFINE w == W(l, g, s, c, h, r, n)
<1>1. w.mgr = g  BY DEF W
<1>2. DropIn(w, m) = PutMgr(w, m, WithoutIn(w.mgr[m]))  BY DEF DropIn, PutMgr, WithoutIn
<1>3. DropOut(w, m) = PutMgr(w, m, WithoutOut(w.mgr[m]))  BY DEF DropOut, PutMgr, WithoutOut
<1> QED BY <1>1, <1>2, <1>3, PutTurns

\* ... and what the link is then.
LEMMA ShutLink ==
  \A x \in Link :
    /\ ShutIn(x) \in Link /\ ShutOut(x) \in Link /\ Unread(x) \in Link /\ Unwritten(x) \in Link
    /\ ShutIn(x).owner = x.owner /\ ShutOut(x).owner = x.owner
    /\ Unread(x).owner = x.owner /\ Unwritten(x).owner = x.owner
    /\ ShutIn(x).connector = x.connector /\ ShutOut(x).connector = x.connector
    /\ Unread(x).connector = x.connector /\ Unwritten(x).connector = x.connector
    /\ ShutIn(x).input = "EClosed" /\ ShutOut(x).output = "EClosed"
    /\ ShutIn(x).output = x.output /\ ShutOut(x).input = x.input
    /\ Unread(x).output = x.output /\ Unread(x).input = x.input
    /\ Unwritten(x).output = x.output /\ Unwritten(x).input = x.input
<1>1. "EClosed" \in InputStates /\ "EClosed" \in OutputStates /\ "none" \in Requests
  BY DEF InputStates, OutputStates, Requests
<1>2. \A x \in Link : ShutIn(x) \in Link /\ ShutOut(x) \in Link  BY <1>1 DEF ShutIn, ShutOut, Link
<1>3. \A x \in Link : Unread(x) \in Link /\ Unwritten(x) \in Link  BY <1>1 DEF Unread, Unwritten, Link
<1>4. \A x \in Link :
        /\ ShutIn(x).owner = x.owner /\ ShutIn(x).connector = x.connector
        /\ ShutIn(x).input = "EClosed" /\ ShutIn(x).output = x.output
  BY DEF ShutIn, Link
<1>5. \A x \in Link :
        /\ ShutOut(x).owner = x.owner /\ ShutOut(x).connector = x.connector
        /\ ShutOut(x).output = "EClosed" /\ ShutOut(x).input = x.input
  BY DEF ShutOut, Link
<1>6. \A x \in Link :
        /\ Unread(x).owner = x.owner /\ Unread(x).connector = x.connector
        /\ Unread(x).output = x.output /\ Unread(x).input = x.input
  BY DEF Unread, Link
<1>7. \A x \in Link :
        /\ Unwritten(x).owner = x.owner /\ Unwritten(x).connector = x.connector
        /\ Unwritten(x).output = x.output /\ Unwritten(x).input = x.input
  BY DEF Unwritten, Link
<1> QED BY <1>2, <1>3, <1>4, <1>5, <1>6, <1>7

\* What a manager makes of the loss of one stream.
DroppedIn(y) == IF y.out # 0 THEN Idle(WithoutIn(y)) ELSE WithoutIn(y)
DroppedOut(y) == IF y.in # 0 THEN Idle(WithoutOut(y)) ELSE WithoutOut(y)

\* The two close indications in their steps.
LEMMA CloseIndIs ==
  \A w, m, again :
    /\ InputStreamCloseInd(w, m, again)
         = IF w.mgr[m].out # 0 THEN HandleSocketError(DropIn(w, m), m, again) ELSE DropIn(w, m)
    /\ OutputStreamCloseInd(w, m, again)
         = IF w.mgr[m].in # 0 THEN HandleSocketError(DropOut(w, m), m, again) ELSE DropOut(w, m)
BY DEF InputStreamCloseInd, OutputStreamCloseInd, DropIn, DropOut

\* The close indications, when the manager does not connect again.
LEMMA CloseIndTurns ==
  ASSUME NEW l, NEW g \in [Mgr -> Manager], NEW s, NEW c, NEW h, NEW r, NEW n, NEW m \in Mgr, NEW again \in BOOLEAN
  PROVE  /\ g[m].out = 0 \/ ~again =>
              InputStreamCloseInd(W(l, g, s, c, h, r, n), m, again)
                = W(l, Upd(g, m, DroppedIn(g[m])), s, c, h, r, n)
         /\ g[m].in = 0 \/ ~again =>
              OutputStreamCloseInd(W(l, g, s, c, h, r, n), m, again)
                = W(l, Upd(g, m, DroppedOut(g[m])), s, c, h, r, n)
<1> DEFINE w == W(l, g, s, c, h, r, n)
           a == Upd(g, m, WithoutIn(g[m]))
           b == Upd(g, m, WithoutOut(g[m]))
<1>1. w.mgr = g  BY DEF W
<1>2. DropIn(w, m) = W(l, a, s, c, h, r, n) /\ DropOut(w, m) = W(l, b, s, c, h, r, n)  BY DropTurns
<1>3. a[m] = WithoutIn(g[m]) /\ b[m] = WithoutOut(g[m])  BY DEF Upd
<1>4. \A y : Upd(a, m, y) = Upd(g, m, y) /\ Upd(b, m, y) = Upd(g, m, y)  BY Twice
<1> HIDE DEF w
<1>5. ~again => \A u : HandleSocketError(u, m, again) = SetIdleState(u, m)  BY DEF HandleSocketError
<1>6. SetIdleState(DropIn(w, m), m) = W(l, Upd(g, m, Idle(WithoutIn(g[m]))), s, c, h, r, n)
  <2> HIDE DEF a
  <2> QED BY <1>2, <1>3, <1>4, SetIdleTurns
<1>7. SetIdleState(DropOut(w, m), m) = W(l, Upd(g, m, Idle(WithoutOut(g[m]))), s, c, h, r, n)
  <2> HIDE DEF b
  <2> QED BY <1>2, <1>3, <1>4, SetIdleTurns
<1>8. ASSUME g[m].out = 0 \/ ~again
      PROVE  InputStreamCloseInd(w, m, again) = W(l, Upd(g, m, DroppedIn(g[m])), s, c, h, r, n)
  <2>1. CASE g[m].out = 0  BY <1>1, <1>2, <2>1, CloseIndIs DEF DroppedIn
  <2>2. CASE g[m].out # 0
    <3>1. InputStreamCloseInd(w, m, again) = HandleSocketError(DropIn(w, m), m, again)  BY <1>1, <2>2, CloseIndIs
    <3>2. InputStreamCloseInd(w, m, again) = SetIdleState(DropIn(w, m), m)  BY <1>5, <1>8, <2>2, <3>1
    <3> QED BY <1>6, <2>2, <3>2 DEF DroppedIn
  <2> QED BY <2>1, <2>2
<1>9. ASSUME g[m].in = 0 \/ ~again
      PROVE  OutputStreamCloseInd(w, m, again) = W(l, Upd(g, m, DroppedOut(g[m])), s, c, h, r, n)
  <2>1. CASE g[m].in = 0  BY <1>1, <1>2, <2>1, CloseIndIs DEF DroppedOut
  <2>2. CASE g[m].in # 0
    <3>1. OutputStreamCloseInd(w, m, again) = HandleSocketError(DropOut(w, m), m, again)  BY <1>1, <2>2, CloseIndIs
    <3>2. OutputStreamCloseInd(w, m, again) = SetIdleState(DropOut(w, m), m)  BY <1>5, <1>9, <2>2, <3>1
    <3> QED BY <1>7, <2>2, <3>2 DEF DroppedOut
  <2> QED BY <2>1, <2>2
<1> QED BY <1>8, <1>9 DEF w

\* ... or connects again, in place: something is in the store.
Anew(m) == Attempting(Owned(NewLink, m), "EConnected", "pending")
Reconnected(u, y, l, g, s, c, h, r, n, m, k) ==
  u = W(Upd(l, k, Anew(m)), Upd(g, m, Towards(Idle(y), k)), s, c, h, r, n)

\* The close indications, when it does.
LEMMA ReconnectTurns ==
  ASSUME NEW l \in [Links -> Link], NEW g \in [Mgr -> Manager], NEW s, NEW c, NEW h, NEW r, NEW n, NEW m \in Mgr,
         s # {}, CanConnect(W(l, g, s, c, h, r, n)),
         \A j \in Links : l[j].connector = "unused" => l[j] = NewLink,
         g[m].phase # "closing", g[m].in # 0, g[m].out # 0, NEW again \in BOOLEAN, again
  PROVE  \E k \in Links :
           /\ l[k].connector = "unused"
           /\ Reconnected(InputStreamCloseInd(W(l, g, s, c, h, r, n), m, again), WithoutIn(g[m]), l, g, s, c, h, r, n, m, k)
           /\ Reconnected(OutputStreamCloseInd(W(l, g, s, c, h, r, n), m, again), WithoutOut(g[m]), l, g, s, c, h, r, n, m, k)
<1> DEFINE w == W(l, g, s, c, h, r, n)
           k == NextLink(w)
           x == Owned(NewLink, m)
           z == Attempting(x, "EConnected", "pending")
           e == Upd(l, k, x)
<1>1. w.link = l /\ w.mgr = g  BY DEF W
<1>2. k \in Links /\ l[k].connector = "unused"  BY <1>1, NextThere
<1>3. \A p : NextLink(W(l, p, s, c, h, r, n)) = k /\ CanConnect(W(l, p, s, c, h, r, n))
  BY DEF NextLink, CanConnect, W
<1> HIDE DEF k, w
<1>4. l[k] = NewLink  BY <1>2
<1>5. x \in Link /\ x.resolver = 0 /\ e[k] = x /\ Upd(e, k, z) = Upd(l, k, z)
  <2>1. x \in Link /\ x.resolver = 0  BY NewOwned
  <2> HIDE DEF x, z
  <2>2. e[k] = x  BY <1>2, <2>1, UpdTyped
  <2> QED BY <2>1, <2>2, Twice
\* ConnectL, for any managers p.
<1>6. ASSUME NEW p
      PROVE  ConnectL(W(l, p, s, c, h, r, n), m, "KErrNone")
               = W(Upd(l, k, z), Upd(p, m, Towards(p[m], k)), s, c, h, r, n)
  <2> DEFINE f == Upd(p, m, Towards(p[m], k))
  <2>1. e = Upd(l, k, Owned(l[k], m))  BY <1>4
  <2>2. k = NextLink(W(l, p, s, c, h, r, n)) /\ CanConnect(W(l, p, s, c, h, r, n))  BY <1>3
  <2> HIDE DEF e, f
  <2>3. Connected(ConnectL(W(l, p, s, c, h, r, n), m, "KErrNone"), l, e, f, s, c, h, r, n, k, "KErrNone")
    BY <2>1, <2>2, ConnectLTurns DEF f
  <2>4. ConnectL(W(l, p, s, c, h, r, n), m, "KErrNone")
          = W(Upd(e, k, Started(e[k], "KErrNone")), f, s, CacheAfter(e, c, k), h, r, n)
    BY <2>3 DEF Connected
  <2>5. CacheAfter(e, c, k) = c /\ Started(e[k], "KErrNone") = z  BY <1>5 DEF CacheAfter, Started
  <2> QED BY <1>5, <2>4, <2>5 DEF f
<1> HIDE DEF x, z, e
\* The manager's callback, when it has lost one stream and become y.
<1>7. ASSUME NEW y, NEW a, y.phase # "closing", a = W(l, Upd(g, m, y), s, c, h, r, n)
      PROVE  HandleSocketError(a, m, again)
               = W(Upd(l, k, z), Upd(g, m, Towards(Idle(y), k)), s, c, h, r, n)
  <2> DEFINE p == Upd(g, m, y)
             q == Upd(g, m, Idle(y))
  <2>1. p[m] = y /\ q[m] = Idle(y) /\ Upd(p, m, Idle(y)) = q
        /\ \A v : Upd(q, m, v) = Upd(g, m, v)
    BY Twice DEF Upd
  <2>2. a.mgr[m].phase # "closing"  BY <1>7, <2>1, WorldParts
  <2> HIDE DEF p, q
  <2>3. SetIdleState(a, m) = W(l, q, s, c, h, r, n)
    BY <1>7, <2>1, SetIdleTurns DEF p
  <2>4. HandleSocketError(a, m, again) = ConnectL(W(l, q, s, c, h, r, n), m, "KErrNone")
    BY <2>2, <2>3 DEF HandleSocketError
  <2>5. ConnectL(W(l, q, s, c, h, r, n), m, "KErrNone")
          = W(Upd(l, k, z), Upd(q, m, Towards(q[m], k)), s, c, h, r, n)
    BY <1>6
  <2> QED BY <2>1, <2>4, <2>5
<1>8. WithoutIn(g[m]).phase # "closing" /\ WithoutOut(g[m]).phase # "closing"
  BY DEF WithoutIn, WithoutOut, Manager
<1>9. HandleSocketError(DropIn(w, m), m, again)
        = W(Upd(l, k, z), Upd(g, m, Towards(Idle(WithoutIn(g[m])), k)), s, c, h, r, n)
  <2> DEFINE y == WithoutIn(g[m])
  <2>1. DropIn(w, m) = W(l, Upd(g, m, y), s, c, h, r, n)  BY DropTurns DEF w
  <2>2. y.phase # "closing"  BY <1>8
  <2> HIDE DEF y
  <2>3. HandleSocketError(DropIn(w, m), m, again) = W(Upd(l, k, z), Upd(g, m, Towards(Idle(y), k)), s, c, h, r, n)
    BY <1>7, <2>1, <2>2
  <2> QED BY <2>3 DEF y
<1>10. HandleSocketError(DropOut(w, m), m, again)
        = W(Upd(l, k, z), Upd(g, m, Towards(Idle(WithoutOut(g[m])), k)), s, c, h, r, n)
  <2> DEFINE y == WithoutOut(g[m])
  <2>1. DropOut(w, m) = W(l, Upd(g, m, y), s, c, h, r, n)  BY DropTurns DEF w
  <2>2. y.phase # "closing"  BY <1>8
  <2> HIDE DEF y
  <2>3. HandleSocketError(DropOut(w, m), m, again) = W(Upd(l, k, z), Upd(g, m, Towards(Idle(y), k)), s, c, h, r, n)
    BY <1>7, <2>1, <2>2
  <2> QED BY <2>3 DEF y
<1>11. g[m].out # 0 => InputStreamCloseInd(w, m, again) = HandleSocketError(DropIn(w, m), m, again)
  BY <1>1, CloseIndIs
<1>12. g[m].in # 0 => OutputStreamCloseInd(w, m, again) = HandleSocketError(DropOut(w, m), m, again)
  BY <1>1, CloseIndIs
<1>13. z = Anew(m)  BY DEF z, x, Anew
<1>14. Reconnected(InputStreamCloseInd(w, m, again), WithoutIn(g[m]), l, g, s, c, h, r, n, m, k)
  BY <1>9, <1>11, <1>13 DEF Reconnected
<1>15. Reconnected(OutputStreamCloseInd(w, m, again), WithoutOut(g[m]), l, g, s, c, h, r, n, m, k)
  BY <1>10, <1>12, <1>13 DEF Reconnected
<1> QED BY <1>2, <1>14, <1>15 DEF w

\* A manager that has forgotten both its streams, in either order.
LEMMA DropAll ==
  ASSUME NEW y \in Manager, NEW i \in Links, y.in = i, y.out = i
  PROVE  /\ DroppedIn(y) = Idle(WithoutIn(y)) /\ DroppedOut(y) = Idle(WithoutOut(y))
         /\ DroppedIn(y).in = 0 /\ DroppedOut(y).out = 0 /\ DroppedOut(y).phase = "idle"
         /\ DroppedIn(y) \in Manager /\ DroppedOut(y) \in Manager
         /\ DroppedOut(DroppedIn(y)) = NewManager /\ DroppedIn(DroppedOut(y)) = NewManager
         /\ WithoutIn(DroppedOut(y)) = NewManager
         /\ \A k \in Links :
              /\ Towards(Idle(WithoutIn(y)), k).in = 0 /\ Towards(Idle(WithoutOut(y)), k).out = 0
              /\ Towards(Idle(WithoutIn(y)), k) \in Manager /\ Towards(Idle(WithoutOut(y)), k) \in Manager
              /\ DroppedOut(Towards(Idle(WithoutIn(y)), k)) = Connecting(k)
              /\ DroppedIn(Towards(Idle(WithoutOut(y)), k)) = Connecting(k)
<1> DEFINE a == [NewManager EXCEPT !.out = i]
           b == [NewManager EXCEPT !.in = i]
<1>1. i # 0 /\ i \in 0 .. MaxConnects /\ 0 \in 0 .. MaxConnects /\ \A k \in Links : k \in 0 .. MaxConnects
  BY LinksFinite, ConstantsAssumption DEF Links
<1>2. Idle(WithoutIn(y)) = a /\ Idle(WithoutOut(y)) = b
  <2>1. WithoutIn(y).in = 0 /\ WithoutIn(y).out = i /\ WithoutOut(y).in = i /\ WithoutOut(y).out = 0
    BY DEF WithoutIn, WithoutOut, Manager
  <2>2. Idle(WithoutIn(y)) = [NewManager EXCEPT !.in = 0, !.out = i]  BY <2>1 DEF Idle
  <2>3. Idle(WithoutOut(y)) = [NewManager EXCEPT !.in = i, !.out = 0]  BY <2>1 DEF Idle
  <2>4. \A z \in Manager : z.in = 0 => [z EXCEPT !.in = 0, !.out = i] = [z EXCEPT !.out = i]  BY DEF Manager
  <2>5. \A z \in Manager : z.out = 0 => [z EXCEPT !.in = i, !.out = 0] = [z EXCEPT !.in = i]  BY DEF Manager
  <2> QED BY <2>2, <2>3, <2>4, <2>5, NewFields, ConnectingTyped
<1>3. DroppedIn(y) = a /\ DroppedOut(y) = b  BY <1>1, <1>2 DEF DroppedIn, DroppedOut
<1>4. a.in = 0 /\ a.out = i /\ b.in = i /\ b.out = 0 /\ b.phase = "idle"  BY DEF NewManager
<1>5. a \in Manager /\ b \in Manager
  <2>1. NewManager \in Manager  BY ConnectingTyped
  <2> QED BY <1>1, <2>1 DEF Manager
<1>6. WithoutOut(a) = NewManager /\ WithoutIn(b) = NewManager
  <2>1. \A z \in Manager : z.out = 0 => WithoutOut([z EXCEPT !.out = i]) = z  BY DEF WithoutOut, Manager
  <2>2. \A z \in Manager : z.in = 0 => WithoutIn([z EXCEPT !.in = i]) = z  BY DEF WithoutIn, Manager
  <2> QED BY <2>1, <2>2, NewFields, ConnectingTyped
<1>7. ASSUME NEW k \in Links
      PROVE  /\ Towards(a, k).in = 0 /\ Towards(b, k).out = 0
             /\ Towards(a, k) \in Manager /\ Towards(b, k) \in Manager
             /\ WithoutOut(Towards(a, k)) = Connecting(k)
             /\ WithoutIn(Towards(b, k)) = Connecting(k)
  <2>1. Towards(a, k).in = 0 /\ Towards(b, k).out = 0  BY DEF Towards, NewManager
  <2>2. WithoutOut(Towards(a, k)) = Connecting(k) /\ WithoutIn(Towards(b, k)) = Connecting(k)
    <3>1. \A z \in Manager : z.out = 0 => WithoutOut(Towards([z EXCEPT !.out = i], k)) = Towards(z, k)
      BY DEF Towards, WithoutOut, Manager
    <3>2. \A z \in Manager : z.in = 0 => WithoutIn(Towards([z EXCEPT !.in = i], k)) = Towards(z, k)
      BY DEF Towards, WithoutIn, Manager
    <3>3. Towards(NewManager, k) = Connecting(k)  BY DEF Towards, NewManager, Connecting
    <3> QED BY <3>1, <3>2, <3>3, NewFields, ConnectingTyped
  <2> HIDE DEF a, b
  <2>3. Towards(a, k) \in Manager /\ Towards(b, k) \in Manager
    BY <1>1, <1>5 DEF Towards, Manager
  <2> QED BY <2>1, <2>2, <2>3
<1> HIDE DEF a, b
<1>8. DroppedOut(a) = NewManager /\ DroppedIn(b) = NewManager
  BY <1>4, <1>6 DEF DroppedOut, DroppedIn
<1>9. \A k \in Links : DroppedOut(Towards(a, k)) = Connecting(k) /\ DroppedIn(Towards(b, k)) = Connecting(k)
  BY <1>7 DEF DroppedOut, DroppedIn
<1> QED BY <1>2, <1>3, <1>4, <1>5, <1>6, <1>7, <1>8, <1>9

\* The controller goes out of the store and is deleted.
Leave(v, i) == DeleteController(EmptyHostResolverCacheIfNeeded(SetStore(v, v.store \ {i})), i)

\* The controller is deleted, as a world, with no assertion that fails.
LEMMA DeleteTurns ==
  ASSUME NEW l, NEW g, NEW s, NEW c, NEW h, NEW r, NEW n, NEW i,
         l[i].input = "EClosed", l[i].output = "EClosed"
  PROVE  DeleteController(W(l, g, s, c, h, r, n), i) = W(Upd(l, i, DeletedLink), g, s, c, h, r, n)
<1> DEFINE w == W(l, g, s, c, h, r, n)
<1>1. w.link = l  BY DEF W
<1> HIDE DEF w
<1>2. /\ Check(w, w.link[i].input \in {"EIdle", "EClosed"}, "EBadInputStreamState") = w
      /\ Check(w, w.link[i].output \in {"EIdle", "EClosed"}, "EBadOutputStreamState") = w
  <2>1. w.link[i].input \in {"EIdle", "EClosed"} /\ w.link[i].output \in {"EIdle", "EClosed"}  BY <1>1
  <2> QED BY <2>1 DEF Check
<1>3. DeleteController(w, i) = PutLink(w, i, DeletedLink)
  BY <1>2 DEF DeleteController, PutLink, DeletedLink
<1> QED BY <1>3, PutTurns DEF w

\* The controller leaves the store and is deleted, as a world.
LEMMA LeaveTurns ==
  ASSUME NEW l \in [Links -> Link], NEW g, NEW s, NEW c, NEW h, NEW r, NEW n, NEW i \in Links,
         l[i].input = "EClosed", l[i].output = "EClosed", l[i].connector = "gone",
         NEW k, k = Upd(l, i, DeletedLink), NEW v, v = s \ {i}
  PROVE  Leave(W(l, g, s, c, h, r, n), i) = W(k, g, v, CacheLeft(k, v, c), HandlesLeft(k, v, c, h), r, n)
<1> DEFINE w == W(l, g, s, c, h, r, n)
<1>1. SetStore(w, w.store \ {i}) = W(l, g, v, c, h, r, n)
  <2>1. w.store = s  BY DEF W
  <2> QED BY <2>1, SetTurns
<1>2. EmptyHostResolverCacheIfNeeded(W(l, g, v, c, h, r, n))
        = W(l, g, v, CacheLeft(l, v, c), HandlesLeft(l, v, c, h), r, n)
  BY EmptyTurns
<1>3. CacheLeft(l, v, c) = CacheLeft(k, v, c) /\ HandlesLeft(l, v, c, h) = HandlesLeft(k, v, c, h)
  <2>1. DeletedLink.connector \notin Live /\ l[i].connector \notin Live  BY NewFields DEF Live
  <2>2. \A j \in Links : k[j].connector \in Live <=> l[j].connector \in Live
    <3>1. \A j \in Links : j # i => k[j] = l[j]  BY UpdTyped
    <3>2. k[i] = DeletedLink  BY DEF Upd
    <3> QED BY <2>1, <3>1, <3>2
  <2>3. Unused(l, v) <=> Unused(k, v)  BY <2>2 DEF Unused
  <2> QED BY <2>3 DEF CacheLeft, HandlesLeft
<1> HIDE DEF w
<1>4. Leave(w, i) = DeleteController(W(l, g, v, CacheLeft(k, v, c), HandlesLeft(k, v, c, h), r, n), i)
  BY <1>1, <1>2, <1>3 DEF Leave
<1> QED BY <1>4, DeleteTurns DEF w

\* StreamClosed in its steps.
LEMMA StreamClosedIs ==
  ASSUME NEW w, NEW i, NEW again, i \in w.store
  PROVE  /\ StreamClosed(w, i, "input", again)
              = Leave(ShutOutput(OutputStreamCloseInd(CancelWrite(w, i), w.link[i].owner, again), i), i)
         /\ StreamClosed(w, i, "output", again)
              = Leave(ShutInput(InputStreamCloseInd(CancelRead(w, i), w.link[i].owner, again), i), i)
<1>1. OutputSocketClosed(w, i, again) = ShutOutput(OutputStreamCloseInd(CancelWrite(w, i), w.link[i].owner, again), i)
  BY DEF OutputSocketClosed, ShutOutput
<1>2. InputSocketClosed(w, i, again) = ShutInput(InputStreamCloseInd(CancelRead(w, i), w.link[i].owner, again), i)
  BY DEF InputSocketClosed, ShutInput
<1>3. \A v : [v EXCEPT !.store = v.store \ {i}] = SetStore(v, v.store \ {i})  BY DEF SetStore
<1>4. StreamClosed(w, i, "input", again) = Leave(OutputSocketClosed(w, i, again), i)
  <2> DEFINE v == OutputSocketClosed(w, i, again)
  <2>1. StreamClosed(w, i, "input", again)
          = DeleteController(EmptyHostResolverCacheIfNeeded([v EXCEPT !.store = v.store \ {i}]), i)
    BY DEF StreamClosed
  <2> HIDE DEF v
  <2> QED BY <1>3, <2>1 DEF Leave, v
<1>5. StreamClosed(w, i, "output", again) = Leave(InputSocketClosed(w, i, again), i)
  <2> DEFINE v == InputSocketClosed(w, i, again)
  <2>1. StreamClosed(w, i, "output", again)
          = DeleteController(EmptyHostResolverCacheIfNeeded([v EXCEPT !.store = v.store \ {i}]), i)
    BY DEF StreamClosed
  <2> HIDE DEF v
  <2> QED BY <1>3, <2>1 DEF Leave, v
<1> QED BY <1>1, <1>2, <1>4, <1>5

\* StreamClosed, as a world.
LEMMA StreamClosedTurns ==
  ASSUME NEW l \in [Links -> Link], NEW g \in [Mgr -> Manager], NEW s, NEW c, NEW h, NEW r, NEW n,
         NEW i \in Links, NEW m \in Mgr, l[i].owner = m, l[i].connector = "gone", i \in s,
         NEW k, k = Upd(l, i, DeletedLink), NEW v, v = s \ {i}, NEW again \in BOOLEAN
  PROVE  /\ l[i].input = "EClosed" /\ (g[m].in = 0 \/ ~again) =>
              StreamClosed(W(l, g, s, c, h, r, n), i, "input", again)
                = W(k, Upd(g, m, DroppedOut(g[m])), v, CacheLeft(k, v, c), HandlesLeft(k, v, c, h), r, n)
         /\ l[i].output = "EClosed" /\ g[m].out = 0 =>
              StreamClosed(W(l, g, s, c, h, r, n), i, "output", again)
                = W(k, Upd(g, m, DroppedIn(g[m])), v, CacheLeft(k, v, c), HandlesLeft(k, v, c, h), r, n)
<1> DEFINE w == W(l, g, s, c, h, r, n)
           x == l[i]
<1>1. w.link = l /\ w.store = s  BY DEF W
<1>2. x \in Link  OBVIOUS
<1>3. \A z : Upd(Upd(Upd(l, i, z), i, ShutOut(z)), i, DeletedLink) = k
             /\ Upd(Upd(Upd(l, i, z), i, ShutIn(z)), i, DeletedLink) = k
  BY Twice
<1> HIDE DEF w
<1>4. ASSUME x.input = "EClosed", g[m].in = 0 \/ ~again
      PROVE  StreamClosed(w, i, "input", again)
               = W(k, Upd(g, m, DroppedOut(g[m])), v, CacheLeft(k, v, c), HandlesLeft(k, v, c, h), r, n)
  <2> DEFINE p == Upd(g, m, DroppedOut(g[m]))
             z == Unwritten(x)
             e == Upd(l, i, z)
             f == Upd(e, i, ShutOut(z))
  <2>1. CancelWrite(w, i) = W(e, g, s, c, h, r, n)  BY ShutTurns DEF w
  <2>2. OutputStreamCloseInd(W(e, g, s, c, h, r, n), m, again) = W(e, p, s, c, h, r, n)
    <3>1. g[m].in = 0 \/ ~again  BY <1>4
    <3> HIDE DEF e
    <3> QED BY <3>1, CloseIndTurns
  <2>3. /\ z \in Link /\ ShutOut(z) \in Link /\ ShutOut(z).input = "EClosed"
        /\ ShutOut(z).output = "EClosed" /\ ShutOut(z).connector = "gone"
    BY <1>2, <1>4, ShutLink
  <2>4. Upd(f, i, DeletedLink) = k  BY <1>3
  <2> HIDE DEF p, z
  <2>5. e \in [Links -> Link] /\ e[i] = z
    <3>1. l \in [Links -> Link] /\ i \in Links /\ z \in Link  BY <2>3
    <3> QED BY <3>1, UpdTyped, ZenonT(30)
  <2>6. ShutOutput(W(e, p, s, c, h, r, n), i) = W(f, p, s, c, h, r, n)
    <3> HIDE DEF e
    <3> QED BY <2>5, ShutTurns
  <2> HIDE DEF e
  <2>7. f \in [Links -> Link] /\ f[i] = ShutOut(z)
    <3> DEFINE y == ShutOut(z)
    <3>1. y \in Link  BY <2>3
    <3> HIDE DEF y
    <3>2. Upd(e, i, y) \in [Links -> Link] /\ Upd(e, i, y)[i] = y  BY <2>5, <3>1, UpdTyped
    <3> QED BY <3>2 DEF y
  <2> HIDE DEF f
  <2>8. Leave(W(f, p, s, c, h, r, n), i) = W(k, p, v, CacheLeft(k, v, c), HandlesLeft(k, v, c, h), r, n)
    BY <2>3, <2>4, <2>7, LeaveTurns
  <2>9. StreamClosed(w, i, "input", again)
          = Leave(ShutOutput(OutputStreamCloseInd(CancelWrite(w, i), m, again), i), i)
    BY <1>1, StreamClosedIs
  <2> QED BY <2>1, <2>2, <2>6, <2>8, <2>9 DEF p
<1>5. ASSUME x.output = "EClosed", g[m].out = 0
      PROVE  StreamClosed(w, i, "output", again)
               = W(k, Upd(g, m, DroppedIn(g[m])), v, CacheLeft(k, v, c), HandlesLeft(k, v, c, h), r, n)
  <2> DEFINE p == Upd(g, m, DroppedIn(g[m]))
             z == Unread(x)
             e == Upd(l, i, z)
             f == Upd(e, i, ShutIn(z))
  <2>1. CancelRead(w, i) = W(e, g, s, c, h, r, n)  BY ShutTurns DEF w
  <2>2. InputStreamCloseInd(W(e, g, s, c, h, r, n), m, again) = W(e, p, s, c, h, r, n)
    <3>1. g[m].out = 0 \/ ~again  BY <1>5
    <3> HIDE DEF e
    <3> QED BY <3>1, CloseIndTurns
  <2>3. /\ z \in Link /\ ShutIn(z) \in Link /\ ShutIn(z).input = "EClosed"
        /\ ShutIn(z).output = "EClosed" /\ ShutIn(z).connector = "gone"
    BY <1>2, <1>5, ShutLink
  <2>4. Upd(f, i, DeletedLink) = k  BY <1>3
  <2> HIDE DEF p, z
  <2>5. e \in [Links -> Link] /\ e[i] = z
    <3>1. l \in [Links -> Link] /\ i \in Links /\ z \in Link  BY <2>3
    <3> QED BY <3>1, UpdTyped, ZenonT(30)
  <2>6. ShutInput(W(e, p, s, c, h, r, n), i) = W(f, p, s, c, h, r, n)
    <3> HIDE DEF e
    <3> QED BY <2>5, ShutTurns
  <2> HIDE DEF e
  <2>7. f \in [Links -> Link] /\ f[i] = ShutIn(z)
    <3> DEFINE y == ShutIn(z)
    <3>1. y \in Link  BY <2>3
    <3> HIDE DEF y
    <3>2. Upd(e, i, y) \in [Links -> Link] /\ Upd(e, i, y)[i] = y  BY <2>5, <3>1, UpdTyped
    <3> QED BY <3>2 DEF y
  <2> HIDE DEF f
  <2>8. Leave(W(f, p, s, c, h, r, n), i) = W(k, p, v, CacheLeft(k, v, c), HandlesLeft(k, v, c, h), r, n)
    BY <2>3, <2>4, <2>7, LeaveTurns
  <2>9. StreamClosed(w, i, "output", again)
          = Leave(ShutInput(InputStreamCloseInd(CancelRead(w, i), m, again), i), i)
    BY <1>1, StreamClosedIs
  <2> QED BY <2>1, <2>2, <2>6, <2>8, <2>9 DEF p
<1> QED BY <1>4, <1>5 DEF w

\* The RunError of either stream in its steps.
LEMMA FailsIs ==
  \A w, i, again :
    /\ InputFails(w, i, again)
         = StreamClosed(InputStreamCloseInd(CancelRead(ShutInput(w, i), i), w.link[i].owner, again), i, "input", again)
    /\ OutputFails(w, i, again)
         = StreamClosed(OutputStreamCloseInd(CancelWrite(ShutOutput(w, i), i), w.link[i].owner, again), i, "output", again)
<1>1. \A w, i : /\ [w EXCEPT !.link[i].input = "EClosed", !.link[i].read = "none"] = CancelRead(ShutInput(w, i), i)
                /\ [w EXCEPT !.link[i].output = "EClosed", !.link[i].write = "none"] = CancelWrite(ShutOutput(w, i), i)
  BY DEF CancelRead, ShutInput, CancelWrite, ShutOutput
<1> QED BY <1>1 DEF InputFails, OutputFails

\* The connection is lost, by its input or its output stream.
LEMMA LossTurns ==
  ASSUME NEW l \in [Links -> Link], NEW g \in [Mgr -> Manager], NEW s, NEW c, NEW h, NEW r, NEW n,
         NEW i \in Links, NEW m \in Mgr, l[i].owner = m, l[i].connector = "gone", i \in s,
         g[m].in = i, g[m].out = i,
         NEW k, k = Upd(l, i, DeletedLink), NEW v, v = s \ {i}, NEW again \in BOOLEAN, ~again
  PROVE  /\ InputFails(W(l, g, s, c, h, r, n), i, again)
              = W(k, Upd(g, m, NewManager), v, CacheLeft(k, v, c), HandlesLeft(k, v, c, h), r, n)
         /\ OutputFails(W(l, g, s, c, h, r, n), i, again)
              = W(k, Upd(g, m, NewManager), v, CacheLeft(k, v, c), HandlesLeft(k, v, c, h), r, n)
<1> DEFINE w == W(l, g, s, c, h, r, n)
           y == g[m]
           Over == W(k, Upd(g, m, NewManager), v, CacheLeft(k, v, c), HandlesLeft(k, v, c, h), r, n)
<1>1. w.link = l  BY DEF W
<1>2. /\ DroppedIn(y).in = 0 /\ DroppedOut(y).out = 0
      /\ DroppedIn(y) \in Manager /\ DroppedOut(y) \in Manager
      /\ DroppedOut(DroppedIn(y)) = NewManager /\ DroppedIn(DroppedOut(y)) = NewManager
  BY DropAll
<1> HIDE DEF w
<1>3. InputFails(w, i, again) = Over
  <2> DEFINE x == ShutIn(l[i])
             z == Unread(x)
             a == Upd(l, i, x)
             b == Upd(a, i, z)
             p == Upd(g, m, DroppedIn(y))
  <2>1. x \in Link /\ z \in Link /\ z.owner = m /\ z.connector = "gone" /\ z.input = "EClosed"
    <3>1. l[i] \in Link  OBVIOUS
    <3> QED BY <3>1, ShutLink
  <2> HIDE DEF x, z
  <2>2. a \in [Links -> Link] /\ a[i] = x /\ b = Upd(l, i, z)
    <3>1. a \in [Links -> Link] /\ a[i] = x  BY <2>1, UpdTyped
    <3> QED BY <3>1, Twice
  <2>3. ShutInput(w, i) = W(a, g, s, c, h, r, n)  BY ShutTurns DEF w, x
  <2> HIDE DEF a
  <2>4. CancelRead(W(a, g, s, c, h, r, n), i) = W(b, g, s, c, h, r, n)
    BY <2>2, ShutTurns DEF z
  <2> HIDE DEF b
  <2>5. b \in [Links -> Link] /\ b[i] = z /\ k = Upd(b, i, DeletedLink)
    <3>1. b \in [Links -> Link] /\ b[i] = z
      <4>1. l \in [Links -> Link] /\ i \in Links /\ z \in Link  BY <2>1
      <4>2. Upd(l, i, z) \in [Links -> Link] /\ Upd(l, i, z)[i] = z  BY <4>1, UpdTyped
      <4> QED BY <2>2, <4>2
    <3> QED BY <2>2, <3>1, Twice
  <2>6. InputStreamCloseInd(W(b, g, s, c, h, r, n), m, again) = W(b, p, s, c, h, r, n)
    BY CloseIndTurns
  <2>7. p \in [Mgr -> Manager] /\ p[m] = DroppedIn(y) /\ Upd(p, m, NewManager) = Upd(g, m, NewManager)
    <3> DEFINE q == DroppedIn(y)
    <3>1. q \in Manager  BY <1>2
    <3> HIDE DEF q
    <3>2. Upd(g, m, q) \in [Mgr -> Manager] /\ Upd(g, m, q)[m] = q  BY <3>1, UpdTyped
    <3> QED BY <3>2, Twice DEF q
  <2> HIDE DEF p
  <2>8. StreamClosed(W(b, p, s, c, h, r, n), i, "input", again)
          = W(k, Upd(p, m, DroppedOut(p[m])), v, CacheLeft(k, v, c), HandlesLeft(k, v, c, h), r, n)
    <3>1. b[i].owner = m /\ b[i].connector = "gone" /\ b[i].input = "EClosed" /\ p[m].in = 0
      BY <1>2, <2>1, <2>5, <2>7
    <3> QED BY <2>5, <2>7, <3>1, StreamClosedTurns
  <2> QED BY <1>1, <1>2, <2>3, <2>4, <2>6, <2>7, <2>8, FailsIs
<1>4. OutputFails(w, i, again) = Over
  <2> DEFINE x == ShutOut(l[i])
             z == Unwritten(x)
             a == Upd(l, i, x)
             b == Upd(a, i, z)
             p == Upd(g, m, DroppedOut(y))
  <2>1. x \in Link /\ z \in Link /\ z.owner = m /\ z.connector = "gone" /\ z.output = "EClosed"
    <3>1. l[i] \in Link  OBVIOUS
    <3> QED BY <3>1, ShutLink
  <2> HIDE DEF x, z
  <2>2. a \in [Links -> Link] /\ a[i] = x /\ b = Upd(l, i, z)
    <3>1. a \in [Links -> Link] /\ a[i] = x  BY <2>1, UpdTyped
    <3> QED BY <3>1, Twice
  <2>3. ShutOutput(w, i) = W(a, g, s, c, h, r, n)  BY ShutTurns DEF w, x
  <2> HIDE DEF a
  <2>4. CancelWrite(W(a, g, s, c, h, r, n), i) = W(b, g, s, c, h, r, n)
    BY <2>2, ShutTurns DEF z
  <2> HIDE DEF b
  <2>5. b \in [Links -> Link] /\ b[i] = z /\ k = Upd(b, i, DeletedLink)
    <3>1. b \in [Links -> Link] /\ b[i] = z
      <4>1. l \in [Links -> Link] /\ i \in Links /\ z \in Link  BY <2>1
      <4>2. Upd(l, i, z) \in [Links -> Link] /\ Upd(l, i, z)[i] = z  BY <4>1, UpdTyped
      <4> QED BY <2>2, <4>2
    <3> QED BY <2>2, <3>1, Twice
  <2>6. OutputStreamCloseInd(W(b, g, s, c, h, r, n), m, again) = W(b, p, s, c, h, r, n)
    BY CloseIndTurns
  <2>7. p \in [Mgr -> Manager] /\ p[m] = DroppedOut(y) /\ Upd(p, m, NewManager) = Upd(g, m, NewManager)
    <3> DEFINE q == DroppedOut(y)
    <3>1. q \in Manager  BY <1>2
    <3> HIDE DEF q
    <3>2. Upd(g, m, q) \in [Mgr -> Manager] /\ Upd(g, m, q)[m] = q  BY <3>1, UpdTyped
    <3> QED BY <3>2, Twice DEF q
  <2> HIDE DEF p
  <2>8. StreamClosed(W(b, p, s, c, h, r, n), i, "output", again)
          = W(k, Upd(p, m, DroppedIn(p[m])), v, CacheLeft(k, v, c), HandlesLeft(k, v, c, h), r, n)
    <3>1. b[i].owner = m /\ b[i].connector = "gone" /\ b[i].output = "EClosed" /\ p[m].out = 0
      BY <1>2, <2>1, <2>5, <2>7
    <3> QED BY <2>5, <2>7, <3>1, StreamClosedTurns
  <2> QED BY <1>1, <1>2, <2>3, <2>4, <2>6, <2>7, <2>8, FailsIs
<1> QED BY <1>3, <1>4 DEF w

\* The link of a connection that is made again.
LEMMA AnewIs ==
  ASSUME NEW m \in Mgr
  PROVE  Attempt(Anew(m), m) /\ Anew(m).connector = "EConnected"
BY NewOwned, Attempts DEF Anew, Live

\* There is room in b, the links l with z in the place of i, to connect again.
Room(b, z, l, k, v, c, h, i, m) ==
  /\ b \in [Links -> Link]
  /\ \A j \in Links : b[j].connector = "unused" => b[j] = NewLink /\ l[j].connector = "unused"
  /\ \A j \in Links : b[j].connector = "unused" =>
       /\ j # i /\ Upd(b, j, Anew(m)) \in [Links -> Link] /\ Upd(b, j, Anew(m))[i] = z
       /\ Upd(Upd(b, j, Anew(m)), i, DeletedLink) = Upd(k, j, Anew(m))
       /\ CacheLeft(Upd(k, j, Anew(m)), v, c) = c /\ HandlesLeft(Upd(k, j, Anew(m)), v, c, h) = h

\* The connection is gone, and m has begun another.
Remade(u, l, g, m, k, v, c, h, r, n) ==
  \E j \in Links : /\ l[j].connector = "unused"
                   /\ u = W(Upd(k, j, Anew(m)), Upd(g, m, Connecting(j)), v, c, h, r, n)

\* ... and made again.
LEMMA LossAgainTurns ==
  ASSUME NEW l \in [Links -> Link], NEW g \in [Mgr -> Manager], NEW s, NEW c, NEW h, NEW r, NEW n,
         NEW i \in Links, NEW m \in Mgr, l[i].owner = m, l[i].connector = "gone", i \in s,
         g[m].in = i, g[m].out = i, g[m].phase # "closing",
         NEW k, k = Upd(l, i, DeletedLink), NEW v, v = s \ {i}, NEW again \in BOOLEAN, again # FALSE,
         CanConnect(W(l, g, s, c, h, r, n)),
         \A j \in Links : l[j].connector = "unused" => l[j] = NewLink
  PROVE  /\ Remade(InputFails(W(l, g, s, c, h, r, n), i, again), l, g, m, k, v, c, h, r, n)
         /\ Remade(OutputFails(W(l, g, s, c, h, r, n), i, again), l, g, m, k, v, c, h, r, n)
<1> DEFINE w == W(l, g, s, c, h, r, n)
           y == g[m]
<1>1. w.link = l  BY DEF W
<1>2. /\ i # 0
      /\ \A j \in Links :
           /\ Towards(Idle(WithoutIn(y)), j).in = 0 /\ Towards(Idle(WithoutOut(y)), j).out = 0
           /\ Towards(Idle(WithoutIn(y)), j) \in Manager /\ Towards(Idle(WithoutOut(y)), j) \in Manager
           /\ DroppedOut(Towards(Idle(WithoutIn(y)), j)) = Connecting(j)
           /\ DroppedIn(Towards(Idle(WithoutOut(y)), j)) = Connecting(j)
  BY DropAll, LinksFinite
<1> HIDE DEF w
\* What both have in common: a link z in the place of i, and a new one.
<1>3. ASSUME NEW z \in Link, z.owner = m, z.connector = "gone", NEW b, b = Upd(l, i, z)
      PROVE  Room(b, z, l, k, v, c, h, i, m) /\ CanConnect(W(b, g, s, c, h, r, n))
  <2>1. Upd(l, i, z) \in [Links -> Link] /\ Upd(l, i, z)[i] = z  BY UpdTyped
  <2>2. b \in [Links -> Link] /\ b[i] = z /\ \A j \in Links : j # i => b[j] = l[j]
    BY <1>3, <2>1, UpdTyped
  <2>3. CanConnect(W(b, g, s, c, h, r, n))
    <3>1. PICK j \in Links : l[j].connector = "unused"  BY <1>1 DEF CanConnect, w
    <3>2. b[j].connector = "unused"  BY <2>2, <3>1
    <3> QED BY <3>2 DEF CanConnect, W
  <2>4. ASSUME NEW j \in Links, b[j].connector = "unused"
        PROVE  j # i /\ b[j] = NewLink /\ l[j].connector = "unused"
    BY <1>3, <2>2, <2>4
  <2>5. ASSUME NEW j \in Links, j # i
        PROVE  /\ Upd(b, j, Anew(m)) \in [Links -> Link] /\ Upd(b, j, Anew(m))[i] = z
               /\ Upd(Upd(b, j, Anew(m)), i, DeletedLink) = Upd(k, j, Anew(m))
               /\ CacheLeft(Upd(k, j, Anew(m)), v, c) = c /\ HandlesLeft(Upd(k, j, Anew(m)), v, c, h) = h
    <3> DEFINE a == Anew(m)
               e == Upd(b, j, a)
               f == Upd(k, j, a)
    <3>1. a \in Link /\ a.connector \in Live  BY AnewIs DEF Attempt
    <3> HIDE DEF a
    <3>2. e \in [Links -> Link] /\ e[i] = z
      <4>1. e \in [Links -> Link]  BY <2>2, <3>1, UpdTyped
      <4>2. e[i] = b[i]  BY <2>5, UpdTyped
      <4> QED BY <2>2, <4>1, <4>2
    <3>3. Upd(e, i, DeletedLink) = f  BY <1>3, <2>5 DEF Upd
    <3>4. f[j] = a  BY DEF Upd
    <3> HIDE DEF e, f
    <3>5. ~Unused(f, v)  BY <3>1, <3>4 DEF Unused
    <3> QED BY <3>2, <3>3, <3>5 DEF CacheLeft, HandlesLeft, e, f, a
  <2> QED BY <2>2, <2>3, <2>4, <2>5 DEF Room
<1>4. \E j \in Links :
        /\ l[j].connector = "unused"
        /\ InputFails(w, i, again) = W(Upd(k, j, Anew(m)), Upd(g, m, Connecting(j)), v, c, h, r, n)
  <2> DEFINE x == ShutIn(l[i])
             z == Unread(x)
             a == Upd(l, i, x)
             b == Upd(a, i, z)
  <2>1. x \in Link /\ z \in Link /\ z.owner = m /\ z.connector = "gone" /\ z.input = "EClosed"
    <3>1. l[i] \in Link  OBVIOUS
    <3> QED BY <3>1, ShutLink
  <2>2. a[i] = x /\ b = Upd(l, i, z)
    <3> HIDE DEF x, z
    <3> QED BY <2>1, Twice
  <2> HIDE DEF z
  <2>3. ShutInput(w, i) = W(a, g, s, c, h, r, n)  BY ShutTurns DEF w
  <2> HIDE DEF x, a
  <2>4. CancelRead(W(a, g, s, c, h, r, n), i) = W(b, g, s, c, h, r, n)  BY <2>2, ShutTurns DEF z
  <2> HIDE DEF b
  <2>5. Room(b, z, l, k, v, c, h, i, m) /\ CanConnect(W(b, g, s, c, h, r, n))
    BY <1>3, <2>1, <2>2
  <2>6. PICK j \in Links :
          /\ b[j].connector = "unused"
          /\ b[j] = NewLink
          /\ Reconnected(InputStreamCloseInd(W(b, g, s, c, h, r, n), m, again), WithoutIn(g[m]), b, g, s, c, h, r, n, m, j)
    <3>1. /\ b \in [Links -> Link] /\ CanConnect(W(b, g, s, c, h, r, n))
          /\ \A j \in Links : b[j].connector = "unused" => b[j] = NewLink
      BY <2>5 DEF Room
    <3>2. g[m].in # 0 /\ g[m].out # 0 /\ s # {}  BY <1>2
    <3>3. again  OBVIOUS
    <3> QED BY <3>1, <3>2, <3>3, ReconnectTurns
  <2> DEFINE q == Towards(Idle(WithoutIn(y)), j)
             p == Upd(g, m, q)
             e == Upd(b, j, Anew(m))
             f == Upd(k, j, Anew(m))
  <2>7. q \in Manager /\ q.in = 0 /\ DroppedOut(q) = Connecting(j)  BY <1>2
  <2> HIDE DEF q
  <2>8. p \in [Mgr -> Manager] /\ p[m] = q /\ Upd(p, m, Connecting(j)) = Upd(g, m, Connecting(j))
    <3>1. p \in [Mgr -> Manager] /\ p[m] = q  BY <2>7, UpdTyped
    <3> QED BY <3>1, Twice
  <2>9. e \in [Links -> Link] /\ e[i] = z /\ f = Upd(e, i, DeletedLink) /\ CacheLeft(f, v, c) = c /\ HandlesLeft(f, v, c, h) = h
    BY <2>5, <2>6 DEF Room
  <2> HIDE DEF e, f, p
  <2>10. StreamClosed(W(e, p, s, c, h, r, n), i, "input", again)
           = W(f, Upd(p, m, DroppedOut(p[m])), v, CacheLeft(f, v, c), HandlesLeft(f, v, c, h), r, n)
    <3>1. e[i].owner = m /\ e[i].connector = "gone" /\ e[i].input = "EClosed" /\ p[m].in = 0
      BY <2>1, <2>7, <2>8, <2>9
    <3>2. e \in [Links -> Link] /\ f = Upd(e, i, DeletedLink) /\ p \in [Mgr -> Manager]  BY <2>8, <2>9
    <3> QED BY <3>1, <3>2, StreamClosedTurns
  <2>11. InputFails(w, i, again) = W(f, Upd(g, m, Connecting(j)), v, c, h, r, n)
    <3>1. InputStreamCloseInd(W(b, g, s, c, h, r, n), m, again) = W(e, p, s, c, h, r, n)  BY <2>6 DEF e, p, q, Reconnected
    <3> QED BY <1>1, <2>3, <2>4, <2>7, <2>8, <2>9, <2>10, <3>1, FailsIs
  <2> QED BY <2>5, <2>6, <2>11 DEF f, Room
<1>5. \E j \in Links :
        /\ l[j].connector = "unused"
        /\ OutputFails(w, i, again) = W(Upd(k, j, Anew(m)), Upd(g, m, Connecting(j)), v, c, h, r, n)
  <2> DEFINE x == ShutOut(l[i])
             z == Unwritten(x)
             a == Upd(l, i, x)
             b == Upd(a, i, z)
  <2>1. x \in Link /\ z \in Link /\ z.owner = m /\ z.connector = "gone" /\ z.output = "EClosed"
    <3>1. l[i] \in Link  OBVIOUS
    <3> QED BY <3>1, ShutLink
  <2>2. a[i] = x /\ b = Upd(l, i, z)
    <3> HIDE DEF x, z
    <3> QED BY <2>1, Twice
  <2> HIDE DEF z
  <2>3. ShutOutput(w, i) = W(a, g, s, c, h, r, n)  BY ShutTurns DEF w
  <2> HIDE DEF x, a
  <2>4. CancelWrite(W(a, g, s, c, h, r, n), i) = W(b, g, s, c, h, r, n)  BY <2>2, ShutTurns DEF z
  <2> HIDE DEF b
  <2>5. Room(b, z, l, k, v, c, h, i, m) /\ CanConnect(W(b, g, s, c, h, r, n))
    BY <1>3, <2>1, <2>2
  <2>6. PICK j \in Links :
          /\ b[j].connector = "unused"
          /\ b[j] = NewLink
          /\ Reconnected(OutputStreamCloseInd(W(b, g, s, c, h, r, n), m, again), WithoutOut(g[m]), b, g, s, c, h, r, n, m, j)
    <3>1. /\ b \in [Links -> Link] /\ CanConnect(W(b, g, s, c, h, r, n))
          /\ \A j \in Links : b[j].connector = "unused" => b[j] = NewLink
      BY <2>5 DEF Room
    <3>2. g[m].in # 0 /\ g[m].out # 0 /\ s # {}  BY <1>2
    <3>3. again  OBVIOUS
    <3> QED BY <3>1, <3>2, <3>3, ReconnectTurns
  <2> DEFINE q == Towards(Idle(WithoutOut(y)), j)
             p == Upd(g, m, q)
             e == Upd(b, j, Anew(m))
             f == Upd(k, j, Anew(m))
  <2>7. q \in Manager /\ q.out = 0 /\ DroppedIn(q) = Connecting(j)  BY <1>2
  <2> HIDE DEF q
  <2>8. p \in [Mgr -> Manager] /\ p[m] = q /\ Upd(p, m, Connecting(j)) = Upd(g, m, Connecting(j))
    <3>1. p \in [Mgr -> Manager] /\ p[m] = q  BY <2>7, UpdTyped
    <3> QED BY <3>1, Twice
  <2>9. e \in [Links -> Link] /\ e[i] = z /\ f = Upd(e, i, DeletedLink) /\ CacheLeft(f, v, c) = c /\ HandlesLeft(f, v, c, h) = h
    BY <2>5, <2>6 DEF Room
  <2> HIDE DEF e, f, p
  <2>10. StreamClosed(W(e, p, s, c, h, r, n), i, "output", again)
           = W(f, Upd(p, m, DroppedIn(p[m])), v, CacheLeft(f, v, c), HandlesLeft(f, v, c, h), r, n)
    <3>1. e[i].owner = m /\ e[i].connector = "gone" /\ e[i].output = "EClosed" /\ p[m].out = 0
      BY <2>1, <2>7, <2>8, <2>9
    <3>2. e \in [Links -> Link] /\ f = Upd(e, i, DeletedLink) /\ p \in [Mgr -> Manager]  BY <2>8, <2>9
    <3> QED BY <3>1, <3>2, StreamClosedTurns
  <2>11. OutputFails(w, i, again) = W(f, Upd(g, m, Connecting(j)), v, c, h, r, n)
    <3>1. OutputStreamCloseInd(W(b, g, s, c, h, r, n), m, again) = W(e, p, s, c, h, r, n)  BY <2>6 DEF e, p, q, Reconnected
    <3> QED BY <1>1, <2>3, <2>4, <2>7, <2>8, <2>9, <2>10, <3>1, FailsIs
  <2> QED BY <2>5, <2>6, <2>11 DEF f, Room
<1> QED BY <1>4, <1>5 DEF w, Remade


\* CloseConnection in its steps.
LEMMA CloseConnectionIs ==
  ASSUME NEW w, NEW m, NEW i, i = w.mgr[m].in,
         NEW u, u = DropIn(StreamClosed(ShutInput(CancelRead(SetPhase(w, m, "closing"), i), i), i, "input", FALSE), m),
         u.mgr[m].phase = "idle"
  PROVE  CloseConnection(w, m) = u
<1>1. CloseConnection(w, m) = Check(u, u.mgr[m].phase = "idle", "EUser")
  BY DEF CloseConnection, DropIn, ShutInput, SetPhase
<1> QED BY <1>1 DEF Check

\* CloseConnection, as a world: the manager is idle in the end.
LEMMA CloseConnectionTurns ==
  ASSUME NEW l \in [Links -> Link], NEW g \in [Mgr -> Manager], NEW s, NEW c, NEW h, NEW r, NEW n,
         NEW i \in Links, NEW m \in Mgr, l[i].owner = m, l[i].connector = "gone", i \in s,
         g[m].in = i, g[m].out = i,
         NEW k, k = Upd(l, i, DeletedLink), NEW v, v = s \ {i}
  PROVE  CloseConnection(W(l, g, s, c, h, r, n), m)
           = W(k, Upd(g, m, NewManager), v, CacheLeft(k, v, c), HandlesLeft(k, v, c, h), r, n)
<1> DEFINE w == W(l, g, s, c, h, r, n)
           y == Phased(g[m], "closing")
           x == Unread(l[i])
           z == ShutIn(x)
           a == Upd(l, i, x)
           b == Upd(a, i, z)
           p == Upd(g, m, y)
           o == FALSE
           d == CacheLeft(k, v, c)
           f == HandlesLeft(k, v, c, h)
<1>1. w.mgr = g  BY DEF W
<1>2. y \in Manager /\ y.in = i /\ y.out = i  BY DEF Phased, Manager
<1>3. DroppedOut(y) \in Manager /\ WithoutIn(DroppedOut(y)) = NewManager
  <2> HIDE DEF y
  <2> QED BY <1>2, DropAll
<1>4. x \in Link /\ z \in Link /\ z.owner = m /\ z.connector = "gone" /\ z.input = "EClosed"
  <2>1. l[i] \in Link  OBVIOUS
  <2> QED BY <2>1, ShutLink
<1>5. SetPhase(w, m, "closing") = W(l, p, s, c, h, r, n)  BY PhaseTurns
<1> HIDE DEF y
<1>6. p \in [Mgr -> Manager] /\ p[m] = y /\ \A q : Upd(p, m, q) = Upd(g, m, q)
  <2>1. p \in [Mgr -> Manager] /\ p[m] = y  BY <1>2, UpdTyped
  <2> QED BY <2>1, Twice
<1> HIDE DEF p, w
<1>7. CancelRead(W(l, p, s, c, h, r, n), i) = W(a, p, s, c, h, r, n)  BY ShutTurns
<1> HIDE DEF x, z
<1>8. a[i] = x /\ b = Upd(l, i, z)  BY Twice, <1>4
<1>9. b \in [Links -> Link] /\ b[i] = z /\ Upd(b, i, DeletedLink) = k
  <2>1. l \in [Links -> Link] /\ i \in Links /\ z \in Link  BY <1>4
  <2>2. Upd(l, i, z) \in [Links -> Link] /\ Upd(l, i, z)[i] = z  BY <2>1, UpdTyped
  <2>3. Upd(Upd(l, i, z), i, DeletedLink) = k  BY Twice
  <2> QED BY <1>8, <2>2, <2>3
<1> HIDE DEF a
<1>10. ShutInput(W(a, p, s, c, h, r, n), i) = W(b, p, s, c, h, r, n)  BY <1>8, ShutTurns DEF z
<1> HIDE DEF b
<1>11. ~o /\ o \in BOOLEAN /\ o = FALSE  OBVIOUS
<1> HIDE DEF o
<1>12. StreamClosed(W(b, p, s, c, h, r, n), i, "input", o) = W(k, Upd(g, m, DroppedOut(y)), v, d, f, r, n)
  <2>1. b[i].owner = m /\ b[i].connector = "gone" /\ b[i].input = "EClosed" /\ k = Upd(b, i, DeletedLink)
    BY <1>4, <1>9
  <2>2. StreamClosed(W(b, p, s, c, h, r, n), i, "input", o)
          = W(k, Upd(p, m, DroppedOut(p[m])), v, CacheLeft(k, v, c), HandlesLeft(k, v, c, h), r, n)
    BY <1>6, <1>9, <1>11, <2>1, StreamClosedTurns
  <2> QED BY <1>6, <2>2
<1> HIDE DEF d, f
<1>13. DropIn(W(k, Upd(g, m, DroppedOut(y)), v, d, f, r, n), m) = W(k, Upd(g, m, NewManager), v, d, f, r, n)
  <2> DEFINE q == DroppedOut(y)
             e == Upd(g, m, q)
  <2>1. q \in Manager /\ WithoutIn(q) = NewManager  BY <1>3
  <2> HIDE DEF q
  <2>2. e[m] = q /\ Upd(e, m, NewManager) = Upd(g, m, NewManager)
    <3>1. e[m] = q  BY <2>1, UpdTyped
    <3> QED BY <3>1, Twice
  <2> HIDE DEF e
  <2>3. DropIn(W(k, e, v, d, f, r, n), m) = W(k, Upd(e, m, WithoutIn(e[m])), v, d, f, r, n)  BY DropTurns
  <2> QED BY <2>1, <2>2, <2>3 DEF e, q
<1> DEFINE u == W(k, Upd(g, m, NewManager), v, d, f, r, n)
<1>14. u.mgr[m].phase = "idle"
  <2>1. u.mgr = Upd(g, m, NewManager)  BY WorldParts
  <2>2. Upd(g, m, NewManager)[m] = NewManager  BY ConnectingTyped, UpdTyped
  <2> QED BY <2>1, <2>2, NewFields
<1>15. u = DropIn(StreamClosed(ShutInput(CancelRead(SetPhase(w, m, "closing"), i), i), i, "input", o), m)
  BY <1>5, <1>7, <1>10, <1>12, <1>13
<1>16. u = DropIn(StreamClosed(ShutInput(CancelRead(SetPhase(w, m, "closing"), i), i), i, "input", FALSE), m)
  BY <1>15 DEF o
<1> HIDE DEF u
<1>17. CloseConnection(w, m) = u
  BY <1>1, <1>14, <1>16, CloseConnectionIs
<1> QED BY <1>17 DEF u, w, d, f

\* A link whose controller is deleted is a link.
LEMMA DeletedTyped == DeletedLink \in Link
<1>1. 0 \in 0 .. MaxConnects /\ 0 \in 0 .. MaxData  BY ConstantsAssumption
<1> QED BY <1>1 DEF DeletedLink, NewLink, Link, ConnectStates, Requests, InputStates, OutputStates

\* A good world without the connection i.
LEMMA LossGood ==
  ASSUME NEW l, NEW g, NEW s, NEW c, NEW h, NEW r, NEW n, Good(l, g, s, c, h, r, n),
         NEW i \in s, NEW m, m = l[i].owner, NEW q, q = IF r = i THEN 0 ELSE r,
         NEW k, k = Upd(l, i, DeletedLink), NEW v, v = s \ {i}
  PROVE  /\ i \in Links /\ m \in Mgr
         /\ Good(k, Upd(g, m, NewManager), v, c, h, q, n)
         /\ Good(k, Upd(g, m, NewManager), v, CacheLeft(k, v, c), HandlesLeft(k, v, c, h), q, n)
         /\ \A j \in Links : l[j].connector = "unused" =>
              Good(Upd(k, j, Anew(m)), Upd(g, m, Connecting(j)), v, c, h, q, n)
<1> DEFINE x == DeletedLink
           p == Upd(g, m, NewManager)
<1>1. /\ l \in [Links -> Link] /\ g \in [Mgr -> Manager] /\ s \subseteq Links /\ n \in 0 .. MaxData /\ n \in Int
      /\ Resolvers(l, c, h) /\ c \in Seq(Links) /\ h \in SUBSET Links /\ h \subseteq Links /\ i \in Links
      /\ r \in 0 .. MaxConnects
      /\ r # 0 => r \in s
  BY DEF Good, Typed
<1>2. l[i].connector = "gone" /\ m \in Mgr  BY <1>1, LinkStands
<1>3. Mine(i, m, l, g, s)  BY DEF Mine
<1>4. x \in Link /\ x.connector = "gone" /\ x.controller = "deleted"  BY DeletedTyped, NewFields
<1>5. /\ k \in [Links -> Link] /\ k[i] = x
      /\ \A j \in Links : j # i => k[j] = l[j]
      /\ p \in [Mgr -> Manager] /\ p[m] = NewManager
  <2>1. k \in [Links -> Link] /\ k[i] = x
    <3> HIDE DEF x
    <3>1. Upd(l, i, x) \in [Links -> Link] /\ Upd(l, i, x)[i] = x  BY <1>1, <1>4, UpdTyped
    <3> QED BY <3>1 DEF x
  <2>2. \A j \in Links : j # i => k[j] = l[j]  BY UpdTyped
  <2>3. p \in [Mgr -> Manager] /\ p[m] = NewManager  BY <1>1, <1>2, ConnectingTyped, UpdTyped
  <2> QED BY <2>1, <2>2, <2>3
<1>6. k = Upd(l, i, x)  OBVIOUS
<1>7. Linked(i, k, p, q)  BY <1>5 DEF Linked
<1>8. Managed(m, k, p, v)  BY <1>5 DEF Managed
<1>9. NewManager \in Manager /\ NewManager.asked <= n /\ n <= n  BY <1>1, NewFields, ConnectingTyped
<1> HIDE DEF x
<1>10. Resolvers(k, c, h)
  <2>1. Resolvers(Upd(l, i, x), c, h)  BY <1>1, <1>2, <1>4, ResolversStay
  <2> QED BY <1>6, <2>1
<1>11. /\ v = IF x.controller = "up" THEN s \cup {i} ELSE s \ {i}
       /\ q # 0 => q \in v
       /\ q = r \/ (r \in {0, i} /\ q \in {0, i})
  BY <1>1, <1>4
<1>12. ASSUME NEW d \in Seq(Links), NEW f \in SUBSET Links, Resolvers(k, d, f)
       PROVE  Good(k, p, v, d, f, q, n)
  <2> DEFINE y == NewManager
  <2>1. Linked(i, Upd(l, i, x), Upd(g, m, y), q) /\ Managed(m, Upd(l, i, x), Upd(g, m, y), v)  BY <1>6, <1>7, <1>8
  <2>2. y \in Manager /\ y.asked <= n  BY <1>9
  <2>3. Resolvers(Upd(l, i, x), d, f)  BY <1>6, <1>12
  <2> HIDE DEF y
  <2>4. Good(Upd(l, i, x), Upd(g, m, y), v, d, f, q, n)
    BY <1>1, <1>2, <1>3, <1>4, <1>9, <1>11, <2>1, <2>2, <2>3, GoodTurn, SMTT(30)
  <2> QED BY <1>6, <2>4 DEF y
<1>13. Good(k, p, v, c, h, q, n)  BY <1>1, <1>10, <1>12
<1>14. Good(k, p, v, CacheLeft(k, v, c), HandlesLeft(k, v, c, h), q, n)
  <2>1. /\ CacheLeft(k, v, c) \in Seq(Links) /\ HandlesLeft(k, v, c, h) \in SUBSET Links
        /\ Resolvers(k, CacheLeft(k, v, c), HandlesLeft(k, v, c, h))
    BY <1>1, <1>5, <1>10, ResolversEmptied
  <2> QED BY <1>12, <2>1
<1>15. ASSUME NEW j \in Links, l[j].connector = "unused"
       PROVE  Good(Upd(k, j, Anew(m)), Upd(g, m, Connecting(j)), v, c, h, q, n)
  <2> DEFINE y == Anew(m)
  <2>1. k[j].connector = "unused"  BY <1>2, <1>5, <1>15
  <2>2. Attempt(y, m) /\ y.connector = "EConnected" /\ y \in Link  BY <1>2, AnewIs DEF Attempt
  <2> HIDE DEF y
  <2>3. Resolvers(Upd(k, j, y), c, h)  BY <1>1, <1>5, <1>10, <2>2, ResolversStay
  <2> HIDE DEF p
  <2>4. Good(Upd(k, j, y), Upd(p, m, Connecting(j)), v, c, h, q, n)
    BY <1>1, <1>2, <1>5, <1>13, <2>1, <2>2, <2>3, AttemptTurn
  <2>5. Upd(p, m, Connecting(j)) = Upd(g, m, Connecting(j))  BY Twice DEF p
  <2> QED BY <2>4, <2>5 DEF y
<1> QED BY <1>1, <1>2, <1>13, <1>14, <1>15

\* The RunError of either stream leads to a world that follows.
LEMMA LossFollows ==
  ASSUME NEW l, NEW g, NEW s, NEW c, NEW h, NEW r, NEW n, Good(l, g, s, c, h, r, n),
         NEW i \in s, NEW m, m = l[i].owner, r # i, NEW again \in BOOLEAN,
         again => CanConnect(W(l, g, s, c, h, r, n)),
         NEW x \in Link, x.owner = m, x.connector = "gone"
  PROVE  /\ Follows(InputFails(W(Upd(l, i, x), g, s, c, h, r, n), i, again), g)
         /\ Follows(OutputFails(W(Upd(l, i, x), g, s, c, h, r, n), i, again), g)
<1> DEFINE b == Upd(l, i, x)
           k == Upd(l, i, DeletedLink)
           v == s \ {i}
           w == W(b, g, s, c, h, r, n)
<1>1. l \in [Links -> Link] /\ g \in [Mgr -> Manager] /\ i \in Links  BY DEF Good, Typed
<1>2. /\ m \in Mgr /\ g[m].in = i /\ g[m].out = i /\ g[m].phase \in {"upgrading", "connected"}
      /\ l[i].connector = "gone"
  BY <1>1, LinkStands DEF Streaming
<1>3. b \in [Links -> Link] /\ b[i] = x /\ k = Upd(b, i, DeletedLink) /\ \A j \in Links : j # i => b[j] = l[j]
  <2>1. b \in [Links -> Link] /\ b[i] = x  BY <1>1, UpdTyped, ZenonT(30)
  <2>2. k = Upd(b, i, DeletedLink)  BY Twice
  <2>3. \A j \in Links : j # i => b[j] = l[j]  BY UpdTyped
  <2> QED BY <2>1, <2>2, <2>3
<1>4. \A j \in Links : l[j].connector = "unused" => l[j] = NewLink  BY LinkStands
<1>5. r = IF r = i THEN 0 ELSE r  OBVIOUS
<1>6. /\ Good(k, Upd(g, m, NewManager), v, CacheLeft(k, v, c), HandlesLeft(k, v, c, h), r, n)
      /\ \A j \in Links : l[j].connector = "unused" =>
           Good(Upd(k, j, Anew(m)), Upd(g, m, Connecting(j)), v, c, h, r, n)
  BY <1>5, LossGood
<1> HIDE DEF b, k, v
<1>7. /\ NewManager \in Manager /\ Promised(g[m], NewManager)
      /\ \A j \in Links : Connecting(j) \in Manager /\ Promised(g[m], Connecting(j))
  <2>1. g[m].phase # "idle"  BY <1>2
  <2>2. NewManager \in Manager /\ \A j \in Links : Connecting(j) \in Manager  BY <1>1, ConnectingTyped
  <2> QED BY <2>1, <2>2 DEF Promised
<1>8. CASE ~again
  <2>1. /\ b[i].owner = m /\ b[i].connector = "gone" /\ v = s \ {i}  BY <1>3 DEF v
  <2>2. /\ InputFails(w, i, again)
             = W(k, Upd(g, m, NewManager), v, CacheLeft(k, v, c), HandlesLeft(k, v, c, h), r, n)
        /\ OutputFails(w, i, again)
             = W(k, Upd(g, m, NewManager), v, CacheLeft(k, v, c), HandlesLeft(k, v, c, h), r, n)
    BY <1>1, <1>2, <1>3, <1>8, <2>1, LossTurns
  <2>3. Follows(W(k, Upd(g, m, NewManager), v, CacheLeft(k, v, c), HandlesLeft(k, v, c, h), r, n), g)
    BY <1>2, <1>6, <1>7, FollowsIs
  <2> QED BY <2>2, <2>3 DEF b
<1>9. CASE again # FALSE
  <2>1. /\ b[i].owner = m /\ b[i].connector = "gone" /\ v = s \ {i} /\ g[m].phase # "closing"
    BY <1>2, <1>3 DEF v
  <2>2. \A j \in Links : b[j].connector = "unused" => b[j] = NewLink /\ l[j].connector = "unused"
    BY <1>3, <1>4
  <2>3. CanConnect(w)
    <3>1. again  BY <1>9
    <3>2. PICK j \in Links : l[j].connector = "unused"  BY <3>1 DEF CanConnect, W
    <3>3. b[j].connector = "unused"  BY <1>2, <1>3, <3>2
    <3> QED BY <3>3 DEF CanConnect, W
  <2> HIDE DEF w
  <2>4. /\ Remade(InputFails(w, i, again), b, g, m, k, v, c, h, r, n)
        /\ Remade(OutputFails(w, i, again), b, g, m, k, v, c, h, r, n)
    <3>1. \A j \in Links : b[j].connector = "unused" => b[j] = NewLink  BY <2>2
    <3>2. b \in [Links -> Link] /\ g \in [Mgr -> Manager] /\ k = Upd(b, i, DeletedLink)  BY <1>1, <1>3
    <3>3. i \in Links /\ m \in Mgr /\ g[m].in = i /\ g[m].out = i  BY <1>1, <1>2
    <3>4. CanConnect(W(b, g, s, c, h, r, n))  BY <2>3 DEF w
    <3> QED BY <1>9, <2>1, <3>1, <3>2, <3>3, <3>4, LossAgainTurns DEF w
  <2>5. \A j \in Links : b[j].connector = "unused" =>
          Follows(W(Upd(k, j, Anew(m)), Upd(g, m, Connecting(j)), v, c, h, r, n), g)
    BY <1>2, <1>6, <1>7, <2>2, FollowsIs
  <2> QED BY <2>4, <2>5 DEF w, b, Remade
<1> QED BY <1>8, <1>9

-----------------------------------------------------------------------------
(* The streams *)

\* What a stream's step leaves alone.
SameLink(x, z) ==
  x \in Link /\ x.owner = z.owner /\ x.connector = z.connector /\ x.connect = z.connect /\ x.controller = z.controller
SameManager(y, z) ==
  y \in Manager /\ y.connector = z.connector /\ y.in = z.in /\ y.out = z.out

\* What a good world says of an open connection.
LEMMA StreamStands ==
  ASSUME NEW l, NEW g, NEW s, NEW c, NEW h, NEW r, NEW n, Good(l, g, s, c, h, r, n), NEW i \in s
  PROVE  /\ i \in Links /\ l[i] \in Link /\ l[i].owner \in Mgr /\ g[l[i].owner] \in Manager
         /\ l[i].connector = "gone" /\ l[i].controller = "up"
         /\ g[l[i].owner].in = i /\ g[l[i].owner].out = i
         /\ Streaming(l[i], g[l[i].owner], r = i)
         /\ g[l[i].owner].asked <= n /\ n \in 0 .. MaxData /\ MaxData \in Nat
<1>1. i \in Links /\ n \in 0 .. MaxData /\ l \in [Links -> Link] /\ g \in [Mgr -> Manager]  BY DEF Good, Typed
<1>2. MaxData \in Nat  BY ConstantsAssumption
<1>3. /\ l[i].owner \in Mgr /\ l[i].connector = "gone" /\ l[i].controller = "up"
      /\ g[l[i].owner].in = i /\ g[l[i].owner].out = i
      /\ Streaming(l[i], g[l[i].owner], r = i)
  BY <1>1, LinkStands
<1>4. g[l[i].owner].asked <= n  BY <1>3 DEF Good
<1> QED BY <1>1, <1>2, <1>3, <1>4

\* A step of the streams of one connection leads to a world that follows.
LEMMA StreamFollows ==
  ASSUME NEW l, NEW g, NEW s, NEW c, NEW h, NEW r, NEW n, Good(l, g, s, c, h, r, n),
         NEW i \in s, NEW m, m = l[i].owner, NEW x, SameLink(x, l[i]), NEW y, SameManager(y, g[m]),
         NEW q, q = r \/ (r \in {0, i} /\ q \in {0, i}), NEW k \in 0 .. MaxData, n <= k, y.asked <= k,
         Streaming(x, y, q = i), Promised(g[m], y)
  PROVE  Follows(W(Upd(l, i, x), Upd(g, m, y), s, c, h, q, k), g)
<1> DEFINE e == Upd(l, i, x)
           p == Upd(g, m, y)
<1>1. /\ l \in [Links -> Link] /\ g \in [Mgr -> Manager] /\ s \subseteq Links /\ i \in Links
      /\ Resolvers(l, c, h) /\ c \in Seq(Links) /\ h \in SUBSET Links /\ h \subseteq Links
      /\ r # 0 => r \in s
  BY DEF Good, Typed
<1>2. /\ l[i].connector = "gone" /\ l[i].connect = "none" /\ l[i].controller = "up" /\ m \in Mgr
      /\ g[m].in = i /\ g[m].out = i /\ g[m].connector = 0
  BY <1>1, LinkStands
<1>3. /\ x \in Link /\ x.connector = "gone" /\ x.connect = "none" /\ x.controller = "up" /\ x.owner = m
      /\ y \in Manager /\ y.connector = 0 /\ y.in = i /\ y.out = i
  BY <1>2 DEF SameLink, SameManager
<1>4. Mine(i, m, l, g, s)  BY DEF Mine
<1>5. e[i] = x /\ p[m] = y
  <2>1. e[i] = x  BY <1>1, <1>3, UpdTyped
  <2>2. p[m] = y  BY <1>1, <1>2, <1>3, UpdTyped
  <2> QED BY <2>1, <2>2
<1>6. Resolvers(e, c, h)
  BY <1>1, <1>2, <1>3, ResolversStay
<1> HIDE DEF e, p
<1>7. Linked(i, e, p, q)  BY <1>2, <1>3, <1>5 DEF Linked
<1>8. Managed(m, e, p, s)  BY <1>3, <1>5 DEF Managed, Streaming
<1>9. s = IF x.controller = "up" THEN s \cup {i} ELSE s \ {i}  BY <1>3
<1>10. q # 0 => q \in s  BY <1>1
<1>11. Good(e, p, s, c, h, q, k)
  BY <1>1, <1>2, <1>3, <1>4, <1>6, <1>7, <1>8, <1>9, <1>10, GoodTurn DEF e, p
<1> QED BY <1>2, <1>3, <1>11, FollowsIs DEF e, p

\* A connection of which something is known is in the store.
LEMMA InStore ==
  ASSUME NEW l, NEW g, NEW s, NEW c, NEW h, NEW r, NEW n, Good(l, g, s, c, h, r, n), NEW i \in Links,
         l[i].read # "none" \/ l[i].write # "none" \/ l[i].timers # {} \/ l[i].controller = "up"
  PROVE  i \in s
<1>1. NewLink.read = "none" /\ NewLink.write = "none" /\ NewLink.timers = {} /\ NewLink.controller # "up"
  BY DEF NewLink
<1>2. DeletedLink.read = "none" /\ DeletedLink.write = "none" /\ DeletedLink.timers = {} /\ DeletedLink.controller # "up"
  BY DEF NewLink, DeletedLink
<1>3. i \in s \/ l[i] = NewLink \/ l[i] = DeletedLink \/ Quiet(l[i])  BY LinkStands
<1> QED BY <1>1, <1>2, <1>3 DEF Quiet

-----------------------------------------------------------------------------
(* The reader *)

\* A step of the streams of one connection keeps the invariant.
LEMMA StreamStep ==
  ASSUME IInv, NEW i \in store, NEW m, m = link[i].owner, NEW x, SameLink(x, link[i]),
         NEW y, SameManager(y, mgr[m]), NEW q, q = reading \/ (reading \in {0, i} /\ q \in {0, i}),
         NEW k \in 0 .. MaxData, sends <= k, y.asked <= k,
         Streaming(x, y, q = i), Promised(mgr[m], y),
         Becomes(W(Upd(link, i, x), Upd(mgr, m, y), store, cache, handles, q, k))
  PROVE  IInv' /\ Kept
<1>1. Good(link, mgr, store, cache, handles, reading, sends)  BY DEF IInv
<1>2. Follows(W(Upd(link, i, x), Upd(mgr, m, y), store, cache, handles, q, k), mgr)
  BY <1>1, StreamFollows
<1> QED BY <1>2, StepEnds

ReadStarted(x) == [x EXCEPT !.input = "EReceivedData", !.read = "pending"]
Delivered(x) == [x EXCEPT !.input = "EPendingAck", !.timers = x.timers \ {"receive"}]
Told(y, k) == [y EXCEPT !.got = k, !.holds = TRUE]
StartRead(w, i) == [w EXCEPT !.link[i].input = "EReceivedData", !.link[i].read = "pending"]
Deliver(w, i, m, k) ==
  [w EXCEPT !.link[i].input = "EPendingAck", !.mgr[m].got = k, !.mgr[m].holds = TRUE,
            !.link[i].timers = w.link[i].timers \ {"receive"}]

\* The delivery in its two writings.
LEMMA DeliverIs ==
  ASSUME NEW w, NEW i, NEW m, NEW k, "link" \in DOMAIN w, "mgr" \in DOMAIN w, i \in DOMAIN w.link, m \in DOMAIN w.mgr
  PROVE  Deliver(w, i, m, k) = PutMgr(PutLink(w, i, Delivered(w.link[i])), m, Told(w.mgr[m], k))
BY DEF Deliver, PutLink, PutMgr, Delivered, Told

\* The reader's two ways to go on, as worlds.
LEMMA StartReadTurns ==
  ASSUME NEW l, NEW g, NEW s, NEW c, NEW h, NEW r, NEW n, NEW i
  PROVE  StartRead(W(l, g, s, c, h, r, n), i) = W(Upd(l, i, ReadStarted(l[i])), g, s, c, h, r, n)
<1> DEFINE w == W(l, g, s, c, h, r, n)
<1>1. w.link = l  BY DEF W
<1>2. StartRead(w, i) = PutLink(w, i, ReadStarted(w.link[i]))  BY DEF StartRead, PutLink, ReadStarted, W
<1> QED BY <1>1, <1>2, PutTurns

\* The delivery of an answer, as a world.
LEMMA DeliverTurns ==
  ASSUME NEW l \in [Links -> Link], NEW g \in [Mgr -> Manager], NEW s, NEW c, NEW h, NEW r, NEW n,
         NEW i \in Links, NEW m \in Mgr, NEW k
  PROVE  Deliver(W(l, g, s, c, h, r, n), i, m, k)
           = W(Upd(l, i, Delivered(l[i])), Upd(g, m, Told(g[m], k)), s, c, h, r, n)
<1> DEFINE w == W(l, g, s, c, h, r, n)
           v == PutLink(w, i, Delivered(w.link[i]))
<1>1. w.link = l /\ w.mgr = g /\ "link" \in DOMAIN w /\ "mgr" \in DOMAIN w /\ i \in DOMAIN l /\ m \in DOMAIN g
  BY DEF W
<1>2. Deliver(w, i, m, k) = PutMgr(v, m, Told(w.mgr[m], k))
  <2> HIDE DEF w
  <2> QED BY <1>1, DeliverIs
<1>3. v = W(Upd(l, i, Delivered(l[i])), g, s, c, h, r, n)  BY <1>1, PutTurns
<1> HIDE DEF v
<1> QED BY <1>1, <1>2, <1>3, PutTurns

\* A link and its manager, as the reader leaves them.
LEMMA ReadTyped ==
  /\ \A x \in Link : SameLink(ReadStarted(Unread(x)), x) /\ SameLink(Delivered(Unread(x)), x) /\ SameLink(Unread(x), x)
  /\ \A y \in Manager, k \in 0 .. MaxData : SameManager(Told(y, k), y)
<1>1. {"EReceivedData", "EPendingAck"} \subseteq InputStates /\ {"none", "pending"} \subseteq Requests
  BY DEF InputStates, Requests
<1>2. \A x \in Link : SameLink(ReadStarted(Unread(x)), x)
  BY <1>1 DEF SameLink, ReadStarted, Unread, Link
<1>3. \A x \in Link : SameLink(Delivered(Unread(x)), x)
  BY <1>1 DEF SameLink, Delivered, Unread, Link
<1>4. \A y \in Manager, k \in 0 .. MaxData : SameManager(Told(y, k), y)
  BY DEF SameManager, Told, Manager
<1>5. \A x \in Link : SameLink(Unread(x), x)
  BY <1>1 DEF SameLink, Unread, Link
<1> QED BY <1>2, <1>3, <1>4, <1>5

\* What the reader leaves is in order.
LEMMA ReadStreams ==
  ASSUME NEW x \in Link, NEW y \in Manager, Streaming(x, y, FALSE), x.read = "KErrNone",
         x.write # "KErrNone"
  PROVE  /\ x.input = "ERead" => Streaming(ReadStarted(Unread(x)), y, FALSE)
         /\ x.input = "EReceivedData" =>
              /\ Streaming(Delivered(Unread(x)), Told(y, x.taken), FALSE)
              /\ Promised(y, Told(y, x.taken))
         /\ x.input \in {"ERead", "EReceivedData"}
<1>1. ASSUME x.input = "ERead"  PROVE Streaming(ReadStarted(Unread(x)), y, FALSE)
  <2> DEFINE z == ReadStarted(Unread(x))
  <2>1. /\ z.input = "EReceivedData" /\ z.read = "pending" /\ z.suspended = x.suspended /\ z.taken = x.taken
        /\ z.output = x.output /\ z.write = x.write /\ z.served = x.served /\ z.answers = x.answers
    BY DEF ReadStarted, Unread, Link
  <2> HIDE DEF z
  <2>2. Reading(z, y, FALSE)  BY <1>1, <2>1 DEF Streaming, Reading
  <2>3. Writing(z, y)  BY <2>1 DEF Streaming, Writing
  <2> QED BY <2>2, <2>3 DEF Streaming, z
<1>2. ASSUME x.input = "EReceivedData"
      PROVE  Streaming(Delivered(Unread(x)), Told(y, x.taken), FALSE) /\ Promised(y, Told(y, x.taken))
  <2> DEFINE z == Delivered(Unread(x))
             a == Told(y, x.taken)
  <2>1. /\ z.input = "EPendingAck" /\ z.read = "none" /\ z.suspended = x.suspended /\ z.taken = x.taken
        /\ z.output = x.output /\ z.write = x.write /\ z.served = x.served /\ z.answers = x.answers
    BY DEF Delivered, Unread, Link
  <2>2. a.got = x.taken /\ a.holds = TRUE /\ a.phase = y.phase /\ a.asked = y.asked /\ a.confirmed = y.confirmed
    BY DEF Told, Manager
  <2>3. /\ y.got \in Int /\ y.confirmed \in Int /\ x.served \in Int /\ x.answers \in Int /\ x.taken \in Int
        /\ x.taken = y.got + 1 /\ y.phase \in {"upgrading", "connected"}
        /\ x.taken <= x.answers /\ x.answers <= x.served
        /\ ~x.suspended
    BY <1>2 DEF Link, Manager, Streaming, Reading, Writing
  <2>4. x.output \notin Handshakes /\ y.phase = "connected"
    BY <2>3 DEF Streaming, Reading, Writing
  <2> HIDE DEF z, a
  <2>5. Reading(z, a, FALSE)  BY <1>2, <2>1, <2>2, <2>3 DEF Streaming, Reading
  <2>6. Writing(z, a)  BY <2>1, <2>2, <2>4 DEF Streaming, Writing
  <2>7. Promised(y, a)
    <3>1. x.served = y.confirmed  BY <2>3 DEF Streaming, Writing
    <3>2. y.got < y.confirmed  BY <2>3, <3>1
    <3> QED BY <2>2, <2>3, <3>2 DEF Promised
  <2> QED BY <2>2, <2>3, <2>5, <2>6, <2>7 DEF Streaming, z, a
<1>3. x.input \in {"ERead", "EReceivedData"}  BY DEF Streaming, Reading
<1> QED BY <1>1, <1>2, <1>3

\* The RunL and the RunError of a reader.
LEMMA RunReaderKeeps ==
  ASSUME IInv, NEW i \in Links, NEW again \in BOOLEAN, RunReader(i, again)
  PROVE  IInv' /\ Kept
<1> DEFINE m == link[i].owner
           x == Unread(link[i])
           w == W(link, mgr, store, cache, handles, reading, sends)
           u == W(Upd(link, i, x), mgr, store, cache, handles, reading, sends)
<1>1. world = w /\ Good(link, mgr, store, cache, handles, reading, sends)  BY WorldBegins DEF IInv
<1>2. /\ link[i].read \in Codes /\ link[i].write \notin Codes
      /\ again => link[i].read # "KErrNone" /\ CanConnect(w)
  BY <1>1 DEF RunReader, WriterFirst, Done
<1>3. i \in store  BY <1>1, <1>2, InStore DEF Codes
<1>4. /\ link[i] \in Link /\ m \in Mgr /\ mgr[m] \in Manager /\ link[i].connector = "gone"
      /\ Streaming(link[i], mgr[m], reading = i) /\ mgr[m].asked <= sends /\ sends \in 0 .. MaxData
  BY <1>1, <1>3, StreamStands
<1>5. reading # i /\ Streaming(link[i], mgr[m], FALSE)
  <2>1. reading # i  BY <1>2, <1>4 DEF Streaming, Reading, Codes
  <2>2. (reading = i) = FALSE  BY <2>1
  <2> QED BY <1>4, <2>1, <2>2
<1>6. CancelRead(w, i) = u  BY ShutTurns
<1>7. x \in Link /\ x.owner = m /\ x.connector = "gone" /\ SameLink(x, link[i])  BY <1>4, ShutLink, ReadTyped
<1>8. link \in [Links -> Link] /\ mgr \in [Mgr -> Manager]  BY <1>1 DEF Good, Typed
<1>9. CASE link[i].read # "KErrNone"
  <2>1. Becomes(InputFails(CancelRead(world, i), i, again))  BY <1>9 DEF RunReader, CancelRead
  <2> HIDE DEF x
  <2>2. Follows(InputFails(u, i, again), mgr)  BY <1>1, <1>2, <1>3, <1>5, <1>7, LossFollows
  <2> QED BY <1>1, <1>6, <2>1, <2>2, StepEnds
<1>10. CASE link[i].read = "KErrNone"
  <2> DEFINE z == ReadStarted(x)
             a == Delivered(x)
             y == Told(mgr[m], link[i].taken)
  <2>1. /\ link[i].input \in {"ERead", "EReceivedData"}
        /\ link[i].input = "ERead" => Streaming(z, mgr[m], FALSE)
        /\ link[i].input = "EReceivedData" => Streaming(a, y, FALSE) /\ Promised(mgr[m], y)
    BY <1>2, <1>4, <1>5, <1>10, ReadStreams DEF Codes
  <2>2. SameLink(z, link[i]) /\ SameLink(a, link[i])  BY <1>4, ReadTyped
  <2>3. SameManager(y, mgr[m]) /\ y.asked <= sends
    <3>1. link[i].taken \in 0 .. MaxData  BY <1>4 DEF Link
    <3>2. y.asked = mgr[m].asked  BY <1>4 DEF Told, Manager
    <3> QED BY <1>4, <3>1, <3>2, ReadTyped
  <2>4. \A b : Upd(Upd(link, i, x), i, b) = Upd(link, i, b)  BY Twice
  <2>5. Upd(link, i, x) \in [Links -> Link] /\ Upd(link, i, x)[i] = x  BY <1>7, <1>8, UpdTyped
  <2>6. StartRead(u, i) = W(Upd(link, i, z), mgr, store, cache, handles, reading, sends)
    <3> DEFINE e == Upd(link, i, x)
    <3>1. e \in [Links -> Link] /\ e[i] = x /\ \A b : Upd(e, i, b) = Upd(link, i, b)  BY <2>4, <2>5
    <3> HIDE DEF e, x
    <3>2. StartRead(W(e, mgr, store, cache, handles, reading, sends), i)
            = W(Upd(e, i, ReadStarted(e[i])), mgr, store, cache, handles, reading, sends)
      BY StartReadTurns
    <3> QED BY <3>1, <3>2 DEF e
  <2>7. Deliver(u, i, m, link[i].taken)
          = W(Upd(link, i, a), Upd(mgr, m, y), store, cache, handles, reading, sends)
    <3> DEFINE e == Upd(link, i, x)
               k == link[i].taken
    <3>1. e \in [Links -> Link] /\ e[i] = x /\ \A b : Upd(e, i, b) = Upd(link, i, b)  BY <2>4, <2>5
    <3> HIDE DEF e, x, k
    <3>2. Deliver(W(e, mgr, store, cache, handles, reading, sends), i, m, k)
            = W(Upd(e, i, Delivered(e[i])), Upd(mgr, m, Told(mgr[m], k)), store, cache, handles, reading, sends)
      BY <1>4, <1>8, <3>1, DeliverTurns
    <3> QED BY <3>1, <3>2 DEF e, k
  <2>8. CASE link[i].input = "ERead"
    <3>1. Becomes(StartRead(CancelRead(world, i), i))
      BY <1>10, <2>8 DEF RunReader, CancelRead, StartRead
    <3>2. Becomes(W(Upd(link, i, z), Upd(mgr, m, mgr[m]), store, cache, handles, reading, sends))
      <4>1. Upd(mgr, m, mgr[m]) = mgr  BY <1>4, <1>8 DEF Upd
      <4> QED BY <1>1, <1>6, <2>6, <3>1, <4>1
    <3>3. SameManager(mgr[m], mgr[m]) /\ Promised(mgr[m], mgr[m])
      BY <1>4 DEF SameManager, Promised, SameCounts
    <3>4. Streaming(z, mgr[m], reading = i)  BY <1>5, <2>1, <2>8
    <3>5. sends <= sends  BY <1>4
    <3> HIDE DEF z
    <3> QED BY <1>3, <1>4, <2>2, <3>2, <3>3, <3>4, <3>5, StreamStep
  <2>9. CASE link[i].input = "EReceivedData"
    <3> DEFINE v == [world EXCEPT !.link[i].read = "none"]
    <3>1. Becomes(Deliver(CancelRead(world, i), i, m, link[i].taken))
      <4>1. link[i].input # "ERead"  BY <2>9
      <4>2. Becomes([v EXCEPT !.link[i].input = "EPendingAck", !.mgr[m].got = link[i].taken,
                              !.mgr[m].holds = TRUE, !.link[i].timers = @ \ {"receive"}])
        BY <1>10, <4>1 DEF RunReader
      <4>3. v = CancelRead(world, i)  BY DEF CancelRead
      <4> HIDE DEF v
      <4>4. Becomes(Deliver(v, i, m, link[i].taken))  BY <4>2 DEF Deliver
      <4> QED BY <4>3, <4>4
    <3>2. Becomes(W(Upd(link, i, a), Upd(mgr, m, y), store, cache, handles, reading, sends))
      BY <1>1, <1>6, <2>7, <3>1
    <3>3. Streaming(a, y, reading = i)  BY <1>5, <2>1, <2>9
    <3>4. sends <= sends  BY <1>4
    <3> HIDE DEF a, y
    <3> QED BY <1>3, <1>4, <2>1, <2>2, <2>3, <2>9, <3>2, <3>3, <3>4, StreamStep
  <2> QED BY <2>1, <2>8, <2>9
<1> QED BY <1>9, <1>10

-----------------------------------------------------------------------------
(* The writer *)

Wrote(x) == [x EXCEPT !.write = "none", !.timers = x.timers \ {"send"}]
Sent(x) == [x EXCEPT !.output = "EPendingSend", !.timers = (x.timers \ {"send"}) \cup {"receive"}]
Halfway(x) == [x EXCEPT !.output = "ESecureHandshakeComplete", !.write = "pending"]
Upgraded(x) == [x EXCEPT !.output = "EPendingSend"]
Resumed(x) == [x EXCEPT !.suspended = FALSE, !.read = IF x.input = "ERead" THEN "KErrNone" ELSE x.read]
Confirms(y) == [y EXCEPT !.confirmed = y.confirmed + 1]

Write(w, i) == [w EXCEPT !.link[i].write = "none", !.link[i].timers = w.link[i].timers \ {"send"}]
Sends(w, i, m) ==
  [w EXCEPT !.link[i].output = "EPendingSend", !.mgr[m].confirmed = w.mgr[m].confirmed + 1,
            !.link[i].timers = (w.link[i].timers \ {"send"}) \cup {"receive"}]
Handshake(w, i) == [w EXCEPT !.link[i].output = "ESecureHandshakeComplete", !.link[i].write = "pending"]
Upgrade(w, i, m) == [w EXCEPT !.link[i].output = "EPendingSend", !.mgr[m].phase = "connected"]

\* The writer's ways to go on, as worlds.
LEMMA WriteTurns ==
  ASSUME NEW l, NEW g, NEW s, NEW c, NEW h, NEW r, NEW n, NEW i
  PROVE  Write(W(l, g, s, c, h, r, n), i) = W(Upd(l, i, Wrote(l[i])), g, s, c, h, r, n)
<1> DEFINE w == W(l, g, s, c, h, r, n)
<1>1. w.link = l  BY DEF W
<1>2. Write(w, i) = PutLink(w, i, Wrote(w.link[i]))  BY DEF Write, PutLink, Wrote, W
<1> QED BY <1>1, <1>2, PutTurns

\* The handshake is begun, as a world.
LEMMA HandshakeTurns ==
  ASSUME NEW l, NEW g, NEW s, NEW c, NEW h, NEW r, NEW n, NEW i
  PROVE  Handshake(W(l, g, s, c, h, r, n), i) = W(Upd(l, i, Halfway(l[i])), g, s, c, h, r, n)
<1> DEFINE w == W(l, g, s, c, h, r, n)
<1>1. w.link = l  BY DEF W
<1>2. Handshake(w, i) = PutLink(w, i, Halfway(w.link[i]))  BY DEF Handshake, PutLink, Halfway, W
<1> QED BY <1>1, <1>2, PutTurns

\* The confirmation and the upgrade in their two writings.
LEMMA SendsIs ==
  ASSUME NEW w, NEW i, NEW m, "link" \in DOMAIN w, "mgr" \in DOMAIN w, i \in DOMAIN w.link, m \in DOMAIN w.mgr
  PROVE  /\ Sends(w, i, m) = PutMgr(PutLink(w, i, Sent(w.link[i])), m, Confirms(w.mgr[m]))
         /\ Upgrade(w, i, m) = PutMgr(PutLink(w, i, Upgraded(w.link[i])), m, Phased(w.mgr[m], "connected"))
BY DEF Sends, Upgrade, PutLink, PutMgr, Sent, Upgraded, Confirms, Phased

\* The confirmation of a request, as a world.
LEMMA SendsTurns ==
  ASSUME NEW l \in [Links -> Link], NEW g \in [Mgr -> Manager], NEW s, NEW c, NEW h, NEW r, NEW n,
         NEW i \in Links, NEW m \in Mgr
  PROVE  Sends(W(l, g, s, c, h, r, n), i, m)
           = W(Upd(l, i, Sent(l[i])), Upd(g, m, Confirms(g[m])), s, c, h, r, n)
<1> DEFINE w == W(l, g, s, c, h, r, n)
           v == PutLink(w, i, Sent(w.link[i]))
<1>1. w.link = l /\ w.mgr = g /\ "link" \in DOMAIN w /\ "mgr" \in DOMAIN w /\ i \in DOMAIN l /\ m \in DOMAIN g
  BY DEF W
<1>2. Sends(w, i, m) = PutMgr(v, m, Confirms(w.mgr[m]))
  <2> HIDE DEF w
  <2> QED BY <1>1, SendsIs
<1>3. v = W(Upd(l, i, Sent(l[i])), g, s, c, h, r, n)  BY <1>1, PutTurns
<1> HIDE DEF v
<1> QED BY <1>1, <1>2, <1>3, PutTurns

\* The end of the handshake, as a world.
LEMMA UpgradeTurns ==
  ASSUME NEW l \in [Links -> Link], NEW g \in [Mgr -> Manager], NEW s, NEW c, NEW h, NEW r, NEW n,
         NEW i \in Links, NEW m \in Mgr
  PROVE  Upgrade(W(l, g, s, c, h, r, n), i, m)
           = W(Upd(l, i, Upgraded(l[i])), Upd(g, m, Phased(g[m], "connected")), s, c, h, r, n)
<1> DEFINE w == W(l, g, s, c, h, r, n)
           v == PutLink(w, i, Upgraded(w.link[i]))
<1>1. w.link = l /\ w.mgr = g /\ "link" \in DOMAIN w /\ "mgr" \in DOMAIN w /\ i \in DOMAIN l /\ m \in DOMAIN g
  BY DEF W
<1>2. Upgrade(w, i, m) = PutMgr(v, m, Phased(w.mgr[m], "connected"))
  <2> HIDE DEF w
  <2> QED BY <1>1, SendsIs
<1>3. v = W(Upd(l, i, Upgraded(l[i])), g, s, c, h, r, n)  BY <1>1, PutTurns
<1> HIDE DEF v
<1> QED BY <1>1, <1>2, <1>3, PutTurns

IsSuspended(x) == x.suspended # FALSE

\* The input stream reads on.
LEMMA ResumeTurns ==
  ASSUME NEW l \in [Links -> Link], NEW g, NEW s, NEW c, NEW h, NEW r, NEW n, NEW i \in Links, IsSuspended(l[i])
  PROVE  Resume(W(l, g, s, c, h, r, n), i) = W(Upd(l, i, Resumed(l[i])), g, s, c, h, r, n)
<1> DEFINE w == W(l, g, s, c, h, r, n)
           x == [l[i] EXCEPT !.suspended = FALSE]
           u == [w EXCEPT !.link[i].suspended = FALSE]
           v == W(Upd(l, i, x), g, s, c, h, r, n)
<1>1. w.link = l /\ l[i] \in Link  BY DEF W
<1>2. u = PutLink(w, i, [w.link[i] EXCEPT !.suspended = FALSE])  BY DEF PutLink
<1>3. u = v  BY <1>1, <1>2, PutTurns
<1> HIDE DEF u
<1>4. w.link[i].suspended  BY <1>1 DEF Link, IsSuspended
<1>5. Check(w, w.link[i].suspended, "EInputStreamNotSuspended") = w  BY <1>4 DEF Check
<1>6. Resume(w, i) = IF l[i].input = "ERead" THEN CompleteRead(u, i) ELSE u
  <2> HIDE DEF w
  <2> QED BY <1>1, <1>5 DEF Resume, u
<1>7. CompleteRead(v, i) = W(Upd(l, i, [x EXCEPT !.read = "KErrNone"]), g, s, c, h, r, n)
  <2> DEFINE e == Upd(l, i, x)
  <2>1. e[i] = x /\ \A z : Upd(e, i, z) = Upd(l, i, z)  BY DEF Upd
  <2> HIDE DEF e, x
  <2>2. W(e, g, s, c, h, r, n).link = e  BY DEF W
  <2>3. CompleteRead(W(e, g, s, c, h, r, n), i)
          = PutLink(W(e, g, s, c, h, r, n), i, [W(e, g, s, c, h, r, n).link[i] EXCEPT !.read = "KErrNone"])
    BY DEF CompleteRead, PutLink
  <2> QED BY <2>1, <2>2, <2>3, PutTurns DEF e
<1>8. Resumed(l[i]) = IF l[i].input = "ERead" THEN [x EXCEPT !.read = "KErrNone"] ELSE x
  BY <1>1 DEF Resumed, Link
<1> HIDE DEF v, w, x
<1> QED BY <1>3, <1>6, <1>7, <1>8 DEF v, w

\* A link and its manager, as the writer leaves them.
LEMMA WriteTyped ==
  /\ \A x \in Link : /\ SameLink(Wrote(x), x) /\ SameLink(Sent(Wrote(x)), x) /\ SameLink(Halfway(Wrote(x)), x)
                     /\ Upgraded(Wrote(x)) \in Link /\ SameLink(Resumed(Upgraded(Wrote(x))), x)
  /\ \A y \in Manager : /\ y.confirmed + 1 <= MaxData => SameManager(Confirms(y), y)
                        /\ SameManager(Phased(y, "connected"), y)
<1>1. /\ "ESecureHandshakeComplete" \in OutputStates /\ "EPendingSend" \in OutputStates
      /\ {"none", "pending", "KErrNone"} \subseteq Requests
  BY DEF OutputStates, Requests, Codes
<1>2. \A x \in Link : SameLink(Wrote(x), x)  BY <1>1 DEF SameLink, Wrote, Link
<1>3. \A x \in Link : SameLink(Sent(x), x)  BY <1>1 DEF SameLink, Sent, Link
<1>4. \A x \in Link : SameLink(Halfway(x), x)  BY <1>1 DEF SameLink, Halfway, Link
<1>5. \A x \in Link : SameLink(Upgraded(x), x)  BY <1>1 DEF SameLink, Upgraded, Link
<1>6. \A x \in Link : SameLink(Resumed(x), x)  BY <1>1 DEF SameLink, Resumed, Link
<1>7. \A y \in Manager : y.confirmed + 1 <= MaxData => SameManager(Confirms(y), y)
  <2>1. MaxData \in Nat  BY ConstantsAssumption
  <2>2. \A y \in Manager : y.confirmed + 1 <= MaxData => y.confirmed + 1 \in 0 .. MaxData  BY <2>1 DEF Manager
  <2> QED BY <2>2 DEF SameManager, Confirms, Manager
<1>8. \A y \in Manager : SameManager(Phased(y, "connected"), y)  BY DEF SameManager, Phased, Manager
<1>9. \A x, z, a : SameLink(a, z) /\ SameLink(z, x) => SameLink(a, x)  BY DEF SameLink
<1>11. \A a, x : SameLink(a, x) => a \in Link  BY DEF SameLink
<1>10. ASSUME NEW x \in Link
       PROVE  /\ SameLink(Wrote(x), x) /\ SameLink(Sent(Wrote(x)), x) /\ SameLink(Halfway(Wrote(x)), x)
              /\ Upgraded(Wrote(x)) \in Link /\ SameLink(Resumed(Upgraded(Wrote(x))), x)
  <2>1. SameLink(Wrote(x), x) /\ Wrote(x) \in Link  BY <1>2, <1>11
  <2>2. SameLink(Sent(Wrote(x)), x)  BY <1>3, <1>9, <2>1
  <2>3. SameLink(Halfway(Wrote(x)), x)  BY <1>4, <1>9, <2>1
  <2>4. SameLink(Upgraded(Wrote(x)), x) /\ Upgraded(Wrote(x)) \in Link  BY <1>5, <1>9, <1>11, <2>1
  <2>5. SameLink(Resumed(Upgraded(Wrote(x))), x)  BY <1>6, <1>9, <2>4
  <2> QED BY <2>1, <2>2, <2>3, <2>4, <2>5
<1> QED BY <1>7, <1>8, <1>10

\* What the writer leaves is in order.
LEMMA WriteStreams ==
  ASSUME NEW x \in Link, NEW y \in Manager, NEW b \in BOOLEAN, Streaming(x, y, b), x.write = "KErrNone"
  PROVE  /\ x.output = "ESentData" =>
              /\ y.confirmed + 1 <= MaxData
              /\ Streaming(Sent(Wrote(x)), Confirms(y), b) /\ Promised(y, Confirms(y))
         /\ x.output = "EStartSecureHandshake" => Streaming(Halfway(Wrote(x)), y, b)
         /\ x.output \notin {"ESentData", "EStartSecureHandshake"} =>
              /\ Streaming(Resumed(Upgraded(Wrote(x))), Phased(y, "connected"), b)
              /\ Promised(y, Phased(y, "connected"))
              /\ x.suspended # FALSE
<1>1. ASSUME x.output = "ESentData"
      PROVE  /\ y.confirmed + 1 <= MaxData
             /\ Streaming(Sent(Wrote(x)), Confirms(y), b) /\ Promised(y, Confirms(y))
  <2> DEFINE z == Sent(Wrote(x))
             a == Confirms(y)
  <2>1. /\ z.input = x.input /\ z.read = x.read /\ z.suspended = x.suspended /\ z.taken = x.taken
        /\ z.output = "EPendingSend" /\ z.write = "none" /\ z.served = x.served /\ z.answers = x.answers
    BY DEF Sent, Wrote, Link
  <2>2. a.got = y.got /\ a.holds = y.holds /\ a.phase = y.phase /\ a.asked = y.asked /\ a.confirmed = y.confirmed + 1
    BY DEF Confirms, Manager
  <2>3. /\ y.confirmed \in Int /\ y.asked \in 0 .. MaxData /\ MaxData \in Nat
        /\ y.asked = y.confirmed + 1 /\ x.served = y.confirmed + 1 /\ y.phase = "connected"
    BY <1>1, ConstantsAssumption DEF Link, Manager, Streaming, Writing
  <2> HIDE DEF z, a
  <2>4. Reading(z, a, b)  BY <2>1, <2>2 DEF Streaming, Reading
  <2>5. Writing(z, a)  BY <2>1, <2>2, <2>3 DEF Streaming, Writing, Handshakes
  <2>6. Promised(y, a)  BY <2>2, <2>3 DEF Promised
  <2>7. Streaming(z, a, b)  BY <2>1, <2>2, <2>3, <2>4, <2>5 DEF Streaming
  <2> QED BY <2>3, <2>6, <2>7 DEF z, a
<1>2. ASSUME x.output = "EStartSecureHandshake"  PROVE Streaming(Halfway(Wrote(x)), y, b)
  <2> DEFINE z == Halfway(Wrote(x))
  <2>1. /\ z.input = x.input /\ z.read = x.read /\ z.suspended = x.suspended /\ z.taken = x.taken
        /\ z.output = "ESecureHandshakeComplete" /\ z.write = "pending" /\ z.served = x.served /\ z.answers = x.answers
    BY DEF Halfway, Wrote, Link
  <2> HIDE DEF z
  <2>2. Reading(z, y, b)  BY <2>1 DEF Streaming, Reading
  <2>3. Writing(z, y)  BY <1>2, <2>1 DEF Streaming, Writing, Handshakes
  <2>4. Streaming(z, y, b)  BY <1>2, <2>1, <2>2, <2>3 DEF Streaming
  <2> QED BY <2>4 DEF z
<1>3. ASSUME x.output \notin {"ESentData", "EStartSecureHandshake"}
      PROVE  /\ Streaming(Resumed(Upgraded(Wrote(x))), Phased(y, "connected"), b)
             /\ Promised(y, Phased(y, "connected"))
             /\ x.suspended # FALSE
  <2> DEFINE z == Resumed(Upgraded(Wrote(x)))
             a == Phased(y, "connected")
  <2>1. x.output \in Handshakes /\ y.phase = "upgrading" /\ ~b /\ x.suspended
    BY <1>3 DEF Streaming, Reading, Writing, Handshakes
  <2>2. x.input = "ERead" /\ x.read = "none" /\ ~y.holds /\ y.asked = 0 /\ y.confirmed = 0 /\ y.got = 0
    BY <2>1 DEF Streaming, Reading, Writing
  <2>3. Wrote(x) \in Link /\ Wrote(x).input = x.input /\ Wrote(x).write = "none"
    <3>1. "none" \in Requests  BY DEF Requests
    <3> QED BY <3>1 DEF Wrote, Link
  <2>4. /\ z.input = x.input /\ z.read = "KErrNone" /\ z.suspended = FALSE /\ z.taken = x.taken
        /\ z.output = "EPendingSend" /\ z.write = "none" /\ z.served = x.served /\ z.answers = x.answers
    BY <2>2 DEF Resumed, Upgraded, Wrote, Link
  <2>5. a.got = y.got /\ a.holds = y.holds /\ a.phase = "connected" /\ a.asked = y.asked /\ a.confirmed = y.confirmed
    BY DEF Phased, Manager
  <2> HIDE DEF z, a
  <2>6. Reading(z, a, b)  BY <2>1, <2>2, <2>4, <2>5 DEF Streaming, Reading
  <2>7. Writing(z, a)  BY <1>3, <2>1, <2>2, <2>4, <2>5 DEF Streaming, Writing, Handshakes
  <2>8. Promised(y, a)  BY <2>1, <2>5 DEF Promised, SameCounts
  <2>9. Streaming(z, a, b)  BY <2>1, <2>5, <2>6, <2>7 DEF Streaming
  <2> QED BY <2>1, <2>8, <2>9 DEF z, a
<1> QED BY <1>1, <1>2, <1>3

\* The RunL and the RunError of a writer.
LEMMA RunWriterKeeps ==
  ASSUME IInv, NEW i \in Links, NEW again \in BOOLEAN, RunWriter(i, again)
  PROVE  IInv' /\ Kept
<1> DEFINE m == link[i].owner
           x == Wrote(link[i])
           w == W(link, mgr, store, cache, handles, reading, sends)
           e == Upd(link, i, x)
           u == W(e, mgr, store, cache, handles, reading, sends)
           b == (reading = i)
<1>1. world = w /\ Good(link, mgr, store, cache, handles, reading, sends)  BY WorldBegins DEF IInv
<1>2. /\ link[i].write \in Codes
      /\ again => link[i].write # "KErrNone" /\ CanConnect(w)
  BY <1>1 DEF RunWriter, Done
<1>3. i \in store  BY <1>1, <1>2, InStore DEF Codes
<1>4. /\ link[i] \in Link /\ m \in Mgr /\ mgr[m] \in Manager /\ link[i].connector = "gone"
      /\ Streaming(link[i], mgr[m], b) /\ mgr[m].asked <= sends /\ sends \in 0 .. MaxData
  BY <1>1, <1>3, StreamStands
<1>5. Write(w, i) = u  BY WriteTurns
<1>6. SameLink(x, link[i]) /\ x \in Link /\ x.owner = m /\ x.connector = "gone"
  <2>1. SameLink(x, link[i])  BY <1>4, WriteTyped
  <2> HIDE DEF x
  <2> QED BY <1>4, <2>1 DEF SameLink
<1>7. link \in [Links -> Link] /\ mgr \in [Mgr -> Manager]  BY <1>1 DEF Good, Typed
<1>8. e \in [Links -> Link] /\ e[i] = x /\ \A a : Upd(e, i, a) = Upd(link, i, a)
  <2>1. e \in [Links -> Link] /\ e[i] = x  BY <1>6, <1>7, UpdTyped
  <2> QED BY <2>1, Twice
<1>9. Write(world, i) = [world EXCEPT !.link[i].write = "none", !.link[i].timers = @ \ {"send"}]
  BY <1>1 DEF Write, W
<1>10. b \in BOOLEAN /\ sends <= sends  BY <1>4
<1> HIDE DEF e, x
<1>11. CASE link[i].write # "KErrNone"
  <2>1. Becomes(OutputFails(Write(world, i), i, again))  BY <1>9, <1>11 DEF RunWriter
  <2>2. reading # i  BY <1>2, <1>4, <1>11 DEF Streaming, Writing, Codes
  <2>3. Follows(OutputFails(u, i, again), mgr)  BY <1>1, <1>2, <1>3, <1>6, <2>2, LossFollows DEF e
  <2> QED BY <1>1, <1>5, <2>1, <2>3, StepEnds
<1>12. CASE link[i].write = "KErrNone" /\ link[i].output = "ESentData"
  <2> DEFINE z == Sent(x)
             y == Confirms(mgr[m])
  <2>1. mgr[m].confirmed + 1 <= MaxData /\ Streaming(z, y, b) /\ Promised(mgr[m], y)
    BY <1>4, <1>10, <1>12, WriteStreams DEF x
  <2>2. SameLink(z, link[i]) /\ SameManager(y, mgr[m])  BY <1>4, <2>1, WriteTyped DEF x
  <2>3. y.asked <= sends  BY <1>4 DEF Confirms, Manager
  <2>4. Becomes(Sends(Write(world, i), i, m))
    <3> DEFINE v == Write(world, i)
    <3>1. Becomes([v EXCEPT !.link[i].output = "EPendingSend", !.mgr[m].confirmed = @ + 1,
                            !.link[i].timers = (@ \ {"send"}) \cup {"receive"}])
      BY <1>9, <1>12 DEF RunWriter
    <3> HIDE DEF v
    <3> QED BY <3>1 DEF Sends, v
  <2>5. Sends(u, i, m) = W(Upd(link, i, z), Upd(mgr, m, y), store, cache, handles, reading, sends)
    <3>1. Sends(u, i, m) = W(Upd(e, i, Sent(e[i])), Upd(mgr, m, Confirms(mgr[m])), store, cache, handles, reading, sends)
      BY <1>4, <1>7, <1>8, SendsTurns
    <3> QED BY <1>8, <3>1
  <2>6. Becomes(W(Upd(link, i, z), Upd(mgr, m, y), store, cache, handles, reading, sends))
    BY <1>1, <1>5, <2>4, <2>5
  <2> HIDE DEF z, y
  <2> QED BY <1>3, <1>4, <1>10, <2>1, <2>2, <2>3, <2>6, StreamStep
<1>13. CASE link[i].write = "KErrNone" /\ link[i].output = "EStartSecureHandshake"
  <2> DEFINE z == Halfway(x)
             y == mgr[m]
  <2>1. Streaming(z, y, b)  BY <1>4, <1>10, <1>13, WriteStreams DEF x
  <2>2. SameLink(z, link[i])  BY <1>4, WriteTyped DEF x
  <2>3. SameManager(y, mgr[m]) /\ Promised(mgr[m], y)
    BY <1>4 DEF SameManager, Promised, SameCounts
  <2>4. Becomes(Handshake(Write(world, i), i))
    <3> DEFINE v == Write(world, i)
    <3>1. Becomes([v EXCEPT !.link[i].output = "ESecureHandshakeComplete", !.link[i].write = "pending"])
      BY <1>9, <1>13 DEF RunWriter
    <3> HIDE DEF v
    <3> QED BY <3>1 DEF Handshake, v
  <2>5. Handshake(u, i) = W(Upd(link, i, z), mgr, store, cache, handles, reading, sends)
    <3>1. Handshake(u, i) = W(Upd(e, i, Halfway(e[i])), mgr, store, cache, handles, reading, sends)
      BY HandshakeTurns
    <3> QED BY <1>8, <3>1
  <2>6. Upd(mgr, m, y) = mgr  BY <1>4, <1>7 DEF Upd
  <2>7. Becomes(W(Upd(link, i, z), Upd(mgr, m, y), store, cache, handles, reading, sends))
    BY <1>1, <1>5, <2>4, <2>5, <2>6
  <2> HIDE DEF z
  <2> QED BY <1>3, <1>4, <1>10, <2>1, <2>2, <2>3, <2>7, StreamStep, ZenonT(30)
<1>14. CASE link[i].write = "KErrNone" /\ link[i].output \notin {"ESentData", "EStartSecureHandshake"}
  <2> DEFINE a == Upgraded(x)
             z == Resumed(a)
             f == Upd(link, i, a)
             y == Phased(mgr[m], "connected")
             p == Upd(mgr, m, y)
  <2>1. Streaming(z, y, b) /\ Promised(mgr[m], y) /\ link[i].suspended # FALSE
    BY <1>4, <1>10, <1>14, WriteStreams DEF x
  <2>2. SameLink(z, link[i]) /\ SameManager(y, mgr[m]) /\ a \in Link  BY <1>4, WriteTyped DEF x
  <2>3. y.asked <= sends  BY <1>4 DEF Phased, Manager
  <2>4. Becomes(Resume(Upgrade(Write(world, i), i, m), i))
    <3> DEFINE v == Write(world, i)
    <3>1. Becomes(Resume([v EXCEPT !.link[i].output = "EPendingSend", !.mgr[m].phase = "connected"], i))
      BY <1>9, <1>14 DEF RunWriter
    <3> HIDE DEF v
    <3> QED BY <3>1 DEF Upgrade, v
  <2>5. Upgrade(u, i, m) = W(f, p, store, cache, handles, reading, sends)
    <3>1. Upgrade(u, i, m) = W(Upd(e, i, Upgraded(e[i])), Upd(mgr, m, Phased(mgr[m], "connected")), store, cache, handles, reading, sends)
      BY <1>4, <1>7, <1>8, UpgradeTurns
    <3> QED BY <1>8, <3>1
  <2>6. a.suspended # FALSE
    <3>1. a.suspended = link[i].suspended  BY <1>4 DEF Upgraded, Wrote, x, Link
    <3> QED BY <2>1, <3>1
  <2> HIDE DEF a, p, y
  <2>7. f \in [Links -> Link] /\ f[i] = a /\ \A d : Upd(f, i, d) = Upd(link, i, d)
    <3>1. f \in [Links -> Link] /\ f[i] = a  BY <1>7, <2>2, UpdTyped, ZenonT(30)
    <3> QED BY <3>1, Twice
  <2> HIDE DEF f
  <2>8. Resume(W(f, p, store, cache, handles, reading, sends), i)
          = W(Upd(link, i, z), p, store, cache, handles, reading, sends)
    <3>1. Resume(W(f, p, store, cache, handles, reading, sends), i)
            = W(Upd(f, i, Resumed(f[i])), p, store, cache, handles, reading, sends)
      <4>1. f \in [Links -> Link] /\ i \in Links /\ IsSuspended(f[i])  BY <2>6, <2>7 DEF IsSuspended
      <4> QED BY <4>1, ResumeTurns
    <3> QED BY <2>7, <3>1
  <2>9. Becomes(W(Upd(link, i, z), Upd(mgr, m, y), store, cache, handles, reading, sends))
    BY <1>1, <1>5, <2>4, <2>5, <2>8 DEF p
  <2> HIDE DEF z
  <2> QED BY <1>3, <1>4, <1>10, <2>1, <2>2, <2>3, <2>9, StreamStep
<1> QED BY <1>11, <1>12, <1>13, <1>14

-----------------------------------------------------------------------------
(* The network and the timers *)

\* A step of the network on one connection keeps the invariant.
LEMMA LinkStep ==
  ASSUME IInv, NEW i \in store, NEW x, SameLink(x, link[i]),
         Streaming(x, mgr[link[i].owner], reading = i), link' = Upd(link, i, x),
         UNCHANGED <<mgr, store, cache, handles, reading, sends, panic>>
  PROVE  IInv' /\ Kept
<1> DEFINE m == link[i].owner
           y == mgr[m]
<1>1. Good(link, mgr, store, cache, handles, reading, sends) /\ panic = {}  BY DEF IInv
<1>2. /\ m \in Mgr /\ y \in Manager /\ y.asked <= sends /\ sends \in 0 .. MaxData
      /\ mgr \in [Mgr -> Manager]
  <2>1. m \in Mgr /\ y \in Manager /\ y.asked <= sends /\ sends \in 0 .. MaxData  BY <1>1, StreamStands
  <2>2. mgr \in [Mgr -> Manager]  BY <1>1 DEF Good, Typed
  <2> QED BY <2>1, <2>2
<1>3. SameManager(y, mgr[m]) /\ Promised(mgr[m], y) /\ sends <= sends
  BY <1>2 DEF SameManager, Promised, SameCounts
<1>4. Upd(mgr, m, y) = mgr  BY <1>2 DEF Upd
<1>5. Becomes(W(Upd(link, i, x), Upd(mgr, m, y), store, cache, handles, reading, sends))
  BY <1>1, <1>4 DEF Becomes, W
<1> QED BY <1>2, <1>3, <1>5, StreamStep

Completed(x, code, k) == [x EXCEPT !.write = code, !.served = k]
Replied(x) == [x EXCEPT !.answers = x.answers + 1]
HungUp(x) == [x EXCEPT !.eof = TRUE]
Received(x, code, k) == [x EXCEPT !.read = code, !.taken = k]

\* A link, as the network leaves it.
LEMMA NetworkTyped ==
  \A x \in Link :
    /\ \A code \in {"KErrNone", "KErrGeneral"}, k \in 0 .. MaxData : SameLink(Completed(x, code, k), x)
    /\ x.answers + 1 <= MaxData => SameLink(Replied(x), x)
    /\ SameLink(HungUp(x), x)
    /\ \A code \in {"KErrNone", "KErrEof"}, k \in 0 .. MaxData : SameLink(Received(x, code, k), x)
<1>1. {"KErrNone", "KErrGeneral", "KErrEof"} \subseteq Requests /\ MaxData \in Nat
  BY ConstantsAssumption DEF Requests, Codes
<1>2. \A x \in Link, code \in {"KErrNone", "KErrGeneral"}, k \in 0 .. MaxData : SameLink(Completed(x, code, k), x)
  <2>1. \A x \in Link, code \in Requests, k \in 0 .. MaxData : SameLink(Completed(x, code, k), x)
    BY ZenonT(30) DEF SameLink, Completed, Link
  <2> QED BY <1>1, <2>1
<1>3. \A x \in Link : x.answers + 1 <= MaxData => SameLink(Replied(x), x)
  <2>1. \A x \in Link : x.answers + 1 <= MaxData => x.answers + 1 \in 0 .. MaxData  BY <1>1 DEF Link
  <2> QED BY <2>1 DEF SameLink, Replied, Link
<1>4. \A x \in Link : SameLink(HungUp(x), x)  BY DEF SameLink, HungUp, Link
<1>5. \A x \in Link, code \in {"KErrNone", "KErrEof"}, k \in 0 .. MaxData : SameLink(Received(x, code, k), x)
  <2>1. \A x \in Link, code \in Requests, k \in 0 .. MaxData : SameLink(Received(x, code, k), x)
    BY ZenonT(30) DEF SameLink, Received, Link
  <2> QED BY <1>1, <2>1
<1> QED BY <1>2, <1>3, <1>4, <1>5

\* A send completes: the server has the request, or there is an error.
LEMMA SendCompletesKeeps ==
  ASSUME IInv, "nestedLoss" \notin Env, NEW i \in Links, NEW code \in {"KErrNone", "KErrGeneral"}, SendCompletes(i, code)
  PROVE  IInv' /\ Kept
<1> DEFINE x == link[i]
           y == mgr[x.owner]
           k == IF code = "KErrNone" /\ x.output = "ESentData" THEN x.served + 1 ELSE x.served
           z == Completed(x, code, k)
           b == (reading = i)
<1>1. Good(link, mgr, store, cache, handles, reading, sends)  BY DEF IInv
<1>2. x.write = "pending" /\ (code # "KErrNone" => ~b)  BY DEF SendCompletes
<1>3. i \in store  BY <1>1, <1>2, InStore
<1>4. x \in Link /\ y \in Manager /\ Streaming(x, y, b)  BY <1>1, <1>3, StreamStands
<1>5. link \in [Links -> Link]  BY <1>1 DEF Good, Typed
<1>6. k \in 0 .. MaxData
  <2>1. x.served \in 0 .. MaxData /\ y.confirmed \in 0 .. MaxData /\ y.asked \in 0 .. MaxData /\ MaxData \in Nat
    BY <1>4, ConstantsAssumption DEF Link, Manager
  <2>2. x.output = "ESentData" => y.asked = y.confirmed + 1 /\ x.served = y.confirmed
    BY <1>2, <1>4, <2>1 DEF Streaming, Writing
  <2> QED BY <2>1, <2>2
<1>7. SameLink(z, x)  BY <1>4, <1>6, NetworkTyped
<1>8. Streaming(z, y, b)
  <2>1. /\ z.input = x.input /\ z.read = x.read /\ z.suspended = x.suspended /\ z.taken = x.taken
        /\ z.output = x.output /\ z.write = code /\ z.served = k /\ z.answers = x.answers
    BY <1>4 DEF Completed, Link
  <2>2. x.served \in Int /\ x.answers \in Int /\ y.confirmed \in Int  BY <1>4 DEF Link, Manager
  <2>3. k = x.served \/ k = x.served + 1  OBVIOUS
  <2>4. k = y.confirmed + (IF x.output = "ESentData" /\ code = "KErrNone" THEN 1 ELSE 0)
    BY <1>2, <1>4, <2>2 DEF Streaming, Writing
  <2>5. x.output # "EPendingSend"  BY <1>2, <1>4 DEF Streaming, Writing
  <2> HIDE DEF z, k
  <2>6. Reading(z, y, b)  BY <1>4, <2>1 DEF Streaming, Reading
  <2>7. Writing(z, y)
    <3>1. x.answers <= k  BY <1>4, <2>2, <2>3 DEF Streaming, Writing
    <3> QED BY <1>4, <2>1, <2>4, <2>5, <3>1 DEF Streaming, Writing
  <2> QED BY <1>2, <1>4, <2>1, <2>6, <2>7 DEF Streaming
<1>9. link' = Upd(link, i, z)  BY <1>5 DEF SendCompletes, Upd, Completed
<1>10. UNCHANGED <<mgr, store, cache, handles, reading, sends, panic>>  BY DEF SendCompletes
<1> HIDE DEF z
<1> QED BY <1>3, <1>7, <1>8, <1>9, <1>10, LinkStep

\* The server answers.
LEMMA AnswerKeeps ==
  ASSUME IInv, NEW i \in Links, Answer(i)
  PROVE  IInv' /\ Kept
<1> DEFINE x == link[i]
           y == mgr[x.owner]
           z == Replied(x)
           b == (reading = i)
<1>1. Good(link, mgr, store, cache, handles, reading, sends)  BY DEF IInv
<1>2. x.controller = "up" /\ x.answers < x.served  BY DEF Answer
<1>3. i \in store  BY <1>1, <1>2, InStore
<1>4. x \in Link /\ y \in Manager /\ Streaming(x, y, b)  BY <1>1, <1>3, StreamStands
<1>5. link \in [Links -> Link]  BY <1>1 DEF Good, Typed
<1>6. /\ x.answers \in 0 .. MaxData /\ x.served \in 0 .. MaxData /\ x.taken \in Int
      /\ x.answers + 1 <= MaxData
  <2>1. x.answers \in 0 .. MaxData /\ x.served \in 0 .. MaxData /\ MaxData \in Nat /\ x.taken \in 0 .. MaxData
    BY <1>4, ConstantsAssumption DEF Link
  <2> QED BY <1>2, <2>1
<1>7. SameLink(z, x)  BY <1>4, <1>6, NetworkTyped
<1>8. Streaming(z, y, b)
  <2>1. /\ z.input = x.input /\ z.read = x.read /\ z.suspended = x.suspended /\ z.taken = x.taken
        /\ z.output = x.output /\ z.write = x.write /\ z.served = x.served /\ z.answers = x.answers + 1
    BY <1>4 DEF Replied, Link
  <2> HIDE DEF z
  <2>2. Reading(z, y, b)  BY <1>4, <2>1 DEF Streaming, Reading
  <2>3. z.taken <= z.answers /\ z.answers <= z.served /\ (b => z.taken < z.answers)
    BY <1>2, <1>4, <1>6, <2>1 DEF Streaming, Writing
  <2>4. Writing(z, y)  BY <1>4, <2>1, <2>3 DEF Streaming, Writing
  <2> QED BY <1>4, <2>1, <2>2, <2>3, <2>4 DEF Streaming
<1>9. link' = Upd(link, i, z)  BY <1>5 DEF Answer, Upd, Replied
<1>10. UNCHANGED <<mgr, store, cache, handles, reading, sends, panic>>  BY DEF Answer
<1> HIDE DEF z
<1> QED BY <1>3, <1>7, <1>8, <1>9, <1>10, LinkStep

\* The server closes.
LEMMA HangUpKeeps ==
  ASSUME IInv, NEW i \in Links, HangUp(i)
  PROVE  IInv' /\ Kept
<1> DEFINE x == link[i]
           y == mgr[x.owner]
           z == HungUp(x)
           b == (reading = i)
<1>1. Good(link, mgr, store, cache, handles, reading, sends)  BY DEF IInv
<1>2. i \in store  BY <1>1, InStore DEF HangUp
<1>3. x \in Link /\ y \in Manager /\ Streaming(x, y, b)  BY <1>1, <1>2, StreamStands
<1>4. link \in [Links -> Link]  BY <1>1 DEF Good, Typed
<1>5. SameLink(z, x)  BY <1>3, NetworkTyped
<1>6. Streaming(z, y, b)
  <2>1. /\ z.input = x.input /\ z.read = x.read /\ z.suspended = x.suspended /\ z.taken = x.taken
        /\ z.output = x.output /\ z.write = x.write /\ z.served = x.served /\ z.answers = x.answers
    BY <1>3 DEF HungUp, Link
  <2> HIDE DEF z
  <2> QED BY <1>3, <2>1 DEF Streaming, Reading, Writing
<1>7. link' = Upd(link, i, z)  BY <1>4 DEF HangUp, Upd, HungUp
<1>8. UNCHANGED <<mgr, store, cache, handles, reading, sends, panic>>  BY DEF HangUp
<1> HIDE DEF z
<1> QED BY <1>2, <1>5, <1>6, <1>7, <1>8, LinkStep

\* A receive completes.
LEMMA RecvCompletesKeeps ==
  ASSUME IInv, NEW i \in Links, RecvCompletes(i)
  PROVE  IInv' /\ Kept
<1> DEFINE x == link[i]
           y == mgr[x.owner]
           b == (reading = i)
<1>1. Good(link, mgr, store, cache, handles, reading, sends) /\ panic = {}  BY DEF IInv
<1>2. x.read = "pending"  BY DEF RecvCompletes
<1>3. i \in store  BY <1>1, <1>2, InStore
<1>4. x \in Link /\ y \in Manager /\ Streaming(x, y, b)  BY <1>1, <1>3, StreamStands
<1>5. link \in [Links -> Link]  BY <1>1 DEF Good, Typed
<1>6. /\ x.input = "EReceivedData" /\ ~x.suspended /\ ~b
      /\ x.taken = y.got /\ y.got \in Int /\ x.answers \in Int /\ x.taken \in 0 .. MaxData
      /\ x.answers \in 0 .. MaxData /\ MaxData \in Nat
  <2>1. /\ x.taken \in 0 .. MaxData /\ x.answers \in 0 .. MaxData /\ y.got \in 0 .. MaxData /\ MaxData \in Nat
    BY <1>4, ConstantsAssumption DEF Link, Manager
  <2> QED BY <1>2, <1>4, <2>1 DEF Streaming, Reading
<1>7. ASSUME NEW code \in {"KErrNone", "KErrEof"}, NEW k \in 0 .. MaxData,
             k = y.got + (IF code = "KErrNone" THEN 1 ELSE 0), k <= x.answers
      PROVE  SameLink(Received(x, code, k), x) /\ Streaming(Received(x, code, k), y, b)
  <2> DEFINE z == Received(x, code, k)
  <2>1. /\ z.input = x.input /\ z.read = code /\ z.suspended = x.suspended /\ z.taken = k
        /\ z.output = x.output /\ z.write = x.write /\ z.served = x.served /\ z.answers = x.answers
    BY <1>4 DEF Received, Link
  <2> HIDE DEF z
  <2>2. Reading(z, y, b)  BY <1>4, <1>6, <1>7, <2>1 DEF Streaming, Reading
  <2>3. Writing(z, y)  BY <1>4, <1>7, <2>1 DEF Streaming, Writing
  <2>4. Streaming(z, y, b)  BY <1>4, <1>6, <2>2, <2>3 DEF Streaming
  <2>5. SameLink(Received(x, code, k), x)  BY <1>4, NetworkTyped
  <2> QED BY <2>4, <2>5 DEF z
<1>8. UNCHANGED <<mgr, store, cache, handles, reading, sends, panic>>  BY DEF RecvCompletes
<1>9. PendingBytesToRead(world, i) <=> x.answers > x.taken
  <2>1. world.link = link  BY DEF world
  <2> QED BY <2>1 DEF PendingBytesToRead
<1>10. CASE x.answers > x.taken
  <2> DEFINE k == x.taken + 1
             z == Received(x, "KErrNone", k)
  <2>1. k \in 0 .. MaxData /\ k <= x.answers /\ k = y.got + 1  BY <1>6, <1>10
  <2>2. SameLink(z, x) /\ Streaming(z, y, b)
    <3> HIDE DEF k
    <3> QED BY <1>7, <2>1
  <2>3. link' = Upd(link, i, z)  BY <1>5, <1>9, <1>10 DEF RecvCompletes, Upd, Received
  <2> HIDE DEF z
  <2> QED BY <1>3, <1>8, <2>2, <2>3, LinkStep
<1>11. CASE ~(x.answers > x.taken)
  <2> DEFINE z == Received(x, "KErrEof", x.taken)
  <2>1. x.taken <= x.answers /\ x.taken = y.got + 0  BY <1>4, <1>6 DEF Streaming, Writing
  <2>2. SameLink(z, x) /\ Streaming(z, y, b)  BY <1>6, <1>7, <2>1
  <2>3. link' = Upd(link, i, z)
    <3>1. link' = [link EXCEPT ![i].read = "KErrEof"]  BY <1>9, <1>11 DEF RecvCompletes
    <3>2. z = [x EXCEPT !.read = "KErrEof"]  BY <1>4 DEF Received, Link
    <3> QED BY <1>5, <3>1, <3>2 DEF Upd
  <2> HIDE DEF z
  <2> QED BY <1>3, <1>8, <2>2, <2>3, LinkStep
<1> QED BY <1>10, <1>11

-----------------------------------------------------------------------------

Expired(x, timer) == [x EXCEPT !.timers = x.timers \ {timer}]
TimedOut(y) == [y EXCEPT !.timedOut = TRUE]
Expire(w, i, m, timer) == [w EXCEPT !.link[i].timers = w.link[i].timers \ {timer}, !.mgr[m].timedOut = TRUE]

\* A timer in its two writings.
LEMMA ExpireIs ==
  ASSUME NEW w, NEW i, NEW m, NEW timer, "link" \in DOMAIN w, "mgr" \in DOMAIN w, i \in DOMAIN w.link, m \in DOMAIN w.mgr
  PROVE  Expire(w, i, m, timer) = PutMgr(PutLink(w, i, Expired(w.link[i], timer)), m, TimedOut(w.mgr[m]))
BY DEF Expire, PutLink, PutMgr, Expired, TimedOut

\* A timer fires, as a world.
LEMMA ExpireTurns ==
  ASSUME NEW l \in [Links -> Link], NEW g \in [Mgr -> Manager], NEW s, NEW c, NEW h, NEW r, NEW n,
         NEW i \in Links, NEW m \in Mgr, NEW timer
  PROVE  Expire(W(l, g, s, c, h, r, n), i, m, timer)
           = W(Upd(l, i, Expired(l[i], timer)), Upd(g, m, TimedOut(g[m])), s, c, h, r, n)
<1> DEFINE w == W(l, g, s, c, h, r, n)
           v == PutLink(w, i, Expired(w.link[i], timer))
<1>1. w.link = l /\ w.mgr = g /\ "link" \in DOMAIN w /\ "mgr" \in DOMAIN w /\ i \in DOMAIN l /\ m \in DOMAIN g
  BY DEF W
<1>2. Expire(w, i, m, timer) = PutMgr(v, m, TimedOut(w.mgr[m]))
  <2> HIDE DEF w
  <2> QED BY <1>1, ExpireIs
<1>3. v = W(Upd(l, i, Expired(l[i], timer)), g, s, c, h, r, n)  BY <1>1, PutTurns
<1> HIDE DEF v
<1> QED BY <1>1, <1>2, <1>3, PutTurns

\* The RunL of a timer.
LEMMA TimeOutKeeps ==
  ASSUME IInv, NEW i \in Links, NEW timer \in {"receive", "send"}, TimeOut(i, timer)
  PROVE  IInv' /\ Kept
<1> DEFINE m == link[i].owner
           x == Expired(link[i], timer)
           y == TimedOut(mgr[m])
           p == Upd(mgr, m, y)
           w == W(link, mgr, store, cache, handles, reading, sends)
           e == Upd(link, i, x)
           u == W(e, p, store, cache, handles, reading, sends)
           b == (reading = i)
           z == IF timer = "receive" THEN Unread(x) ELSE Unwritten(x)
<1>1. world = w /\ Good(link, mgr, store, cache, handles, reading, sends)  BY WorldBegins DEF IInv
<1>2. timer \in link[i].timers /\ link[i].read \notin Codes /\ link[i].write \notin Codes
  BY DEF TimeOut, Done
<1>3. i \in store  BY <1>1, <1>2, InStore
<1>4. /\ link[i] \in Link /\ m \in Mgr /\ mgr[m] \in Manager
      /\ Streaming(link[i], mgr[m], b) /\ mgr[m].asked <= sends /\ sends \in 0 .. MaxData
  BY <1>1, <1>3, StreamStands
<1>5. link \in [Links -> Link] /\ mgr \in [Mgr -> Manager]  BY <1>1 DEF Good, Typed
<1>6. Expire(w, i, m, timer) = u  BY <1>4, <1>5, ExpireTurns
<1>7. x \in Link /\ SameLink(z, link[i])
  <2>1. x \in Link  BY <1>4 DEF Expired, Link
  <2>2. SameLink(x, link[i])  BY <1>4, <2>1 DEF SameLink, Expired, Link
  <2> HIDE DEF x
  <2>3. SameLink(Unread(x), x)  BY <2>1, ReadTyped
  <2>4. SameLink(Unwritten(x), x)
    <3>1. "none" \in Requests  BY DEF Requests
    <3> QED BY <2>1, <3>1 DEF SameLink, Unwritten, Link
  <2> QED BY <2>1, <2>2, <2>3, <2>4 DEF SameLink
<1>8. SameManager(y, mgr[m]) /\ y.asked <= sends /\ Promised(mgr[m], y)
  BY <1>4 DEF SameManager, TimedOut, Manager, Promised, SameCounts
<1>9. Streaming(z, y, b)
  <2>1. /\ z.input = link[i].input /\ (z.read = link[i].read \/ z.read = "none")
        /\ z.suspended = link[i].suspended /\ z.taken = link[i].taken
        /\ z.output = link[i].output /\ (z.write = link[i].write \/ z.write = "none")
        /\ z.served = link[i].served /\ z.answers = link[i].answers
    BY <1>4 DEF Unread, Unwritten, Expired, Link
  <2>2. /\ y.phase = mgr[m].phase /\ y.holds = mgr[m].holds /\ y.got = mgr[m].got
        /\ y.asked = mgr[m].asked /\ y.confirmed = mgr[m].confirmed
    BY <1>4 DEF TimedOut, Manager
  <2> HIDE DEF z, y
  <2>3. Reading(z, y, b)  BY <1>2, <1>4, <2>1, <2>2 DEF Streaming, Reading, Codes
  <2>4. Writing(z, y)  BY <1>2, <1>4, <2>1, <2>2 DEF Streaming, Writing, Codes
  <2> QED BY <1>4, <2>1, <2>2, <2>3, <2>4 DEF Streaming
<1>10. Becomes(IF timer = "receive" THEN CancelRead(Expire(world, i, m, timer), i)
               ELSE CancelWrite(Expire(world, i, m, timer), i))
  <2>1. Expire(world, i, m, timer)
          = [world EXCEPT !.link[i].timers = @ \ {timer}, !.mgr[link[i].owner].timedOut = TRUE]
    BY <1>1 DEF Expire, W
  <2> QED BY <2>1 DEF TimeOut
<1>11. e \in [Links -> Link] /\ e[i] = x /\ \A a : Upd(e, i, a) = Upd(link, i, a)
  <2>1. e \in [Links -> Link] /\ e[i] = x  BY <1>5, <1>7, UpdTyped
  <2> QED BY <2>1, Twice
<1> HIDE DEF e, x, p
<1>12. /\ CancelRead(u, i) = W(Upd(link, i, Unread(x)), p, store, cache, handles, reading, sends)
       /\ CancelWrite(u, i) = W(Upd(link, i, Unwritten(x)), p, store, cache, handles, reading, sends)
  BY <1>11, ShutTurns
<1>13. Becomes(W(Upd(link, i, z), Upd(mgr, m, y), store, cache, handles, reading, sends))
  BY <1>1, <1>6, <1>10, <1>12 DEF p
<1> HIDE DEF z, y
<1>14. sends <= sends  BY <1>4
<1> QED BY <1>3, <1>4, <1>7, <1>8, <1>9, <1>13, <1>14, StreamStep

-----------------------------------------------------------------------------
(* The manager's calls on its streams *)

Asked(x) == [x EXCEPT !.output = "ESentData", !.write = "pending", !.timers = x.timers \cup {"send"}]
Asks(y) == [y EXCEPT !.asked = y.asked + 1]
Ask(w, i, m) ==
  [w EXCEPT !.mgr[m].asked = w.mgr[m].asked + 1, !.sends = w.sends + 1,
            !.link[i].output = "ESentData", !.link[i].write = "pending",
            !.link[i].timers = w.link[i].timers \cup {"send"}]
Given(x) ==
  [x EXCEPT !.input = "ERead", !.timers = x.timers \cup {"receive"}, !.read = "KErrNone"]
Released(y) == [y EXCEPT !.holds = FALSE]
Release(w, m) == [w EXCEPT !.mgr[m].holds = FALSE]
Filled(x, k) == [x EXCEPT !.taken = k, !.input = "EPendingAck"]
Fill(w, i, m, k) ==
  [w EXCEPT !.reading = 0, !.link[i].taken = k, !.link[i].input = "EPendingAck",
            !.mgr[m].got = k, !.mgr[m].holds = TRUE]

\* A request is handed over in three writings.
LEMMA AskIs ==
  ASSUME NEW w, NEW i, NEW m, {"link", "mgr", "sends"} \subseteq DOMAIN w, i \in DOMAIN w.link, m \in DOMAIN w.mgr
  PROVE  Ask(w, i, m) = SetSends(PutMgr(PutLink(w, i, Asked(w.link[i])), m, Asks(w.mgr[m])), w.sends + 1)
BY ZenonT(30) DEF Ask, PutLink, PutMgr, SetSends, Asked, Asks

\* ... and a piece of a response that is read in place.
LEMMA FillIs ==
  ASSUME NEW w, NEW i, NEW m, NEW k, {"link", "mgr", "reading"} \subseteq DOMAIN w, i \in DOMAIN w.link, m \in DOMAIN w.mgr
  PROVE  Fill(w, i, m, k) = SetReading(PutMgr(PutLink(w, i, Filled(w.link[i], k)), m, Told(w.mgr[m], k)), 0)
BY DEF Fill, PutLink, PutMgr, SetReading, Filled, Told

\* These calls, as worlds.
LEMMA AskTurns ==
  ASSUME NEW l \in [Links -> Link], NEW g \in [Mgr -> Manager], NEW s, NEW c, NEW h, NEW r, NEW n,
         NEW i \in Links, NEW m \in Mgr
  PROVE  Ask(W(l, g, s, c, h, r, n), i, m) = W(Upd(l, i, Asked(l[i])), Upd(g, m, Asks(g[m])), s, c, h, r, n + 1)
<1> DEFINE w == W(l, g, s, c, h, r, n)
           v == PutLink(w, i, Asked(w.link[i]))
           u == PutMgr(v, m, Asks(w.mgr[m]))
<1>1. /\ w.link = l /\ w.mgr = g /\ w.sends = n /\ {"link", "mgr", "sends"} \subseteq DOMAIN w
      /\ i \in DOMAIN l /\ m \in DOMAIN g
  BY DEF W
<1>2. Ask(w, i, m) = SetSends(u, w.sends + 1)
  <2> HIDE DEF w
  <2> QED BY <1>1, AskIs
<1>3. v = W(Upd(l, i, Asked(l[i])), g, s, c, h, r, n)  BY <1>1, PutTurns
<1> HIDE DEF v
<1>4. u = W(Upd(l, i, Asked(l[i])), Upd(g, m, Asks(g[m])), s, c, h, r, n)  BY <1>1, <1>3, PutTurns
<1> HIDE DEF u
<1> QED BY <1>1, <1>2, <1>4, SetTurns

\* A piece of a response read in place, as a world.
LEMMA FillTurns ==
  ASSUME NEW l \in [Links -> Link], NEW g \in [Mgr -> Manager], NEW s, NEW c, NEW h, NEW r, NEW n,
         NEW i \in Links, NEW m \in Mgr, NEW k
  PROVE  Fill(W(l, g, s, c, h, r, n), i, m, k)
           = W(Upd(l, i, Filled(l[i], k)), Upd(g, m, Told(g[m], k)), s, c, h, 0, n)
<1> DEFINE w == W(l, g, s, c, h, r, n)
           v == PutLink(w, i, Filled(w.link[i], k))
           u == PutMgr(v, m, Told(w.mgr[m], k))
<1>1. /\ w.link = l /\ w.mgr = g /\ {"link", "mgr", "reading"} \subseteq DOMAIN w
      /\ i \in DOMAIN l /\ m \in DOMAIN g
  BY DEF W
<1>2. Fill(w, i, m, k) = SetReading(u, 0)
  <2> HIDE DEF w
  <2> QED BY <1>1, FillIs
<1>3. v = W(Upd(l, i, Filled(l[i], k)), g, s, c, h, r, n)  BY <1>1, PutTurns
<1> HIDE DEF v
<1>4. u = W(Upd(l, i, Filled(l[i], k)), Upd(g, m, Told(g[m], k)), s, c, h, r, n)  BY <1>1, <1>3, PutTurns
<1> HIDE DEF u
<1> QED BY <1>2, <1>4, SetTurns

\* The manager gives back what it holds, as a world.
LEMMA ReleaseTurns ==
  ASSUME NEW l, NEW g, NEW s, NEW c, NEW h, NEW r, NEW n, NEW m
  PROVE  Release(W(l, g, s, c, h, r, n), m) = W(l, Upd(g, m, Released(g[m])), s, c, h, r, n)
<1> DEFINE w == W(l, g, s, c, h, r, n)
<1>1. w.mgr = g  BY DEF W
<1>2. Release(w, m) = PutMgr(w, m, Released(w.mgr[m]))  BY DEF Release, PutMgr, Released
<1> QED BY <1>1, <1>2, PutTurns

Held(x) == x.input = "EPendingAck" /\ ~x.suspended

\* ReceivedDataRes, as a world, with no assertion that fails.
LEMMA GivenTurns ==
  ASSUME NEW l \in [Links -> Link], NEW g, NEW s, NEW c, NEW h, NEW r, NEW n, NEW i \in Links, Held(l[i])
  PROVE  ReceivedDataRes(W(l, g, s, c, h, r, n), i) = W(Upd(l, i, Given(l[i])), g, s, c, h, r, n)
<1> DEFINE w == W(l, g, s, c, h, r, n)
           x == [l[i] EXCEPT !.input = "ERead", !.timers = l[i].timers \cup {"receive"}]
           u == [w EXCEPT !.link[i].input = "ERead", !.link[i].timers = w.link[i].timers \cup {"receive"}]
           e == Upd(l, i, x)
<1>1. w.link = l /\ l[i] \in Link /\ w.link[i].input = "EPendingAck" /\ ~w.link[i].suspended  BY DEF W, Held
<1>2. Check(w, w.link[i].input = "EPendingAck", "EBadInputStreamState") = w  BY <1>1 DEF Check
<1>3. u = PutLink(w, i, [w.link[i] EXCEPT !.input = "ERead", !.timers = w.link[i].timers \cup {"receive"}])
  BY DEF PutLink, W
<1>4. u = W(e, g, s, c, h, r, n)  BY <1>1, <1>3, PutTurns
<1>5. u = [w EXCEPT !.link[i].input = "ERead", !.link[i].timers = @ \cup {"receive"}]  BY DEF W
<1> HIDE DEF u
<1>6. ReceivedDataRes(w, i) = CompleteRead(u, i)
  <2> HIDE DEF w
  <2> QED BY <1>1, <1>2, <1>5 DEF ReceivedDataRes
<1>7. e[i] = x /\ \A z : Upd(e, i, z) = Upd(l, i, z)  BY DEF Upd
<1>8. Given(l[i]) = [x EXCEPT !.read = "KErrNone"]  BY <1>1 DEF Given, Link
<1> HIDE DEF e, x
<1>9. CompleteRead(W(e, g, s, c, h, r, n), i) = W(Upd(e, i, [e[i] EXCEPT !.read = "KErrNone"]), g, s, c, h, r, n)
  <2>1. W(e, g, s, c, h, r, n).link = e  BY DEF W
  <2>2. CompleteRead(W(e, g, s, c, h, r, n), i)
          = PutLink(W(e, g, s, c, h, r, n), i, [W(e, g, s, c, h, r, n).link[i] EXCEPT !.read = "KErrNone"])
    BY DEF CompleteRead, PutLink
  <2> QED BY <2>1, <2>2, PutTurns
<1> QED BY <1>4, <1>6, <1>7, <1>8, <1>9

\* A link and its manager, as the calls leave them.
LEMMA CallsTyped ==
  /\ \A x \in Link : /\ SameLink(Asked(x), x) /\ SameLink(Given(x), x) /\ SameLink(Suspended(x), x)
                     /\ SameLink(Resumed(x), x)
                     /\ \A k \in 0 .. MaxData : SameLink(Filled(x, k), x)
  /\ \A y \in Manager : /\ y.asked + 1 <= MaxData => SameManager(Asks(y), y)
                        /\ SameManager(Released(y), y)
<1>1. {"none", "pending", "KErrNone"} \subseteq Requests  BY DEF Requests, Codes
<1>2. {"ERead", "EPendingAck", "EReceivedData"} \subseteq InputStates /\ "ESentData" \in OutputStates
  BY DEF InputStates, OutputStates
<1>3. \A x \in Link : SameLink(Asked(x), x)  BY <1>1, <1>2 DEF SameLink, Asked, Link
<1>4. \A x \in Link : SameLink(Given(x), x)  BY <1>1, <1>2 DEF SameLink, Given, Link
<1>5. ASSUME NEW x \in Link  PROVE SameLink(Suspended(x), x)
  <2> DEFINE k == IF x.input = "EReceivedData" THEN "ERead" ELSE x.input
  <2>1. k \in InputStates  BY <1>2 DEF Link
  <2>2. Suspended(x) = [x EXCEPT !.read = "none", !.input = k, !.suspended = TRUE]  BY DEF Suspended
  <2> HIDE DEF k
  <2> QED BY <1>1, <2>1, <2>2 DEF SameLink, Link
<1>6. \A x \in Link : SameLink(Resumed(x), x)  BY <1>1 DEF SameLink, Resumed, Link
<1>7. \A x \in Link, k \in 0 .. MaxData : SameLink(Filled(x, k), x)  BY <1>2 DEF SameLink, Filled, Link
<1>8. \A y \in Manager : y.asked + 1 <= MaxData => SameManager(Asks(y), y)
  <2>1. MaxData \in Nat  BY ConstantsAssumption
  <2>2. \A y \in Manager : y.asked + 1 <= MaxData => y.asked + 1 \in 0 .. MaxData  BY <2>1 DEF Manager
  <2> QED BY <2>2 DEF SameManager, Asks, Manager
<1>9. \A y \in Manager : SameManager(Released(y), y)  BY DEF SameManager, Released, Manager
<1> QED BY <1>3, <1>4, <1>5, <1>6, <1>7, <1>8, <1>9

\* A manager sends a request.
LEMMA SendDataReqKeeps ==
  ASSUME IInv, NEW m \in Mgr, SendDataReq(m)
  PROVE  IInv' /\ Kept
<1> DEFINE i == mgr[m].out
           w == W(link, mgr, store, cache, handles, reading, sends)
           b == (reading = i)
           x == Asked(link[i])
           y == Asks(mgr[m])
<1>1. world = w /\ Good(link, mgr, store, cache, handles, reading, sends)  BY WorldBegins DEF IInv
<1>2. mgr[m].phase = "connected" /\ mgr[m].asked = mgr[m].confirmed /\ sends < MaxData  BY DEF SendDataReq
<1>3. i \in store /\ i \in Links /\ link[i].owner = m  BY <1>1, <1>2, ManagerStands
<1>4. /\ link[i] \in Link /\ mgr[m] \in Manager /\ Streaming(link[i], mgr[m], b) /\ mgr[m].asked <= sends
      /\ sends \in 0 .. MaxData /\ MaxData \in Nat
  BY <1>1, <1>3, StreamStands
<1>5. link \in [Links -> Link] /\ mgr \in [Mgr -> Manager]  BY <1>1 DEF Good, Typed
<1>6. /\ mgr[m].asked \in 0 .. MaxData /\ mgr[m].asked + 1 <= MaxData /\ sends + 1 \in 0 .. MaxData
      /\ sends <= sends + 1 /\ mgr[m].asked + 1 <= sends + 1 /\ mgr[m].asked < MaxData
  <2>1. mgr[m].asked \in 0 .. MaxData  BY <1>4 DEF Manager
  <2> QED BY <1>2, <1>4, <2>1
<1>7. link[i].output = "EPendingSend" /\ link[i].write = "none"
  BY <1>2, <1>4, <1>6 DEF Streaming, Writing
<1>8. SameLink(x, link[i]) /\ SameManager(y, mgr[m])  BY <1>4, <1>6, CallsTyped
<1>9. /\ y.asked = mgr[m].asked + 1 /\ y.confirmed = mgr[m].confirmed /\ y.got = mgr[m].got
      /\ y.holds = mgr[m].holds /\ y.phase = mgr[m].phase
  BY <1>4 DEF Asks, Manager
<1>10. Streaming(x, y, b)
  <2>1. /\ x.input = link[i].input /\ x.read = link[i].read /\ x.suspended = link[i].suspended /\ x.taken = link[i].taken
        /\ x.output = "ESentData" /\ x.write = "pending" /\ x.served = link[i].served /\ x.answers = link[i].answers
    BY <1>4 DEF Asked, Link
  <2> HIDE DEF x, y
  <2>2. Reading(x, y, b)  BY <1>4, <1>9, <2>1 DEF Streaming, Reading
  <2>3. Writing(x, y)  BY <1>2, <1>4, <1>7, <1>9, <2>1 DEF Streaming, Writing, Handshakes
  <2> QED BY <1>4, <1>9, <2>1, <2>2, <2>3 DEF Streaming
<1>11. Promised(mgr[m], y)  BY <1>2, <1>6, <1>9 DEF Promised
<1>12. Becomes(Ask(world, i, m))
  <2>1. Check(world, link[i].output = "EPendingSend", "EBadOutputStreamState") = world  BY <1>7 DEF Check
  <2>2. Becomes([world EXCEPT !.mgr[m].asked = @ + 1, !.sends = @ + 1,
                              !.link[i].output = "ESentData", !.link[i].write = "pending",
                              !.link[i].timers = @ \cup {"send"}])
    BY <2>1 DEF SendDataReq
  <2> QED BY <2>2 DEF Ask, world
<1>13. Ask(w, i, m) = W(Upd(link, i, x), Upd(mgr, m, y), store, cache, handles, reading, sends + 1)
  BY <1>3, <1>5, AskTurns
<1>14. Becomes(W(Upd(link, i, x), Upd(mgr, m, y), store, cache, handles, reading, sends + 1))
  BY <1>1, <1>12, <1>13
<1>15. y.asked <= sends + 1  BY <1>6, <1>9
<1> HIDE DEF x, y, i
<1> QED BY <1>3, <1>6, <1>8, <1>10, <1>11, <1>14, <1>15, StreamStep

\* A link whose answer is given back.
LEMMA GivenStreams ==
  ASSUME NEW x \in Link, NEW y \in Manager, Streaming(x, y, FALSE), y.holds
  PROVE  /\ Held(x) /\ Streaming(Given(x), Released(y), FALSE) /\ Promised(y, Released(y))
         /\ Released(y).asked = y.asked /\ Released(y).got = y.got
<1> DEFINE z == Given(x)
           a == Released(y)
<1>1. /\ z.input = "ERead" /\ z.read = "KErrNone" /\ z.suspended = x.suspended /\ z.taken = x.taken
      /\ z.output = x.output /\ z.write = x.write /\ z.served = x.served /\ z.answers = x.answers
  BY DEF Given, Link
<1>2. a.asked = y.asked /\ a.confirmed = y.confirmed /\ a.got = y.got /\ a.holds = FALSE /\ a.phase = y.phase
  BY DEF Released, Manager
<1>3. x.input = "EPendingAck" /\ y.phase = "connected" /\ ~x.suspended
  BY DEF Streaming, Reading, Writing
<1> HIDE DEF z, a
<1>4. Reading(z, a, FALSE)  BY <1>1, <1>2, <1>3 DEF Streaming, Reading
<1>5. Writing(z, a)  BY <1>1, <1>2 DEF Streaming, Writing
<1>6. Streaming(z, a, FALSE)  BY <1>2, <1>3, <1>4, <1>5 DEF Streaming
<1>7. Promised(y, a)  BY <1>2 DEF Promised
<1>8. Held(x)  BY <1>3 DEF Held
<1> QED BY <1>2, <1>6, <1>7, <1>8 DEF z, a

\* A manager gives back an answer.
LEMMA GiveBackKeeps ==
  ASSUME IInv, NEW m \in Mgr, GiveBack(m)
  PROVE  IInv' /\ Kept
<1> DEFINE i == mgr[m].in
           w == W(link, mgr, store, cache, handles, reading, sends)
           x == Given(link[i])
           y == Released(mgr[m])
           p == Upd(mgr, m, y)
<1>1. world = w /\ Good(link, mgr, store, cache, handles, reading, sends)  BY WorldBegins DEF IInv
<1>2. mgr[m].holds /\ i # reading  BY DEF GiveBack
<1>3. i \in store /\ i \in Links /\ link[i].owner = m  BY <1>1, <1>2, ManagerStands
<1>4. /\ link[i] \in Link /\ mgr[m] \in Manager /\ Streaming(link[i], mgr[m], reading = i) /\ mgr[m].asked <= sends
      /\ sends \in 0 .. MaxData
  BY <1>1, <1>3, StreamStands
<1>5. link \in [Links -> Link] /\ mgr \in [Mgr -> Manager]  BY <1>1 DEF Good, Typed
<1>6. (reading = i) = FALSE  BY <1>2
<1>7. Streaming(link[i], mgr[m], FALSE)  BY <1>4, <1>6
<1>8. Held(link[i]) /\ Streaming(x, y, FALSE) /\ Promised(mgr[m], y) /\ y.asked = mgr[m].asked
  BY <1>2, <1>4, <1>7, GivenStreams
<1>9. SameLink(x, link[i]) /\ SameManager(y, mgr[m])  BY <1>4, CallsTyped
<1>10. Becomes(ReceivedDataRes(Release(world, m), i))  BY DEF GiveBack, Release
<1>11. Release(w, m) = W(link, p, store, cache, handles, reading, sends)  BY ReleaseTurns
<1> HIDE DEF p
<1>12. ReceivedDataRes(W(link, p, store, cache, handles, reading, sends), i)
         = W(Upd(link, i, x), p, store, cache, handles, reading, sends)
  BY <1>3, <1>5, <1>8, GivenTurns
<1>13. Becomes(W(Upd(link, i, x), Upd(mgr, m, y), store, cache, handles, reading, sends))
  BY <1>1, <1>10, <1>11, <1>12 DEF p
<1>14. Streaming(x, y, reading = i)  BY <1>6, <1>8
<1>15. y.asked <= sends /\ sends <= sends  BY <1>4, <1>8
<1> HIDE DEF x, y, i
<1> QED BY <1>3, <1>4, <1>8, <1>9, <1>13, <1>14, <1>15, StreamStep

-----------------------------------------------------------------------------
(* Reading in place *)

\* A connection that is read on in place.
LEMMA SuspendStreams ==
  ASSUME NEW x \in Link, NEW y \in Manager, Streaming(x, y, FALSE), y.phase = "connected",
         x.taken < x.answers, x.write # "KErrGeneral", ~(x.input = "EReceivedData" /\ x.read = "KErrNone")
  PROVE  ~x.suspended /\ Streaming(Suspended(x), y, TRUE)
<1> DEFINE z == Suspended(x)
<1>1. /\ z.input = IF x.input = "EReceivedData" THEN "ERead" ELSE x.input
      /\ z.read = "none" /\ z.suspended = TRUE /\ z.taken = x.taken
      /\ z.output = x.output /\ z.write = x.write /\ z.served = x.served /\ z.answers = x.answers
  BY DEF Suspended, Link
<1>2. ~x.suspended  BY DEF Streaming, Reading
<1> HIDE DEF z
<1>3. Reading(z, y, TRUE)
  <2>1. z.input \in {"ERead", "EPendingAck"}  BY <1>1 DEF Streaming, Reading
  <2>2. y.holds <=> z.input = "EPendingAck"  BY <1>1 DEF Streaming, Reading
  <2>3. z.taken = y.got + 0  BY <1>1 DEF Streaming, Reading
  <2> QED BY <1>1, <2>1, <2>2, <2>3 DEF Reading
<1>4. Writing(z, y)  BY <1>1 DEF Streaming, Writing
<1> QED BY <1>1, <1>2, <1>3, <1>4 DEF Streaming, z

\* A manager reads on in place what it drops.
LEMMA CompleteResponseKeeps ==
  ASSUME IInv, "immediateReady" \notin Env, "nestedLoss" \notin Env, NEW m \in Mgr, CompleteResponse(m)
  PROVE  IInv' /\ Kept
<1> DEFINE i == mgr[m].in
           w == W(link, mgr, store, cache, handles, reading, sends)
           x == Suspended(link[i])
           y == mgr[m]
           e == Upd(link, i, x)
<1>1. world = w /\ Good(link, mgr, store, cache, handles, reading, sends)  BY WorldBegins DEF IInv
<1>2. /\ reading = 0 /\ mgr[m].phase = "connected"
      /\ ~(Done(link[i].read) /\ link[i].input = "EReceivedData")
      /\ PendingBytesToRead(world, i) /\ link[i].write # "KErrGeneral"
      /\ Becomes(ReadOn(world, m))
  BY DEF CompleteResponse
<1>3. i \in store /\ i \in Links /\ link[i].owner = m  BY <1>1, <1>2, ManagerStands
<1>4. /\ link[i] \in Link /\ mgr[m] \in Manager /\ Streaming(link[i], mgr[m], reading = i) /\ mgr[m].asked <= sends
      /\ sends \in 0 .. MaxData
  BY <1>1, <1>3, StreamStands
<1>5. link \in [Links -> Link] /\ mgr \in [Mgr -> Manager]  BY <1>1 DEF Good, Typed
<1>6. (reading = i) = FALSE  BY <1>2, <1>3, LinksFinite
<1>7. world.link = link /\ world.mgr = mgr  BY DEF world
<1>8. link[i].taken < link[i].answers
  <2>1. link[i].answers > link[i].taken  BY <1>2, <1>7 DEF PendingBytesToRead
  <2>2. link[i].answers \in Int /\ link[i].taken \in Int  BY <1>4 DEF Link
  <2> QED BY <2>1, <2>2
<1>9. ~link[i].suspended /\ Streaming(x, y, TRUE)
  <2>1. Streaming(link[i], mgr[m], FALSE)  BY <1>4, <1>6
  <2>2. ~(link[i].input = "EReceivedData" /\ link[i].read = "KErrNone")  BY <1>2 DEF Done, Codes
  <2> QED BY <1>2, <1>4, <1>8, <2>1, <2>2, SuspendStreams
<1>10. SameLink(x, link[i]) /\ SameManager(y, mgr[m]) /\ Promised(mgr[m], y)
  <2>1. SameLink(x, link[i])  BY <1>4, CallsTyped
  <2>2. SameManager(y, mgr[m]) /\ Promised(mgr[m], y)  BY <1>4 DEF SameManager, Promised, SameCounts
  <2> QED BY <2>1, <2>2
<1>11. Becomes(SetReading(Suspend(world, i), i))
  BY <1>2, <1>7 DEF ReadOn, ImmediateRead, SetReading
<1>12. Suspend(w, i) = W(e, mgr, store, cache, handles, reading, sends)  BY <1>3, <1>5, <1>9, SuspendTurns
<1>13. Upd(mgr, m, y) = mgr  BY <1>4, <1>5 DEF Upd
<1> HIDE DEF e
<1>14. Becomes(W(e, Upd(mgr, m, y), store, cache, handles, i, sends))
  BY <1>1, <1>11, <1>12, <1>13, SetTurns
<1>15. Becomes(W(Upd(link, i, x), Upd(mgr, m, y), store, cache, handles, i, sends))  BY <1>14 DEF e
<1>16. sends <= sends /\ y.asked <= sends  BY <1>4
<1> HIDE DEF x
<1> DEFINE q == i
<1>17. Streaming(x, y, q = i)  BY <1>9
<1>18. q = reading \/ (reading \in {0, i} /\ q \in {0, i})  BY <1>2
<1> HIDE DEF q, i
<1>19. Becomes(W(Upd(link, i, x), Upd(mgr, m, y), store, cache, handles, q, sends))  BY <1>15 DEF q
<1> HIDE DEF y
<1>20. i \in store /\ m = link[i].owner /\ SameLink(x, link[i]) /\ SameManager(y, mgr[m])  BY <1>3, <1>10
<1>21. sends \in 0 .. MaxData /\ sends <= sends /\ y.asked <= sends /\ Promised(mgr[m], y)  BY <1>4, <1>10, <1>16
<1> QED BY <1>17, <1>18, <1>19, <1>20, <1>21, StreamStep

\* A piece of a response that has been read in place.
FilledWell(x, y, k) ==
  /\ k \in 0 .. MaxData /\ k <= x.answers /\ y.phase = "connected"
  /\ IsSuspended(Filled(x, k)) /\ Filled(x, k).input = "EPendingAck"
  /\ Streaming(Resumed(Filled(x, k)), Told(y, k), FALSE)
  /\ Resumed(Filled(x, k)).taken = k /\ Resumed(Filled(x, k)).answers = x.answers
  /\ Resumed(Filled(x, k)).input = "EPendingAck" /\ Resumed(Filled(x, k)).write = x.write
  /\ Told(y, k).phase = "connected" /\ Told(y, k).holds = TRUE
  /\ Told(y, k).asked = y.asked /\ Told(y, k).confirmed = y.confirmed /\ Told(y, k).got = y.got + 1
  /\ y.got < y.confirmed

\* ... is delivered to a manager that may be given it.
LEMMA FillStreams ==
  ASSUME NEW x \in Link, NEW y \in Manager, Streaming(x, y, TRUE), x.write \notin Codes, NEW k, k = x.taken + 1
  PROVE  FilledWell(x, y, k)
<1> DEFINE z == Resumed(Filled(x, k))
           a == Told(y, k)
<1>1. x.taken \in 0 .. MaxData /\ x.answers \in 0 .. MaxData /\ x.served \in Int /\ MaxData \in Nat
  BY ConstantsAssumption DEF Link
<1>2. /\ x.taken < x.answers /\ x.answers <= x.served /\ y.phase = "connected" /\ x.suspended
      /\ x.read = "none"
  BY DEF Streaming, Reading, Writing
<1>3. k \in 0 .. MaxData /\ k <= x.answers  BY <1>1, <1>2
<1>4. /\ z.input = "EPendingAck" /\ z.read = x.read /\ z.suspended = FALSE /\ z.taken = k
      /\ z.output = x.output /\ z.write = x.write /\ z.served = x.served /\ z.answers = x.answers
      /\ Filled(x, k).input = "EPendingAck" /\ Filled(x, k).suspended = x.suspended
  BY DEF Resumed, Filled, Link
<1>5. a.got = k /\ a.holds = TRUE /\ a.phase = y.phase /\ a.asked = y.asked /\ a.confirmed = y.confirmed
  BY DEF Told, Manager
<1>6. x.taken = y.got /\ x.served = y.confirmed
  <2>1. y.got \in Int /\ y.confirmed \in Int  BY DEF Manager
  <2>2. x.write # "KErrNone" /\ x.read # "KErrNone"  BY <1>2 DEF Codes
  <2> QED BY <2>1, <2>2 DEF Streaming, Reading, Writing
<1> HIDE DEF z, a
<1>7. Reading(z, a, FALSE)
  <2>1. z.suspended <=> (FALSE \/ a.phase = "upgrading")  BY <1>2, <1>4, <1>5
  <2>2. z.taken = a.got + 0  BY <1>1, <1>3, <1>4, <1>5
  <2> QED BY <1>2, <1>4, <1>5, <2>1, <2>2 DEF Reading
<1>8. Writing(z, a)
  <2>1. x.output \notin Handshakes  BY <1>2 DEF Streaming, Writing
  <2> QED BY <1>3, <1>4, <1>5, <2>1 DEF Streaming, Writing
<1>9. Streaming(z, a, FALSE)  BY <1>2, <1>5, <1>7, <1>8 DEF Streaming
<1>10. y.got < y.confirmed  BY <1>1, <1>2, <1>6
<1>11. IsSuspended(Filled(x, k))  BY <1>2, <1>4 DEF IsSuspended
<1>12. a.got = y.got + 1  BY <1>5, <1>6
<1> QED BY <1>2, <1>3, <1>4, <1>5, <1>9, <1>10, <1>11, <1>12 DEF z, a, FilledWell

\* A manager closes its connection, whatever the step has done to its streams.
LEMMA CloseFollows ==
  ASSUME NEW l, NEW g, NEW s, NEW c, NEW h, NEW r, NEW n, Good(l, g, s, c, h, r, n),
         NEW i \in s, NEW m, m = l[i].owner, NEW q, q = IF r = i THEN 0 ELSE r,
         NEW x, SameLink(x, l[i]), NEW y, SameManager(y, g[m]),
         NEW k, k = Upd(l, i, DeletedLink), NEW v, v = s \ {i}
  PROVE  /\ CloseConnection(W(Upd(l, i, x), Upd(g, m, y), s, c, h, q, n), m)
              = W(k, Upd(g, m, NewManager), v, CacheLeft(k, v, c), HandlesLeft(k, v, c, h), q, n)
         /\ Good(k, Upd(g, m, NewManager), v, CacheLeft(k, v, c), HandlesLeft(k, v, c, h), q, n)
         /\ Follows(W(k, Upd(g, m, NewManager), v, CacheLeft(k, v, c), HandlesLeft(k, v, c, h), q, n), g)
<1> DEFINE e == Upd(l, i, x)
           p == Upd(g, m, y)
           d == CacheLeft(k, v, c)
           f == HandlesLeft(k, v, c, h)
<1>1. l \in [Links -> Link] /\ g \in [Mgr -> Manager]  BY DEF Good, Typed
<1>2. /\ i \in Links /\ m \in Mgr /\ l[i].connector = "gone" /\ g[m].in = i /\ g[m].out = i
      /\ Streaming(l[i], g[m], r = i)
  BY StreamStands
<1>3. x \in Link /\ x.owner = m /\ x.connector = "gone" /\ y \in Manager /\ y.in = i /\ y.out = i
  BY <1>2 DEF SameLink, SameManager
<1>4. e \in [Links -> Link] /\ e[i] = x /\ k = Upd(e, i, DeletedLink)
  <2>1. e \in [Links -> Link] /\ e[i] = x  BY <1>1, <1>2, <1>3, UpdTyped
  <2>2. Upd(e, i, DeletedLink) = Upd(l, i, DeletedLink)  BY Twice
  <2> QED BY <2>1, <2>2
<1>5. p \in [Mgr -> Manager] /\ p[m] = y /\ Upd(p, m, NewManager) = Upd(g, m, NewManager)
  <2>1. p \in [Mgr -> Manager] /\ p[m] = y  BY <1>1, <1>2, <1>3, UpdTyped
  <2> QED BY <2>1, Twice
<1>6. Good(k, Upd(g, m, NewManager), v, d, f, q, n)  BY LossGood
<1> HIDE DEF e, p
<1>7. CloseConnection(W(e, p, s, c, h, q, n), m) = W(k, Upd(p, m, NewManager), v, d, f, q, n)
  <2>1. e[i].owner = m /\ e[i].connector = "gone" /\ p[m].in = i /\ p[m].out = i  BY <1>3, <1>4, <1>5
  <2> QED BY <1>2, <1>4, <1>5, <2>1, CloseConnectionTurns
<1>8. NewManager \in Manager /\ Promised(g[m], NewManager)
  <2>1. g[m].phase # "idle"  BY <1>2 DEF Streaming
  <2> QED BY <1>2, <2>1, ConnectingTyped DEF Promised
<1> HIDE DEF d, f
<1>9. Follows(W(k, Upd(g, m, NewManager), v, d, f, q, n), g)  BY <1>2, <1>6, <1>8, FollowsIs
<1> QED BY <1>5, <1>6, <1>7, <1>9 DEF d, f, e, p

\* The same, of the step only.
LEMMA CloseEnds ==
  ASSUME NEW l, NEW g, NEW s, NEW c, NEW h, NEW r, NEW n, Good(l, g, s, c, h, r, n),
         NEW i \in s, NEW m, m = l[i].owner, NEW q, q = IF r = i THEN 0 ELSE r,
         NEW x, SameLink(x, l[i]), NEW y, SameManager(y, g[m])
  PROVE  Follows(CloseConnection(W(Upd(l, i, x), Upd(g, m, y), s, c, h, q, n), m), g)
<1> DEFINE k == Upd(l, i, DeletedLink)
           v == s \ {i}
           z == W(k, Upd(g, m, NewManager), v, CacheLeft(k, v, c), HandlesLeft(k, v, c, h), q, n)
<1>1. /\ CloseConnection(W(Upd(l, i, x), Upd(g, m, y), s, c, h, q, n), m) = z
      /\ Follows(z, g)
  BY CloseFollows
<1> HIDE DEF z
<1> QED BY <1>1

\* A manager closes its connection, and may connect again.
LEMMA CloseKeeps ==
  ASSUME IInv, "nestedLoss" \notin Env, NEW m \in Mgr, NEW again \in BOOLEAN, Close(m, again)
  PROVE  IInv' /\ Kept
<1> DEFINE i == mgr[m].in
           w == W(link, mgr, store, cache, handles, reading, sends)
           k == Upd(link, i, DeletedLink)
           v == store \ {i}
           p == Upd(mgr, m, NewManager)
           d == CacheLeft(k, v, cache)
           f == HandlesLeft(k, v, cache, handles)
           z == W(k, p, v, d, f, reading, sends)
<1>1. world = w /\ Good(link, mgr, store, cache, handles, reading, sends)  BY WorldBegins DEF IInv
<1>2. /\ mgr[m].phase \in {"upgrading", "connected"} /\ (reading = 0 \/ i # reading)
      /\ again => CanConnect(w)
      /\ Becomes(IF again THEN ConnectL(CloseConnection(w, m), m, "KErrNone") ELSE CloseConnection(w, m))
  BY <1>1 DEF Close, Free
<1>3. i \in store /\ i \in Links /\ link[i].owner = m  BY <1>1, <1>2, ManagerStands
<1>4. link \in [Links -> Link] /\ mgr \in [Mgr -> Manager]  BY <1>1 DEF Good, Typed
<1>5. link[i] \in Link /\ mgr[m] \in Manager /\ link[i].connector = "gone"  BY <1>1, <1>3, StreamStands
<1>6. reading = IF reading = i THEN 0 ELSE reading  BY <1>2, <1>3, LinksFinite
<1>7. SameLink(link[i], link[i]) /\ SameManager(mgr[m], mgr[m])  BY <1>5 DEF SameLink, SameManager
<1>8. Upd(link, i, link[i]) = link /\ Upd(mgr, m, mgr[m]) = mgr  BY <1>4 DEF Upd
<1> HIDE DEF i
<1>9. /\ CloseConnection(W(Upd(link, i, link[i]), Upd(mgr, m, mgr[m]), store, cache, handles, reading, sends), m) = z
      /\ Good(k, p, v, d, f, reading, sends) /\ Follows(z, mgr)
  BY <1>1, <1>3, <1>6, <1>7, CloseFollows
<1>10. CloseConnection(w, m) = z  BY <1>8, <1>9
<1> HIDE DEF w
<1>11. CASE ~again
  <2>1. Becomes(z)  BY <1>2, <1>10, <1>11
  <2> QED BY <1>9, <2>1, StepEnds
<1>12. CASE again
  <2>1. Becomes(ConnectL(z, m, "KErrNone"))  BY <1>2, <1>10, <1>12
  <2>2. p[m] = NewManager  BY <1>4, ConnectingTyped, <1>3, UpdTyped
  <2>3. CanConnect(z)
    <3>1. PICK j \in Links : link[j].connector = "unused"  BY <1>2, <1>12 DEF CanConnect, w, W
    <3>2. j # i  BY <1>5, <3>1
    <3>3. k[j].connector = "unused"  BY <3>1, <3>2, UpdTyped
    <3> HIDE DEF k
    <3> QED BY <3>3 DEF CanConnect, W
  <2> HIDE DEF k, v, d, f
  <2>4. "KErrNone" \in Codes  BY DEF Codes
  <2> HIDE DEF p
  <2>5. PICK j \in Links : \E y, a, b :
           /\ ConnectL(z, m, "KErrNone") = W(Upd(k, j, y), Upd(p, m, Connecting(j)), v, a, b, reading, sends)
           /\ Good(Upd(k, j, y), Upd(p, m, Connecting(j)), v, a, b, reading, sends)
    BY <1>9, <2>2, <2>3, <2>4, ConnectGood
  <2>6. Upd(p, m, Connecting(j)) = Upd(mgr, m, Connecting(j))  BY Twice DEF p
  <2>7. PICK y, a, b :
           /\ ConnectL(z, m, "KErrNone") = W(Upd(k, j, y), Upd(mgr, m, Connecting(j)), v, a, b, reading, sends)
           /\ Good(Upd(k, j, y), Upd(mgr, m, Connecting(j)), v, a, b, reading, sends)
    BY <2>5, <2>6
  <2>8. Connecting(j) \in Manager /\ Promised(mgr[m], Connecting(j))
    <3>1. mgr[m].phase # "idle"  BY <1>2
    <3> QED BY <3>1, ConnectingTyped DEF Promised
  <2> HIDE DEF z
  <2>9. Follows(ConnectL(z, m, "KErrNone"), mgr)  BY <2>7, <2>8, FollowsIs
  <2> QED BY <2>1, <2>9, StepEnds
<1> QED BY <1>11, <1>12

\* The read in place is over.
LEMMA ImmediateReadReturnsKeeps ==
  ASSUME IInv, NEW then \in {"complete", "more", "close"}, ImmediateReadReturns(then)
  PROVE  IInv' /\ Kept
<1> DEFINE i == reading
           m == link[i].owner
           k == link[i].taken + 1
           w == W(link, mgr, store, cache, handles, reading, sends)
           a == Filled(link[i], k)
           x == Resumed(a)
           y == Told(mgr[m], k)
           e == Upd(link, i, x)
           p == Upd(mgr, m, y)
           u == W(e, p, store, cache, handles, 0, sends)
           o == 0
<1>1. world = w /\ Good(link, mgr, store, cache, handles, reading, sends)  BY WorldBegins DEF IInv
<1>2. i # 0 /\ link[i].write \notin Codes  BY DEF ImmediateReadReturns, Done
<1>3. i \in store  BY <1>1, <1>2 DEF Good
<1>4. /\ i \in Links /\ link[i] \in Link /\ m \in Mgr /\ mgr[m] \in Manager /\ mgr[m].asked <= sends
      /\ sends \in 0 .. MaxData /\ link[i].controller = "up" /\ link[i].connector = "gone"
      /\ Streaming(link[i], mgr[m], reading = i)
      /\ mgr[m].in = i
  BY <1>1, <1>3, StreamStands
<1>5. link \in [Links -> Link] /\ mgr \in [Mgr -> Manager]  BY <1>1 DEF Good, Typed
<1>6. (reading = i) = TRUE  OBVIOUS
<1>7. Streaming(link[i], mgr[m], TRUE)  BY <1>4, <1>6
<1>8. /\ k \in 0 .. MaxData /\ k <= link[i].answers /\ mgr[m].phase = "connected"
      /\ IsSuspended(a) /\ a.input = "EPendingAck"
      /\ Streaming(x, y, FALSE)
      /\ x.taken = k /\ x.answers = link[i].answers /\ x.input = "EPendingAck" /\ x.write = link[i].write
      /\ y.phase = "connected" /\ y.holds = TRUE /\ y.asked = mgr[m].asked
      /\ y.confirmed = mgr[m].confirmed /\ y.got = mgr[m].got + 1
      /\ mgr[m].got < mgr[m].confirmed
  <2>1. k = link[i].taken + 1  OBVIOUS
  <2> HIDE DEF k
  <2>2. FilledWell(link[i], mgr[m], k)  BY <1>2, <1>4, <1>7, <2>1, FillStreams
  <2> QED BY <2>2 DEF FilledWell
<1>9. SameLink(x, link[i]) /\ SameManager(y, mgr[m]) /\ a \in Link /\ x \in Link /\ y \in Manager
  <2>1. SameLink(a, link[i]) /\ SameManager(y, mgr[m])  BY <1>4, <1>8, CallsTyped, ReadTyped
  <2>2. a \in Link  BY <2>1 DEF SameLink
  <2>3. SameLink(x, a)  BY <2>2, CallsTyped
  <2> QED BY <2>1, <2>2, <2>3 DEF SameLink, SameManager
<1>10. Resume(Fill(w, i, m, k), i) = u
  <2> DEFINE b == Upd(link, i, a)
  <2>1. Fill(w, i, m, k) = W(b, p, store, cache, handles, 0, sends)  BY <1>4, <1>5, FillTurns
  <2> HIDE DEF a, p
  <2>2. b \in [Links -> Link] /\ b[i] = a  BY <1>4, <1>5, <1>9, UpdTyped
  <2>3. Upd(b, i, x) = e  BY Twice
  <2> HIDE DEF b
  <2>4. IsSuspended(b[i])  BY <1>8, <2>2
  <2>5. Resume(W(b, p, store, cache, handles, o, sends), i)
          = W(Upd(b, i, Resumed(b[i])), p, store, cache, handles, o, sends)
    <3> HIDE DEF o
    <3> QED BY <1>4, <2>2, <2>4, ResumeTurns
  <2> QED BY <2>1, <2>2, <2>3, <2>5
<1>11. Becomes(IF then = "complete" THEN ReceivedDataRes(Release(u, m), i)
               ELSE IF then = "more" THEN ReadOn(u, m) ELSE CloseConnection(u, m))
  <2> DEFINE v == [world EXCEPT !.reading = 0, !.link[i].taken = k,
                                !.link[i].input = "EPendingAck", !.mgr[m].got = k,
                                !.mgr[m].holds = TRUE]
             t == Resume(v, i)
  <2>1. Becomes(IF link[i].controller = "deleted" THEN Panic(world, "deleted")
                ELSE IF then = "complete" THEN ReceivedDataRes([t EXCEPT !.mgr[m].holds = FALSE], i)
                ELSE IF then = "more" THEN ReadOn(t, m)
                ELSE CloseConnection(t, m))
    BY DEF ImmediateReadReturns
  <2>2. v = Fill(w, i, m, k)  BY <1>1 DEF Fill
  <2> HIDE DEF v, u, w
  <2>3. t = u  BY <1>10, <2>2
  <2> HIDE DEF t
  <2>4. Becomes(IF then = "complete" THEN ReceivedDataRes([t EXCEPT !.mgr[m].holds = FALSE], i)
                ELSE IF then = "more" THEN ReadOn(t, m)
                ELSE CloseConnection(t, m))
    BY <1>4, <2>1
  <2> QED BY <2>3, <2>4 DEF Release
<1>12. e \in [Links -> Link] /\ e[i] = x /\ \A z : Upd(e, i, z) = Upd(link, i, z)
  <2>1. e \in [Links -> Link] /\ e[i] = x  BY <1>4, <1>5, <1>9, UpdTyped
  <2> QED BY <2>1, Twice
<1>13. p \in [Mgr -> Manager] /\ p[m] = y /\ \A z : Upd(p, m, z) = Upd(mgr, m, z)
  <2>1. p \in [Mgr -> Manager] /\ p[m] = y  BY <1>4, <1>5, <1>9, UpdTyped
  <2> QED BY <2>1, Twice
<1>14. o = (IF reading = i THEN 0 ELSE reading) /\ o \in {0, i} /\ reading \in {0, i} /\ (o = i) = FALSE
  BY <1>2
<1>15. sends <= sends  BY <1>4
<1>16. Promised(mgr[m], y)
  BY <1>4, <1>8 DEF Promised
<1>17. Becomes(CloseConnection(u, m)) => IInv' /\ Kept
  <2> HIDE DEF e, p, u, o, k
  <2> DEFINE q == i
  <2>1. q \in store /\ m = link[q].owner /\ o = IF reading = q THEN 0 ELSE reading  BY <1>3, <1>14
  <2>2. SameLink(x, link[q])  BY <1>9
  <2>3. u = W(Upd(link, q, x), Upd(mgr, m, y), store, cache, handles, o, sends)  BY DEF u, e, p, o
  <2> HIDE DEF x, y, q, m
  <2>4. Follows(CloseConnection(W(Upd(link, q, x), Upd(mgr, m, y), store, cache, handles, o, sends), m), mgr)
    BY <1>1, <1>9, <2>1, <2>2, CloseEnds
  <2>5. Follows(CloseConnection(u, m), mgr)  BY <2>3, <2>4
  <2> QED BY <2>5, StepEnds
<1>18. CASE then = "complete"
  <2> DEFINE z == Given(x)
             y2 == Released(y)
             p2 == Upd(mgr, m, y2)
  <2>1. Held(x) /\ Streaming(z, y2, FALSE) /\ y2.asked = y.asked /\ y2.got = y.got
    BY <1>8, <1>9, GivenStreams
  <2>2. y2.phase = y.phase /\ y2.holds = FALSE /\ y2.confirmed = y.confirmed  BY <1>9 DEF Released, Manager
  <2>3. SameLink(z, link[i]) /\ SameManager(y2, mgr[m])
    <3>1. SameLink(z, x) /\ SameManager(y2, y)  BY <1>9, CallsTyped
    <3> QED BY <1>9, <3>1 DEF SameLink, SameManager
  <2> HIDE DEF y2, x, y, e, p
  <2>4. Promised(mgr[m], y2)  BY <1>8, <2>1, <2>2 DEF Promised
  <2>5. Release(u, m) = W(e, p2, store, cache, handles, o, sends)
    BY <1>13, ReleaseTurns DEF y2
  <2> HIDE DEF p2, u, o
  <2>6. ReceivedDataRes(W(e, p2, store, cache, handles, o, sends), i)
          = W(Upd(e, i, Given(e[i])), p2, store, cache, handles, o, sends)
    BY <1>4, <1>12, <2>1, GivenTurns
  <2>7. Becomes(W(Upd(link, i, z), Upd(mgr, m, y2), store, cache, handles, o, sends))
    BY <1>11, <1>12, <1>18, <2>5, <2>6 DEF p2
  <2>8. Streaming(z, y2, o = i)  BY <1>14, <2>1
  <2>9. y2.asked <= sends  BY <1>4, <1>8, <2>1
  <2> HIDE DEF z
  <2> QED BY <1>3, <1>4, <1>14, <1>15, <2>3, <2>4, <2>7, <2>8, <2>9, StreamStep
<1>19. CASE then = "more"
  <2>1. u.link = e /\ u.mgr = p  BY DEF W
  <2>2. y.in = i  BY <1>4, <1>9 DEF SameManager
  <2>3. ReadOn(u, m) = IF x.answers > x.taken THEN SetReading(Suspend(u, i), i) ELSE CloseConnection(u, m)
    <3> HIDE DEF u, e, p, x, y
    <3> QED BY <1>12, <1>13, <2>1, <2>2 DEF ReadOn, PendingBytesToRead, ImmediateRead, SetReading
  <2>4. CASE x.answers > x.taken
    <3> DEFINE z == Suspended(x)
               q == i
    <3>1. ~x.suspended /\ Streaming(z, y, TRUE)
      <4>1. x.taken < x.answers
        <5>1. x.taken \in Int /\ x.answers \in Int  BY <1>9 DEF Link
        <5> QED BY <2>4, <5>1
      <4>2. x.write # "KErrGeneral" /\ x.input # "EReceivedData"  BY <1>2, <1>8 DEF Codes
      <4> QED BY <1>8, <1>9, <4>1, <4>2, SuspendStreams
    <3>2. SameLink(z, link[i])
      <4>1. SameLink(z, x)  BY <1>9, CallsTyped
      <4> QED BY <1>9, <4>1 DEF SameLink
    <3> HIDE DEF x, e, p, o
    <3>3. Suspend(W(e, p, store, cache, handles, o, sends), i)
            = W(Upd(e, i, Suspended(e[i])), p, store, cache, handles, o, sends)
      BY <1>4, <1>12, <3>1, SuspendTurns
    <3>4. SetReading(W(Upd(e, i, Suspended(e[i])), p, store, cache, handles, o, sends), i)
            = W(Upd(link, i, z), p, store, cache, handles, i, sends)
      BY <1>12, SetTurns
    <3>5. Becomes(SetReading(Suspend(u, i), i))
      <4> HIDE DEF u
      <4> QED BY <1>11, <1>19, <2>3, <2>4
    <3>6. Becomes(W(Upd(link, i, z), Upd(mgr, m, y), store, cache, handles, q, sends))
      BY <3>3, <3>4, <3>5 DEF p, o
    <3>7. Streaming(z, y, q = i)  BY <3>1
    <3>8. y.asked <= sends  BY <1>4, <1>8
    <3>9. q = reading  OBVIOUS
    <3> HIDE DEF z, y, q
    <3> QED BY <1>3, <1>4, <1>9, <1>15, <1>16, <3>2, <3>6, <3>7, <3>8, <3>9, StreamStep
  <2>5. CASE ~(x.answers > x.taken)
    <3> HIDE DEF u, x
    <3>1. Becomes(CloseConnection(u, m))  BY <1>11, <1>19, <2>3, <2>5
    <3> QED BY <1>17, <3>1
  <2> QED BY <2>4, <2>5
<1>20. CASE then = "close"
  <2> HIDE DEF u
  <2>1. Becomes(CloseConnection(u, m))  BY <1>11, <1>20
  <2> QED BY <1>17, <2>1
<1> QED BY <1>18, <1>19, <1>20

-----------------------------------------------------------------------------
(* The theorems *)

\* What the theorems suppose of the managers: while one reads in place, nothing
\* takes the connection away from under it, and it begins only when the reader has
\* nothing of its own to hand over.
Careful == Env \cap {"immediateReady", "nestedLoss"} = {}

\* The invariant holds in the beginning.
LEMMA InitGood == Init => IInv
<1> SUFFICES ASSUME Init PROVE IInv  OBVIOUS
<1>1. /\ MaxConnects \in Nat /\ MaxData \in Nat /\ 0 \in 0 .. MaxConnects /\ 0 \in 0 .. MaxData
  BY ConstantsAssumption
<1>2. NewLink \in Link
  BY <1>1 DEF NewLink, Link, ConnectStates, Requests, InputStates, OutputStates
<1>3. NewManager \in Manager  BY <1>1 DEF NewManager, Manager
<1>4. link \in [Links -> Link] /\ mgr \in [Mgr -> Manager]  BY <1>2, <1>3 DEF Init
<1>5. Typed(link, mgr, store, cache, handles, reading, sends)  BY <1>1, <1>4 DEF Typed, Init
<1>6. \A i \in Links : link[i] = NewLink  BY DEF Init
<1>7. \A m \in Mgr : mgr[m] = NewManager  BY DEF Init
<1>8. store = {i \in Links : link[i].controller = "up"}  BY <1>6, NewFields DEF Init
<1>9. \A i \in Links : Linked(i, link, mgr, reading)  BY <1>6 DEF Linked
<1>10. \A m \in Mgr : Managed(m, link, mgr, store)  BY <1>7 DEF Managed
<1>11. \A m \in Mgr : mgr[m].asked <= sends  BY <1>7, NewFields DEF Init
<1>12. Resolvers(link, cache, handles)
  <2>1. cache = <<>> /\ handles = {}  BY DEF Init
  <2>2. IsInjective(<<>>) /\ ToSet(<<>>) = {}  BY DEF IsInjective, ToSet
  <2>3. Cardinality({}) = 0  BY FS_EmptySet
  <2>4. Opened(link) = {}  BY <1>6, NewFields DEF Opened
  <2>5. \A i \in Links : link[i].connector # "EConnecting"  BY <1>6, NewFields
  <2> QED BY <2>1, <2>2, <2>3, <2>4, <2>5 DEF Resolvers
<1> QED BY <1>5, <1>8, <1>9, <1>10, <1>11, <1>12 DEF Good, IInv, Init

\* Every step keeps the invariant, and every manager does what HttpStreams promises.
LEMMA NextGood ==
  ASSUME IInv, Careful, Next
  PROVE  IInv' /\ Kept
<1>1. "immediateReady" \notin Env /\ "nestedLoss" \notin Env  BY DEF Careful
<1>2. ASSUME NEW m \in Mgr, NEW result \in {"KErrNone", "KErrNotReady", "KErrGeneral"}, Connect(m, result)
      PROVE  IInv' /\ Kept
  <2>1. result \in Codes  BY DEF Codes
  <2> QED BY <1>2, <2>1, ConnectKeeps
<1>3. ASSUME NEW m \in Mgr, StopConnect(m)  PROVE IInv' /\ Kept
  BY <1>3, StopConnectKeeps
<1>4. ASSUME NEW m \in Mgr, SendDataReq(m)  PROVE IInv' /\ Kept
  BY <1>4, SendDataReqKeeps
<1>5. ASSUME NEW m \in Mgr, GiveBack(m)  PROVE IInv' /\ Kept
  BY <1>5, GiveBackKeeps
<1>6. ASSUME NEW m \in Mgr, CompleteResponse(m)  PROVE IInv' /\ Kept
  BY <1>1, <1>6, CompleteResponseKeeps
<1>7. ASSUME NEW m \in Mgr, NEW again \in BOOLEAN, Close(m, again)  PROVE IInv' /\ Kept
  BY <1>1, <1>7, CloseKeeps
<1>8. ASSUME NEW then \in {"complete", "more", "close"}, ImmediateReadReturns(then)  PROVE IInv' /\ Kept
  BY <1>8, ImmediateReadReturnsKeeps
<1>9. ASSUME NEW i \in Links, NEW code \in {"KErrNone", "KErrGeneral"}, SendCompletes(i, code)  PROVE IInv' /\ Kept
  BY <1>1, <1>9, SendCompletesKeeps
<1>10. ASSUME NEW i \in Links, Answer(i)  PROVE IInv' /\ Kept
  BY <1>10, AnswerKeeps
<1>11. ASSUME NEW i \in Links, HangUp(i)  PROVE IInv' /\ Kept
  BY <1>11, HangUpKeeps
<1>12. ASSUME NEW i \in Links, RecvCompletes(i)  PROVE IInv' /\ Kept
  BY <1>12, RecvCompletesKeeps
<1>13. ASSUME NEW i \in Links, NEW code \in Codes, NEW next \in {"KErrNone", "KErrGeneral"}, RunConnector(i, code, next)
       PROVE  IInv' /\ Kept
  <2>1. next \in Codes  BY DEF Codes
  <2> QED BY <1>13, <2>1, RunConnectorKeeps
<1>14. ASSUME NEW i \in Links, NEW again \in BOOLEAN, RunWriter(i, again)  PROVE IInv' /\ Kept
  BY <1>14, RunWriterKeeps
<1>15. ASSUME NEW i \in Links, NEW again \in BOOLEAN, RunReader(i, again)  PROVE IInv' /\ Kept
  BY <1>15, RunReaderKeeps
<1>16. ASSUME NEW i \in Links, NEW timer \in {"receive", "send"}, TimeOut(i, timer)  PROVE IInv' /\ Kept
  BY <1>16, TimeOutKeeps
<1> QED BY <1>2, <1>3, <1>4, <1>5, <1>6, <1>7, <1>8, <1>9, <1>10, <1>11, <1>12, <1>13, <1>14, <1>15, <1>16 DEF Next

\* Nothing happens.
LEMMA StutterGood == IInv /\ UNCHANGED vars => IInv'
BY DEF IInv, vars

\* The property follows from the invariant.
LEMMA GoodExact == IInv => StoreExact
<1> SUFFICES ASSUME IInv PROVE StoreExact  OBVIOUS
<1>1. Good(link, mgr, store, cache, handles, reading, sends) /\ panic = {}  BY DEF IInv
<1>2. NoPanic  BY <1>1 DEF NoPanic, TypeOK, Good, Typed
<1>3. /\ store = {i \in Links : link[i].controller = "up"} /\ Resolvers(link, cache, handles)
      /\ store \subseteq Links /\ cache \in Seq(Links)
  BY <1>1 DEF Good, Typed
<1>4. \A i \in store : /\ link[i].input # "EClosed" /\ link[i].output # "EClosed"
                       /\ mgr[link[i].owner].in = i /\ mgr[link[i].owner].out = i
  BY <1>1, StreamStands DEF Streaming, Reading, Writing, Handshakes
<1>5. store = {i \in Links : /\ link[i].controller = "up"
                             /\ link[i].input # "EClosed" /\ link[i].output # "EClosed"}
  BY <1>3, <1>4
<1>6. \A i \in Links : link[i].controller = "up" => i \in store  BY <1>3
<1>7. \A i \in store : mgr[link[i].owner].in = i /\ mgr[link[i].owner].out = i  BY <1>4
<1>8. \A m \in Mgr : {mgr[m].in, mgr[m].out} \subseteq store \cup {0}
  BY <1>1, NewFields DEF Good, Managed
<1>9. ASSUME NEW m \in Mgr, NEW i \in Links
      PROVE  mgr[m].connector = i <=> i \in InConnectorStore(world) /\ link[i].owner = m
  <2>1. i \in InConnectorStore(world) <=> link[i].connector \in Live
    <3>1. link[i].connector \in ConnectStates  BY <1>1, LinkStands DEF Link
    <3>2. world.link = link  BY DEF world
    <3> QED BY <3>1, <3>2 DEF InConnectorStore, ConnectStates, Live
  <2>2. link[i].connector \in Live /\ link[i].owner = m => mgr[m].connector = i
    BY <1>1, LinkStands, NewFields
  <2>3. mgr[m].connector = i => link[i].connector \in Live /\ link[i].owner = m
    BY <1>1, NewFields, LinksFinite DEF Good, Managed
  <2> QED BY <2>1, <2>2, <2>3
<1>10. IsInjective(cache) /\ ToSet(cache) \subseteq handles  BY <1>3 DEF Resolvers
<1>11. \A i \in Links : Query(i) => link[i].resolver \in handles \ ToSet(cache)  BY <1>3 DEF Resolvers, Query
<1>12. \A i, j \in Links : Query(i) /\ Query(j) /\ i # j => link[i].resolver # link[j].resolver
  BY <1>3 DEF Resolvers, Query
<1> QED BY <1>2, <1>5, <1>6, <1>7, <1>8, <1>9, <1>10, <1>11, <1>12 DEF StoreExact

\* For any number of managers, connections and requests, as long as the managers are
\* careful when they read in place: the store of controllers, the connectors, the
\* cache of host resolvers and what each manager holds of them agree, and no assertion
\* fails (CSocketController::StreamClosed, CTcpTransportLayer's stores and cache, the
\* states the input and the output stream check).
THEOREM TransportAgrees == Careful => (Spec => []StoreExact)
<1> SUFFICES ASSUME Careful PROVE Spec => []StoreExact  OBVIOUS
<1>1. Init => IInv  BY InitGood
<1>2. IInv /\ [Next]_vars => IInv'  BY NextGood, StutterGood
<1>3. IInv => StoreExact  BY GoodExact
<1> QED BY <1>1, <1>2, <1>3, PTL DEF Spec

-----------------------------------------------------------------------------
(* The refinement *)

PhaseOf(y) == IF y.phase = "connected" THEN "open" ELSE y.phase

\* One manager's promise is a step of HttpStreams, or leaves all as it was.
LEMMA KeptIsPromised ==
  ASSUME mgr \in [Mgr -> Manager], Kept
  PROVE  [Streams!Next]_(Streams!vars)
<1>1. PICK m \in Mgr, y \in Manager : mgr' = Upd(mgr, m, y) /\ Promised(mgr[m], y)  BY DEF Kept
<1> DEFINE P == [k \in Mgr |-> IF mgr[k].phase = "connected" THEN "open" ELSE mgr[k].phase]
           A == [k \in Mgr |-> mgr[k].asked]
           C == [k \in Mgr |-> mgr[k].confirmed]
           G == [k \in Mgr |-> mgr[k].got]
           H == [k \in Mgr |-> mgr[k].holds]
           x == mgr[m]
<1>2. x \in Manager /\ mgr'[m] = y /\ \A k \in Mgr : k # m => mgr'[k] = mgr[k]  BY <1>1 DEF Upd
<1>3. /\ P' = [P EXCEPT ![m] = PhaseOf(y)] /\ P[m] = PhaseOf(x)
      /\ A' = [A EXCEPT ![m] = y.asked] /\ A[m] = x.asked
      /\ C' = [C EXCEPT ![m] = y.confirmed] /\ C[m] = x.confirmed
      /\ G' = [G EXCEPT ![m] = y.got] /\ G[m] = x.got
      /\ H' = [H EXCEPT ![m] = y.holds] /\ H[m] = x.holds
  <2>1. P' = [P EXCEPT ![m] = PhaseOf(y)] /\ P[m] = PhaseOf(x)  BY <1>2 DEF PhaseOf
  <2>2. A' = [A EXCEPT ![m] = y.asked] /\ A[m] = x.asked  BY <1>2
  <2>3. C' = [C EXCEPT ![m] = y.confirmed] /\ C[m] = x.confirmed  BY <1>2
  <2>4. G' = [G EXCEPT ![m] = y.got] /\ G[m] = x.got  BY <1>2
  <2>5. H' = [H EXCEPT ![m] = y.holds] /\ H[m] = x.holds  BY <1>2
  <2> QED BY <2>1, <2>2, <2>3, <2>4, <2>5
<1>4. /\ P = [P EXCEPT ![m] = P[m]] /\ A = [A EXCEPT ![m] = A[m]] /\ C = [C EXCEPT ![m] = C[m]]
      /\ G = [G EXCEPT ![m] = G[m]] /\ H = [H EXCEPT ![m] = H[m]]
  OBVIOUS
<1>5. /\ x.asked \in Int /\ x.confirmed \in Int /\ x.got \in Int /\ MaxData \in Int
      /\ y.holds \in BOOLEAN /\ x.holds \in BOOLEAN
  <2>1. MaxData \in Nat  BY ConstantsAssumption
  <2> QED BY <1>2, <2>1 DEF Manager
<1> SUFFICES \/ \E k \in Mgr : \/ Streams!Connect(k) \/ Streams!Made(k) \/ Streams!Upgraded(k) \/ Streams!Send(k)
                               \/ Streams!Confirm(k) \/ Streams!Deliver(k) \/ Streams!GiveBack(k) \/ Streams!Lose(k)
             \/ P' = P /\ A' = A /\ C' = C /\ G' = G /\ H' = H
  BY DEF Streams!Next, Streams!vars
<1>6. SameCounts(x, y) => A' = A /\ C' = C /\ G' = G /\ H' = H
  <2> HIDE DEF A, C, G, H
  <2> QED BY <1>3, <1>4 DEF SameCounts
<1>7. y.phase = x.phase => P' = P
  <2> HIDE DEF P
  <2> QED BY <1>3, <1>4 DEF PhaseOf
<1>8. CASE SameCounts(x, y) /\ y.phase = x.phase
  BY <1>6, <1>7, <1>8
<1>9. CASE SameCounts(x, y) /\ x.phase = "idle" /\ y.phase = "connecting"
  <2>1. P[m] = "idle" /\ P' = [P EXCEPT ![m] = "connecting"]
    <3> HIDE DEF P
    <3> QED BY <1>3, <1>9 DEF PhaseOf
  <2>2. Streams!Connect(m)
    <3>1. A' = A /\ C' = C /\ G' = G /\ H' = H  BY <1>6, <1>9
    <3> QED BY <2>1, <3>1 DEF Streams!Connect, Streams!Counts
  <2> QED BY <2>2
<1>10. CASE SameCounts(x, y) /\ x.phase = "connecting" /\ y.phase \in {"upgrading", "connected"}
  <2>1. P[m] = "connecting" /\ P' \in {[P EXCEPT ![m] = p] : p \in {"upgrading", "open"}}
    <3> HIDE DEF P
    <3> QED BY <1>3, <1>10 DEF PhaseOf
  <2>2. Streams!Made(m)
    <3>1. A' = A /\ C' = C /\ G' = G /\ H' = H  BY <1>6, <1>10
    <3> QED BY <2>1, <3>1 DEF Streams!Made, Streams!Counts
  <2> QED BY <2>2
<1>11. CASE SameCounts(x, y) /\ x.phase = "upgrading" /\ y.phase = "connected"
  <2>1. P[m] = "upgrading" /\ P' = [P EXCEPT ![m] = "open"]
    <3> HIDE DEF P
    <3> QED BY <1>3, <1>11 DEF PhaseOf
  <2>2. Streams!Upgraded(m)
    <3>1. A' = A /\ C' = C /\ G' = G /\ H' = H  BY <1>6, <1>11
    <3> QED BY <2>1, <3>1 DEF Streams!Upgraded, Streams!Counts
  <2> QED BY <2>2
<1>12. CASE /\ y.phase = x.phase /\ x.phase = "connected" /\ x.asked = x.confirmed /\ x.asked < MaxData
            /\ y.asked = x.asked + 1 /\ y.confirmed = x.confirmed /\ y.got = x.got /\ y.holds = x.holds
  <2>1. P[m] = "open" /\ P' = P  BY <1>3, <1>7, <1>12 DEF PhaseOf
  <2>2. A' = [A EXCEPT ![m] = A[m] + 1] /\ C' = C /\ G' = G /\ H' = H /\ A[m] = C[m] /\ A[m] < MaxData
    <3> HIDE DEF A, C, G, H
    <3> QED BY <1>3, <1>4, <1>12
  <2>3. Streams!Send(m)  BY <2>1, <2>2 DEF Streams!Send
  <2> QED BY <2>3
<1>13. CASE /\ y.phase = x.phase /\ x.confirmed < x.asked
            /\ y.asked = x.asked /\ y.confirmed = x.confirmed + 1 /\ y.got = x.got /\ y.holds = x.holds
  <2>1. P' = P  BY <1>7, <1>13
  <2>2. A' = A /\ C' = [C EXCEPT ![m] = C[m] + 1] /\ G' = G /\ H' = H /\ C[m] < A[m]
    <3> HIDE DEF A, C, G, H
    <3> QED BY <1>3, <1>4, <1>13
  <2>3. Streams!Confirm(m)  BY <2>1, <2>2 DEF Streams!Confirm
  <2> QED BY <2>3
<1>14. CASE /\ y.phase = x.phase /\ x.got < x.confirmed
            /\ y.asked = x.asked /\ y.confirmed = x.confirmed /\ y.got = x.got + 1 /\ y.holds \in BOOLEAN
  <2>1. P' = P  BY <1>7, <1>14
  <2>2. /\ A' = A /\ C' = C /\ G' = [G EXCEPT ![m] = G[m] + 1] /\ G[m] < C[m]
        /\ H' \in {[H EXCEPT ![m] = h] : h \in BOOLEAN}
    <3> HIDE DEF A, C, G, H
    <3> QED BY <1>3, <1>4, <1>14
  <2>3. Streams!Deliver(m)  BY <2>1, <2>2 DEF Streams!Deliver
  <2> QED BY <2>3
<1>15. CASE /\ y.phase = x.phase /\ x.holds
            /\ y.asked = x.asked /\ y.confirmed = x.confirmed /\ y.got = x.got /\ y.holds = FALSE
  <2>1. P' = P  BY <1>7, <1>15
  <2>2. A' = A /\ C' = C /\ G' = G /\ H' = [H EXCEPT ![m] = FALSE] /\ H[m]
    <3> HIDE DEF A, C, G, H
    <3> QED BY <1>3, <1>4, <1>15
  <2>3. Streams!GiveBack(m)  BY <2>1, <2>2 DEF Streams!GiveBack
  <2> QED BY <2>3
<1>16. CASE x.phase # "idle" /\ (y = NewManager \/ \E k \in Links : y = Connecting(k))
  <2>1. /\ y.phase \in {"idle", "connecting"} /\ y.asked = 0 /\ y.confirmed = 0 /\ y.got = 0 /\ y.holds = FALSE
    BY <1>16, NewFields
  <2>2. P[m] # "idle" /\ P' \in {[P EXCEPT ![m] = p] : p \in {"idle", "connecting"}}
    <3> HIDE DEF P
    <3> QED BY <1>3, <1>16, <2>1 DEF PhaseOf
  <2>3. /\ A' = [A EXCEPT ![m] = 0] /\ C' = [C EXCEPT ![m] = 0] /\ G' = [G EXCEPT ![m] = 0]
        /\ H' = [H EXCEPT ![m] = FALSE]
    <3> HIDE DEF A, C, G, H
    <3> QED BY <1>3, <2>1
  <2>4. Streams!Lose(m)  BY <2>2, <2>3 DEF Streams!Lose, Streams!Fresh
  <2> QED BY <2>4
<1> HIDE DEF P, A, C, G, H, x
<1>17. Promised(x, y)  BY <1>1 DEF x
<1> QED BY <1>8, <1>9, <1>10, <1>11, <1>12, <1>13, <1>14, <1>15, <1>16, <1>17 DEF Promised

\* For any number of managers, connections and requests, under the same condition:
\* what the transport does to a connection manager is what HttpStreams allows
\* (MInputStreamObserver, MOutputStreamObserver, MSocketConnectObserver: one request at
\* a time, answers in order, each after the confirmation of its request, the two
\* streams lost together).
THEOREM TransportImplements == Careful => (Spec => KeepsStreams)
<1> SUFFICES ASSUME Careful PROVE Spec => KeepsStreams  OBVIOUS
<1>1. Init => IInv  BY InitGood
<1>2. IInv /\ [Next]_vars => IInv'  BY NextGood, StutterGood
<1>3. Init => Streams!Init
  <2> SUFFICES ASSUME Init PROVE Streams!Init  OBVIOUS
  <2>1. \A m \in Mgr : mgr[m] = NewManager  BY DEF Init
  <2> QED BY <2>1, NewFields DEF Streams!Init
<1>4. IInv /\ [Next]_vars => [Streams!Next]_(Streams!vars)
  <2> SUFFICES ASSUME IInv, [Next]_vars PROVE [Streams!Next]_(Streams!vars)  OBVIOUS
  <2>1. mgr \in [Mgr -> Manager]  BY DEF IInv, Good, Typed
  <2>2. CASE Next
    <3>1. Kept  BY <2>2, NextGood
    <3> QED BY <2>1, <3>1, KeptIsPromised
  <2>3. CASE UNCHANGED vars
    BY <2>3 DEF vars, Streams!vars
  <2> QED BY <2>2, <2>3
<1> QED BY <1>1, <1>2, <1>3, <1>4, PTL DEF Spec, KeepsStreams, Streams!Spec
=============================================================================
