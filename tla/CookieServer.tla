----------------------------- MODULE CookieServer -----------------------------
(***************************************************************************)
(* The cookie server and its clients: one process serves the cookie        *)
(* filters of all HTTP sessions of the phone, keeps the cookies of each    *)
(* group of applications in an array, oldest place first, and in a file    *)
(* while the group is not in use (httpfilters/cookie).                     *)
(*                                                                         *)
(* A session is an RCookieManager in some process, known to the server by  *)
(* the process's secure id. Its calls are synchronous; an answer takes two *)
(* of them (EGetCookieSize, EGetCookies) with other processes in between.  *)
(* Connecting always starts another server process, which reads the files  *)
(* of the configured groups before it finds out whether it is needed.      *)
(*                                                                         *)
(* The cache at the client's side is left out: its clones have neither     *)
(* path nor domain (CCookie::CopyFromL), so it never answers. So are       *)
(* application ids below the secure id, which the look-up ignores, memory  *)
(* failures and damaged files.                                             *)
(***************************************************************************)
EXTENDS Integers, FiniteSets, SequencesExt

CONSTANTS
    Sessions,       \* RCookieManagers, one to a process
    Ids,            \* secure ids; a group is named by one
    SecureId,       \* of each session
    Configured,     \* the groups of CookieGroup.xml, in its order
    Members,        \* of each configured group: who shares it besides
    Keys,           \* a cookie's name, domain and path
    Size,           \* in bytes
    Limit,          \* KCookieMaxFileLength
    Uris,
    Matches,        \* of each URI: the keys whose cookies are sent there
    Lives,          \* of each key: [kind, time], kept until, for, or while in use
    MaxStores, MaxTime, MaxOpens, MaxCrashes,   \* bounds
    Env             \* liberties of the environment

ASSUME EnvAssumption == Env \subseteq
    {"abandon",     \* a client may give an answer up between its two calls
     "invalid",     \* a server may set cookies that are not valid for its URI
     "die",         \* a client's process may end without Close
     "crossing",    \* files may be written while another server process reads them
     "interleaved", \* two processes of a group may call between each other's two calls
     "full"}        \* the disk may be full

VARIABLES
    up,             \* a server process runs
    groupData,      \* iCookieGroupData: [group, cookies] in order
    files,          \* of each group
    timer,          \* iCloseTimer runs
    list,           \* of each session: iGetCookieList
    pc,             \* of each session: where its client is
    loading,        \* of a session connecting: what the process it started has read
    clock, stored, opened, crashes,
    panic

vars == <<up, groupData, files, timer, list, pc, loading, clock, stored, opened, crashes, panic>>
server == <<up, groupData, files, timer>>
counters == <<clock, stored, opened, crashes>>

Alive == panic = {}

\* The jar's notions of a cookie's life and of room, at this clock.
Total(cookies) == FoldSeq(LAMBDA c, sum : Size[c.key] + sum, 0, cookies)
Without(cookies, n) == SubSeq(cookies, n + 1, Len(cookies))

\* CCookie::Expired. A Max-Age counts from the moment the object was made, and so does
\* an Expires: it arrives as text, and ExpiredNetscapeL takes it relative to the
\* response's Date.
Expired(c) == c.life.kind # "transient" /\ c.life.time <= clock - c.received

\* CCookie::Persistent
Persistent(c) ==
    \/ c.life.kind = "expires"
    \/ c.life.kind = "maxAge" /\ c.life.time > 0

\* ReadCookiesFromFile: a cookie read is received anew.
ReadCookiesFromFile(g) == [i \in DOMAIN files[g] |-> [files[g][i] EXCEPT !.received = clock]]

\* What WriteCookiesToFile leaves of an array.
Kept(cookies) ==
    [i \in DOMAIN SelectSeq(cookies, LAMBDA c : Persistent(c) /\ ~Expired(c)) |->
        [SelectSeq(cookies, LAMBDA c : Persistent(c) /\ ~Expired(c))[i] EXCEPT !.received = 0]]

\* WriteCookiesToFile: with no cookies at all the file goes whatever room there is;
\* otherwise CheckDiskSpace may forbid to write.
WriteCookiesToFile(kept, data, room) ==
    IF data.cookies # <<>> /\ ~room THEN kept
    ELSE [kept EXCEPT ![data.group] = Kept(data.cookies)]

Disk == IF "full" \in Env THEN BOOLEAN ELSE {TRUE}

\* The destructors of group data, one after the other.
Written(data, room) ==
    FoldLeft(LAMBDA kept, d : WriteCookiesToFile(kept, d, room), files, data)

\* CCookieGroupData::ConstructL
GroupData(g) == [group |-> g, cookies |-> ReadCookiesFromFile(g)]

\* Every server process begins with the groups of CookieGroup.xml.
LoadGroupDataFromFileL == [i \in DOMAIN Configured |-> GroupData(Configured[i])]

-----------------------------------------------------------------------------
\* The groups

IsThisPartOfSharedGroup(g, id) == id \in Members[g]

\* CGroupIdArray::GetGroupId: the first configured group that is the client's or
\* shared with it, or the client itself.
GroupOf(id) ==
    LET mine == {i \in DOMAIN Configured : Configured[i] = id \/ IsThisPartOfSharedGroup(Configured[i], id)}
    IN IF mine = {} THEN id ELSE Configured[CHOOSE i \in mine : \A j \in mine : i <= j]

Found(data, g) == {i \in DOMAIN data : data[i].group = g}

\* FindIndex: the first
FindIndex(data, g) == CHOOSE i \in Found(data, g) : \A j \in Found(data, g) : i <= j

\* GetGroupDataIndexL makes the group's data when there is none, and when there is
\* no group at all it makes it twice: the flag found is not set by the first branch.
\* The index is that of the last one made.
WithGroup(g) ==
    IF Found(groupData, g) # {} THEN groupData
    ELSE (IF groupData = <<>> THEN <<GroupData(g)>> ELSE groupData) \o <<GroupData(g)>>

GetGroupDataIndexL(g) ==
    IF Found(groupData, g) # {} THEN FindIndex(groupData, g) ELSE Len(WithGroup(g))

-----------------------------------------------------------------------------
\* The array of a group

\* DoesAlreadyExists: the last cookie with this name, domain and path.
Same(cookies, c) == {i \in DOMAIN cookies : cookies[i].key = c.key}
LastSame(cookies, c) == CHOOSE i \in Same(cookies, c) : \A j \in Same(cookies, c) : j <= i

\* How many cookies must go until there is room for c, but no more than limit.
ToGo(cookies, c, most) ==
    CHOOSE n \in 0..most :
       /\ n = most \/ Total(Without(cookies, n)) + Size[c.key] <= Limit
       /\ \A m \in 0..n - 1 : Total(Without(cookies, m)) + Size[c.key] > Limit

\* MakeRoomIfNeeded
MakeRoomIfNeeded(cookies, c) == Without(cookies, ToGo(cookies, c, Len(cookies)))

\* AddL
AddL(cookies, c) == Append(MakeRoomIfNeeded(cookies, c), c)

\* MakeRoomForInsertIfNeededL stops when the cookie to be replaced has gone itself.
MakeRoomForInsertIfNeededL(cookies, c) == Without(cookies, ToGo(cookies, c, LastSame(cookies, c)))

\* InsertL before the old one, and Remove of the old one
InsertL(cookies, c, i) == [cookies EXCEPT ![i] = c]

\* Mutant: the index of the cookie to be replaced is not moved with the array.
WithCookieStaleIndex(cookies, c) ==
    IF Same(cookies, c) = {} THEN AddL(cookies, c)
    ELSE LET room == MakeRoomForInsertIfNeededL(cookies, c)
             index == LastSame(cookies, c)
         IN IF index \in DOMAIN room THEN InsertL(room, c, index) ELSE AddL(room, c)

\* The array's part of DoStoreCookieL.
WithCookie(cookies, c) ==
    IF Same(cookies, c) = {} THEN AddL(cookies, c)
    ELSE LET room == MakeRoomForInsertIfNeededL(cookies, c)
             index == LastSame(cookies, c) - (Len(cookies) - Len(room))
         IN IF index > 0 THEN InsertL(room, c, index) ELSE AddL(room, c)

\* RemoveExpired, before every look-up
RemoveExpired(cookies) == SelectSeq(cookies, LAMBDA c : ~Expired(c))

-----------------------------------------------------------------------------
\* The server process

Serving(s) == pc[s] \in {"open", "sized", "closing"}
iSessionCount == Cardinality({s \in Sessions : Serving(s)})

\* Without "crossing" nobody writes a file while another process has read it.
Quiet == "crossing" \in Env \/ \A s \in Sessions : pc[s] # "starting"

\* Without "interleaved" nobody of the group calls between a session's two calls.
Apart(s) ==
    "interleaved" \in Env
      \/ \A t \in Sessions \ {s} : pc[t] = "sized" => GroupOf(SecureId[t]) # GroupOf(SecureId[s])

\* RCookieManager::Connect starts a server process; its ConstructL reads the files of
\* the configured groups ...
Connect(s) ==
    /\ Alive /\ pc[s] = "closed" /\ opened < MaxOpens /\ Quiet
    /\ loading' = [loading EXCEPT ![s] = LoadGroupDataFromFileL]
    /\ pc' = [pc EXCEPT ![s] = "starting"]
    /\ opened' = opened + 1
    /\ UNCHANGED <<server, list, clock, stored, crashes, panic>>

\* ... and starts the server. When there is one already it leaves, and its destructor
\* writes back what it has read.
StartCookieServer(s) ==
    /\ Alive /\ pc[s] = "starting"
    /\ IF up THEN /\ \E room \in Disk : files' = Written(loading[s], room)
                  /\ UNCHANGED <<up, groupData, timer>>
             ELSE /\ up' = TRUE
                  /\ groupData' = loading[s]
                  /\ timer' = TRUE
                  /\ UNCHANGED files
    /\ loading' = [loading EXCEPT ![s] = <<>>]
    /\ pc' = [pc EXCEPT ![s] = "started"]
    /\ UNCHANGED <<list, counters, panic>>

\* CreateSession, and the server's DoNewSessionL; no server, no session.
DoNewSessionL(s) ==
    /\ Alive /\ pc[s] = "started"
    /\ IF up THEN /\ pc' = [pc EXCEPT ![s] = "open"]
                  /\ timer' = FALSE
             ELSE /\ pc' = [pc EXCEPT ![s] = "closed"]
                  /\ UNCHANGED timer
    /\ UNCHANGED <<up, groupData, files, list, loading, counters, panic>>

\* CCookieTimer::RunL stops the scheduler; the server is deleted and writes its groups.
TimerFires ==
    /\ Alive /\ up /\ timer /\ Quiet
    /\ \E room \in Disk : files' = Written(groupData, room)
    /\ up' = FALSE
    /\ groupData' = <<>>
    /\ timer' = FALSE
    /\ UNCHANGED <<list, pc, loading, counters, panic>>

\* The server's process ends at any point.
Crash ==
    /\ Alive /\ up /\ crashes < MaxCrashes
    /\ up' = FALSE
    /\ groupData' = <<>>
    /\ timer' = FALSE
    /\ pc' = [s \in Sessions |-> IF Serving(s) THEN "dead" ELSE pc[s]]
    /\ list' = [s \in Sessions |-> {}]
    /\ crashes' = crashes + 1
    /\ UNCHANGED <<files, loading, clock, stored, opened, panic>>

Tick ==
    /\ Alive /\ clock < MaxTime
    /\ clock' = clock + 1
    /\ UNCHANGED <<server, list, pc, loading, stored, opened, crashes, panic>>

-----------------------------------------------------------------------------
\* The calls of a session

\* UnpackCookieL takes a cookie without a Version for one of Netscape's: its Max-Age,
\* for which the client's CCookie took it for another, is not looked at any more.
UnpackCookieL(life) ==
    IF life.kind = "unversioned" THEN [kind |-> "transient", time |-> 0] ELSE life

Group(s) == GroupOf(SecureId[s])

\* EStoreCookie: the group's data is found or made; a cookie that is not valid for
\* its URI changes nothing else (KErrCorrupt).
DoStoreCookieL(s, k, life, valid) ==
    /\ Alive /\ pc[s] = "open" /\ Apart(s) /\ Quiet
    /\ stored < MaxStores
    /\ LET c == [key |-> k, val |-> stored + 1, life |-> UnpackCookieL(life), received |-> clock, set |-> clock]
           data == WithGroup(Group(s))
           index == GetGroupDataIndexL(Group(s))
       IN groupData' = IF valid THEN [data EXCEPT ![index].cookies = WithCookie(@, c)] ELSE data
    /\ stored' = IF valid THEN stored + 1 ELSE stored
    /\ UNCHANGED <<up, files, timer, list, pc, loading, clock, opened, crashes, panic>>

\* CCookieArray::GetCookies: the expired cookies are dropped, those that match selected.
Selected(cookies, uri) == {c \in Range(RemoveExpired(cookies)) : c.key \in Matches[uri]}

\* Mutant: the new selection is added to a list that was left behind.
GetCookieSizeAppends(s, uri) ==
    /\ Alive /\ pc[s] = "open" /\ Apart(s) /\ Quiet
    /\ LET data == WithGroup(Group(s))
           index == GetGroupDataIndexL(Group(s))
       IN /\ groupData' = [data EXCEPT ![index].cookies = RemoveExpired(@)]
          /\ list' = [list EXCEPT ![s] = @ \union Selected(data[index].cookies, uri)]
          /\ pc' = [pc EXCEPT ![s] = IF list'[s] = {} THEN "open" ELSE "sized"]
    /\ UNCHANGED <<up, files, timer, loading, counters, panic>>

\* EGetCookieSize: a list left from before is only reset, and no size is written: the
\* client takes it for none. Otherwise the cookies for the URI are selected.
DoGetCookieSize(s, uri) ==
    /\ Alive /\ pc[s] = "open" /\ Apart(s) /\ Quiet
    /\ LET data == WithGroup(Group(s))
           index == GetGroupDataIndexL(Group(s))
       IN IF list[s] # {}
          THEN /\ list' = [list EXCEPT ![s] = {}]
               /\ groupData' = data
               /\ UNCHANGED pc
          ELSE /\ groupData' = [data EXCEPT ![index].cookies = RemoveExpired(@)]
               /\ list' = [list EXCEPT ![s] = Selected(data[index].cookies, uri)]
               /\ pc' = [pc EXCEPT ![s] = IF list'[s] = {} THEN "open" ELSE "sized"]
    /\ UNCHANGED <<up, files, timer, loading, counters, panic>>

\* The cookies that exist in the server.
Held == UNION {Range(groupData[i].cookies) : i \in DOMAIN groupData}

\* EGetCookies: the selected cookies are packed through the pointers of the list.
DoGetCookies(s) ==
    /\ Alive /\ pc[s] = "sized"
    /\ panic' = panic \union {name \in {"ECookieBrokenGetRequest", "FreedCookie"} :
                    \/ name = "ECookieBrokenGetRequest" /\ list[s] = {}
                    \/ name = "FreedCookie" /\ ~(list[s] \subseteq Held)}
    /\ list' = [list EXCEPT ![s] = {}]
    /\ pc' = [pc EXCEPT ![s] = "open"]
    /\ UNCHANGED <<server, loading, counters>>

\* GetCookiesL leaves between its two calls: no memory for the answer.
GetCookiesLeaves(s) ==
    /\ Alive /\ "abandon" \in Env /\ pc[s] = "sized"
    /\ pc' = [pc EXCEPT ![s] = "open"]
    /\ UNCHANGED <<server, list, loading, counters, panic>>

\* EClearAllCookies: the group of the secure id itself, if it is in memory, loses its
\* cookies and its file, and is removed; its destructor has nothing to write.
DoClearAllCookies(s) ==
    /\ Alive /\ pc[s] = "open" /\ Apart(s) /\ Quiet
    /\ Found(groupData, SecureId[s]) # {}
    /\ LET index == FindIndex(groupData, SecureId[s])
       IN groupData' = RemoveAt(groupData, index)
    /\ files' = [files EXCEPT ![SecureId[s]] = <<>>]
    /\ UNCHANGED <<up, timer, list, pc, loading, counters, panic>>

\* DestroyGroupData: every data of the group is removed, and written by its destructor.
DestroyGroupData(g, room) ==
    /\ files' = Written(SelectSeq(groupData, LAMBDA d : d.group = g), room)
    /\ groupData' = SelectSeq(groupData, LAMBDA d : d.group # g)

\* EDestroyCookies, the first half of RCookieManager::Close, is for the group of the
\* secure id itself, not for one it shares.
DoDestroyCookies(s) ==
    /\ Alive /\ pc[s] = "open" /\ Apart(s) /\ Quiet
    /\ \E room \in Disk : DestroyGroupData(SecureId[s], room)
    /\ pc' = [pc EXCEPT ![s] = "closing"]
    /\ UNCHANGED <<up, timer, list, loading, counters, panic>>

\* Mutant: the timer is started only by a session that was closed in order.
CloseSessionInOrder(s) ==
    /\ Alive
    /\ pc[s] = "closing" \/ ("die" \in Env /\ Serving(s))
    /\ pc' = [pc EXCEPT ![s] = "closed"]
    /\ timer' = (timer \/ (iSessionCount = 1 /\ pc[s] = "closing"))
    /\ list' = [list EXCEPT ![s] = {}]
    /\ UNCHANGED <<up, groupData, files, loading, counters, panic>>

\* The session is closed, by its client or because the client's process has ended; with
\* the last one the server's time begins to run.
CloseSession(s) ==
    /\ Alive
    /\ pc[s] = "closing" \/ ("die" \in Env /\ Serving(s))
    /\ pc' = [pc EXCEPT ![s] = "closed"]
    /\ timer' = (timer \/ iSessionCount = 1)
    /\ list' = [list EXCEPT ![s] = {}]
    /\ UNCHANGED <<up, groupData, files, loading, counters, panic>>

\* A client whose server has died closes its handle.
CloseDead(s) ==
    /\ Alive /\ pc[s] = "dead"
    /\ pc' = [pc EXCEPT ![s] = "closed"]
    /\ UNCHANGED <<server, list, loading, counters, panic>>

Validity == IF "invalid" \in Env THEN BOOLEAN ELSE {TRUE}

Init ==
    /\ up = FALSE
    /\ groupData = <<>>
    /\ files = [g \in Ids |-> <<>>]
    /\ timer = FALSE
    /\ list = [s \in Sessions |-> {}]
    /\ pc = [s \in Sessions |-> "closed"]
    /\ loading = [s \in Sessions |-> <<>>]
    /\ clock = 0 /\ stored = 0 /\ opened = 0 /\ crashes = 0
    /\ panic = {}

Next ==
    \/ \E s \in Sessions :
          \/ Connect(s) \/ StartCookieServer(s) \/ DoNewSessionL(s)
          \/ \E k \in Keys : \E life \in Lives[k], valid \in Validity : DoStoreCookieL(s, k, life, valid)
          \/ \E uri \in Uris : DoGetCookieSize(s, uri)
          \/ DoGetCookies(s) \/ GetCookiesLeaves(s)
          \/ DoClearAllCookies(s) \/ DoDestroyCookies(s)
          \/ CloseSession(s) \/ CloseDead(s)
    \/ TimerFires \/ Crash \/ Tick

Spec == Init /\ [][Next]_vars

\* A server process that has been started goes on, and a timer set for a minute fires.
Fairness ==
    /\ \A s \in Sessions : WF_vars(StartCookieServer(s))
    /\ WF_vars(TimerFires)

FairSpec == Spec /\ Fairness
-----------------------------------------------------------------------------
\* Properties

Life == [kind : {"transient", "expires", "maxAge", "discard"}, time : 0..MaxTime]
Cookie == [key : Keys, val : 1..MaxStores, life : Life, received : 0..MaxTime, set : 0..MaxTime]

TypeOK ==
    /\ {up, timer} \subseteq BOOLEAN
    /\ \A i \in DOMAIN groupData : groupData[i].group \in Ids
    /\ Held \subseteq Cookie
    /\ \A g \in Ids : Range(files[g]) \subseteq Cookie
    /\ \A s \in Sessions : list[s] \subseteq Cookie
    /\ pc \in [Sessions -> {"closed", "starting", "started", "open", "sized", "closing", "dead"}]
    /\ clock \in 0..MaxTime
    /\ panic \subseteq {"ECookieBrokenGetRequest", "FreedCookie"}

\* The list of pointers a session keeps between its client's two calls is read only
\* while it is not empty and every cookie in it exists: neither a store that makes
\* room, a look-up that drops expired cookies nor a group put away frees one of them
\* first, and an answer given up does not come back with a later one.
NoPanic == TypeOK /\ panic = {}

\* What the clients see of a cookie.
Seen(cookies) == [i \in DOMAIN cookies |->
    [key |-> cookies[i].key, val |-> cookies[i].val, life |-> cookies[i].life, set |-> cookies[i].set]]

InMemory(g) == groupData[FindIndex(groupData, g)].cookies

Promise == INSTANCE CookieJar WITH
    Groups <- Ids,
    Values <- 1..MaxStores,
    Lives <- Life,
    jar <- [g \in Ids |-> Seen(IF Found(groupData, g) = {} THEN files[g] ELSE InMemory(g))],
    saved <- [g \in Ids |-> Seen(files[g])]

\* Arrays, files, server processes coming and going implement a jar for each group:
\* a cookie set is found until it is replaced, expires, is cleared or must make room;
\* a cookie to be kept survives the session, the server and its restart; one that is
\* not ends with the group's use; and a crash loses what was not saved and no more.
Jars == Promise!Spec

\* When the last session has gone the server ends, unless another one comes.
ServerEnds == (up /\ iSessionCount = 0) ~> (~up \/ iSessionCount > 0)
=============================================================================
