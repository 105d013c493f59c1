# Verification of the Symbian network protocols (netprotocols)

This directory holds TLA+ modules that model the core of `oss.FCL.sf.mw.netprotocols`
(the HTTP stack, its filters and transports, WSP, FTP, Telnet, cookies and bookmarks),
TLC configurations that model-check them, and proofs that TLAPS checks. Paths below are
relative to the repository's root, with these abbreviations:

| short | directory |
|---|---|
| `core/` | `applayerprotocols/httptransportfw/core/` |
| `client/` | `applayerpluginsandutils/httpprotocolplugins/httpclient/` |
| `filters/` | `applayerpluginsandutils/httpprotocolplugins/filters/` |
| `message/` | `applayerprotocols/httptransportfw/httpmessage/` |
| `transport/` | `applayerpluginsandutils/httptransportplugins/httptransporthandler/` |
| `wsp/` | `applayerpluginsandutils/httpprotocolplugins/WspProtocolHandler/` |
| `ftp/` | `applayerprotocols/ftpengine/` |
| `telnet/` | `applayerprotocols/telnetengine/` |
| `cookie/` | `httpfilters/cookie/` |
| `bookmarks/` | `applayerpluginsandutils/bookmarksupport/` |

## 1. The system

Most of it runs in the client's thread, as active objects of one scheduler. There is
no preemption; what makes the code hard is the order of active object events, callbacks
that call back, nested schedulers, and a connection that may go away between any two
events. Cookies are kept by a server process of their own, and bookmarks are shared by
processes through the central repository.

    client
       | events, up and down the chain of filters     RHTTPTransaction, MHTTPFilter
    CTransaction, CHTTPSession                         core/
       | validation, cookies, authentication, redirection   filters/, cookie/
       | ESubmit, ECancel, EClosed / EGotResponse..., ESucceeded, Fail
    CProtocolHandler -> CHttpClientHandler | CWspCOProtocolHandler    core/, client/, wsp/
       | SubmitL, CancelSubmission / SetStatus             | primitives of a WSP session
    CHttpConnectionManager               client/           (external provider)
       | StartRequest, ResponseDataReceived / SendRequestData, ResponseDataParsed ...
    composer and parser per transaction  client/, message/
    CSocketWriter, Reader, Connector     transport/

The FTP and Telnet engines stand beside that, each over its own sockets.

### Components

| component | state | operations | what makes it correct |
|---|---|---|---|
| `CHttpConnectionManager` | `iState`, `iFlags`, current and pending requests and responses, excess data, streams | submit, cancel, connect, upgrade, send, receive, complete, lose | each answer goes to its transaction; nobody is forgotten; the queues advance together; state and sockets agree |
| composer, parser (`CHttpRequestComposer`, `CHttpResponseParser`, `CHttpMessage*`) | their states, the data packet they hold | start, send, release, cancel; feed, parse, complete, fail | driven only in the states they assert; the received buffer is given back once |
| `CHttpClientHandler`, `CProtocolHandler` | queue of transactions, connection managers, retries, hosts that failed to pipeline | submit, scan, select a manager, retry, cancel, close, complete | one manager per active transaction; the right connection; everybody is served |
| `CTransaction`, `CHTTPSession` | event queue, the synchronous event, `iStatus`, `iNextFilter`, `iBlockingState` | send, cancel, close, fail, RunL, RunError, block, unblock | each event goes through its filters once and in order; one transaction runs at a time; a closed one goes away, and not too early |
| socket transport | connectors, controllers, readers, writers, resolver cache, timers | connect, send, receive, read in place, close, upgrade | one write and one read at a time; the two streams live and die together; nobody waits for ever |
| filters: validation, authentication, redirection | per transaction properties, credentials of the session | validate, redirect, challenge, ask, resubmit | one end per submission; loops end; right credentials are kept |
| WSP handler | session, methods, request and response data, proxy | connect, suspend, resume, disconnect, invoke, abort | what is sent keeps to what was negotiated; methods and session end |
| FTP engine | session, protocol, control and data connection, local file | connect, operations, cancel | answers match commands; files are whole; each operation ends with a report |
| Telnet engine | resolver, buffers, options | connect, write, control codes, configuration, disconnect | both ends agree on the options; data arrive once; a session ends |
| cookie manager and server | groups of cookies in memory and in files, sessions, closing timer | store, look up, clear, open, close | a group is one jar whoever uses it; its file follows it; the server ends |
| bookmark database | a tree in each process, the repository | load, change, delete, commit, watch | a tree always, and what is stored can be loaded; nobody works on a stale tree |
| batcher, optimiser, CONNECT filter, deflate, connection handler, header codecs, URI permission, WAP push, download service, examples | see `PROJECT.json` | | |

`PROJECT.json` lists each component with its sources and what is modelled of it, and the
hazards, each at its line, with the properties that would catch it.

### Hard behaviours

Two queues that must advance together (requests, responses); cancels at every stage; a
connection that closes with or without announcement while requests are held back, being
sent or being answered; reconnection inside an error handler; a read in place that runs
a nested scheduler in the middle of a cancel; synchronous events inside asynchronous ones;
a filter that leaves, cancels, closes or waits for the user; answers that overtake the
confirmation of their commands, or the data they speak of; option negotiations that
cross; unsigned counters of what an SDU has left; a server process that dies, or is
started twice; a commit of several transactions that is interrupted.

## 2. Modules

| module | models |
|---|---|
| `HttpSubmissions` | what a connection promises about its transactions (abstract) |
| `HttpConnectionManager`, `...MC` | the connection manager with composers, parsers, streams and server |
| `HttpSubmissionsProofs`, `HttpConnectionManagerProofs`, `HttpConnectionManagerOrderProofs` | theorems about them |
| `HttpTransaction`, `...MC` | the events of a session's transactions in the chain of filters |
| `HttpTransactionProofs`, `HttpTransactionOrderProofs` | theorems about it |
| `HttpStreams` | what the socket transport promises to a manager (abstract) |
| `HttpTransport`, `...MC` | connectors, controllers, readers and writers |
| `HttpTransportProofs` | theorems about it, and that it implements `HttpStreams` |
| `HttpProtocolHandler`, `...MC` | the queue of transactions and the choice among several managers |
| `HttpProtocolHandlerProofs` | theorems about it |
| `HttpFilters`, `...MC` | validation, authentication and redirection |
| `HttpFiltersProofs` | theorems about them |
| `WspSession`, `...MC` | the WSP session and its methods |
| `FtpSession` | the FTP engine with a server |
| `TelnetOption` | the state machine of one Telnet option |
| `TelnetSession`, `...MC` | the Telnet engine with a server; extends `TelnetOption` |
| `CookieJar` | what the cookie server promises (abstract) |
| `CookieServer`, `...MC` | the cookie server, its processes and its clients |
| `BookmarkDb`, `...MC` | bookmark trees of several processes and their repository |

The modules have a form in common. A call that the code makes synchronously is an
operator from world to world (a record of variables), so that one action is one event of
an active object, or one call of a client, with every nested call it makes. Debug
assertions of the source, second activations of an active object and uses of what is
gone are collected in `panic`, after which nothing happens (`Alive`). Data are abstract: a
body is its parts, a packet its number, an answer its first digit and its command. `Env`
is the set of liberties of client, server and network; it exists because some
combinations are known to break the code (section 5), and a run names those it takes.

How they compose. `HttpConnectionManager` assumes of the transport what `HttpStreams` says,
and `HttpTransport` is checked, and proved, to implement it. `HttpProtocolHandler` has of a manager its
status and queues, which `HttpConnectionManager` has in full; both implement the same
order of submissions (`HttpSubmissions` is checked and proved for the latter). `HttpFilters` and
`HttpProtocolHandler` take from `HttpTransaction` that an event goes through its filters in
order, one transaction at a time.

### HttpConnectionManager, HttpSubmissions

`cm` holds the members of the manager, `tx[t]` the composer, the parser and the outcome of
a transaction, `sock` the streams and the server behind them. A request pointer and a
response pointer of the source are both the transaction here.

| action | code |
|---|---|
| `Submit(t)` | `CHttpClientHandler::ServiceL`, `SelectConnectionManagerL`, `SubmitL` |
| `Cancel(t)` | `CancelTransactionHook`, `CancelSubmission` |
| `ConnectionMade`, `ConnectFails`, `SecureClientCnf` | the socket connector's and the TLS callbacks |
| `ComposerRun(t)`, `NotifyNewRequestBodyPart(t)` | `CHttpMessageComposer::RunL`, `MessageInfoAvailable` |
| `SendDataCnf` | `SendDataCnf`, `ReleaseMessageData` |
| `ServerReply`, `ServerCloses` | external: the server answers in the order of requests; the end of the stream |
| `ReceivedDataIndL` | `ReceivedDataIndL` |
| `ParserRun(t)`, `ParserFails(t)` | `CHttpMessageParser::RunL`, `HandleParserError` |
| `ReleaseData(t)` | `CHttpResponseParser::ReleaseData` |
| `StreamFails` | `InputStreamCloseInd`, `OutputStreamCloseInd`, `HandleSocketError` |

A reply is one piece ("head") or two ("head", "tail"): its body is absent, of known length
or delimited by the close. Request bodies have two parts. Composers and parsers run at
`EPriorityStandard + 1`, so that socket callbacks and the protocol handler wait until none of
them is ready (`Quiet`). Writes are confirmed before their answers are read
(`CSocketController::ConstructL` adds the writer to the scheduler first).

In `HttpSubmissions` the variables are a status per transaction and one line of those that
wait for an answer. A transaction joins at the end; the first one is answered; places are
lost from the end forward, and whoever loses one is told so in that very step.
`HttpConnectionManager!Submissions` is this specification with `line` mapped to
`iCurrentResponse` and `iPendingResponses`.

### HttpTransaction

`tr[t]` holds the members of a `CTransaction`: `iStatus`, the event queue, the synchronous
event and `iProcessingSyncEvent`, `iNextFilter`, the two current filters. `stack` holds the
calls that are inside a filter or between two filters of a synchronous event, because a
filter's code may call back into its own or another transaction, or run a nested active
scheduler. What runs between two visits of filters is one action.

| action | code |
|---|---|
| `RunL(t)` | `CTransaction::RunL` up to `MHFRunL`, or blocking |
| `FilterReturns`, `FilterLeaves`, `ErrorReturns` | the rest of `RunL`; `RunError` before and after `MHFRunError` |
| `NextSyncFilter`, `SyncFilterReturns` | the loop of `SynchronousSendEvent`, its end and what `CancelTransaction`, `Close` or `Fail` do next |
| `ClientSubmits`, `FilterSends`, `HandlerSends` | `SendEvent` |
| `Cancel`, `Close`, `Fail`, `CipherSuite` | the methods of `RHTTPTransaction` |
| `StartScheduler`, `StopScheduler` | external: a filter's nested `CActiveScheduler` |

Of the protocol handler only one bit is kept, whether it has the transaction: from
ESubmit to ECancel or EClosed. The history `seen` of an event records the filters
it was offered to.

### HttpTransport, HttpStreams

`link[i]` is one attempt to connect and what becomes of it: connector, controller, reader,
writer and the peer; `mgr[m]` is a connection manager as far as it uses the streams. All
managers are for one host, which is where they share resolvers and addresses.

| action | code |
|---|---|
| `Connect`, `StopConnect` | `CTcpTransportLayer::ConnectL`, `CSocketConnector::ConnectL`, `StopConnect` |
| `RunConnector` | `CSocketConnector::RunL`, `RunError`: DNS, connection, `ConnectionMadeL` |
| `SendDataReq`, `RunWriter` | `CSocketWriter::SendDataReqL`, `RunL`, handshakes included |
| `RunReader`, `GiveBack` | `CSocketReader::RunL`, `ReceivedDataRes` |
| `CompleteResponse`, `ImmediateReadReturns` | `DoResponseCompletion` and `CSocketReader::ImmediateRead` before and after its wait |
| `Close`, `TimeOut` | `CSocketReader::Close`, the timers of reader and writer |
| `SendCompletes`, `RecvCompletes`, `Answer`, `HangUp` | external: the socket server and the HTTP server |

Writer runs before reader, timers and the nested waiter after both, as their constructors
add them to the scheduler (`WriterFirst`).

### HttpProtocolHandler

`queue`, `active` are the members of `CProtocolHandler`, `trans[t]` those of a
`CHttpClientTransaction`, `conn[m]` what the handler and other transactions can tell of a
manager, `fallback` the hosts that failed to pipeline, `events[t]` the queue of the transaction.

| action | code |
|---|---|
| `RunL` | the scan of `CProtocolHandler::RunL` with `ServiceL`, `SelectConnectionManagerL`, `SubmitL`, `RunError` |
| `TransactionRuns(t)` | the next event: `MHFRunL` of the handler, `CHttpClientFilter::MHFRunL` (retries), the client |
| `ConnectionRuns(m)` | connected, upgraded, request written, answered, lost, failed |
| `ClientSubmits`, `ClientCancels`, `ClientCloses` | `RHTTPTransaction` |

Left out beyond what section 6 says of the managers: clients that ask for a notification
of the disconnection, bodies ended by the close, tunnels, the mapping of SSL alerts.

### HttpFilters

`tr[t]` is a transaction: request, properties of the filters, queue of events with the
position each goes to next, response; `iCredentials` and `iNextID` are the session's; `asking`
is the transaction in `GetCredentialsL`, during whose nested scheduler the session blocks the
others' RunL while network and client go on. A response is a code and a location.

| action | code |
|---|---|
| `Validation(t)` | `CValidationFilter::MHFRunL`: bad requests are cancelled and failed, the end is told |
| `Redirection(t)` | `CRedirectFilter::MHFRunL`, `HandleRedirectL`, `HandleUseProxyL` |
| `Authentication(t)` | `CAuthenticationFilter::SubmitL`; `HandleTransactionL` up to the question |
| `UserAnswers`, `UserRefuses`, `UserFails` | `HandleTransactionL` after it; `MHFRunError` |
| `Submitted`, `ClientRuns` | the ends of the chain |
| `Answer`, `Complete`, `Breaks` | external: server, connection |
| `ClientSubmits`, `ClientConfirms`, `ClientCancels`, `ClientCloses` | `RHTTPTransaction` |

### WspSession

`session` is `CWspCOProtocolHandler`, `trans[t]` a `CWspCOTransaction` with its `CWspCOTxData` and
`CWspCORxData`, `queue` the protocol handler's, `gw` the provider (the stack behind the `wspinc`
interfaces) with its gateway. Lengths are numbers, kept modulo 2^32 where the code
subtracts unsigned integers (`U`).

| action | code |
|---|---|
| `HandlerRuns` | `CProtocolHandler::RunL` with `ServiceL`, `InitRequestL`, `SetRequestDataL` |
| `SessionSends`, `TransactionSends` (`Runs`) | `CWspPrimitiveSender::RunL` |
| `TimesOut` | `HandleConnectionTimedOut` |
| `ConnectCnf`, `ResumeCnf`, `Drops`, `DropsIntoSuspended`, `Redirects` | the provider's indications, `DisconnectInd`, `SuspendInd` |
| `Confirms`, `Results`, `AbortsMethod`, `ConfirmsAbort` | `MethodInvoke(Data)Cnf`, `MethodResult(Data)Ind`, `MethodAbortInd` |
| `Connect`, `Disconnect`, `NewProxy` | session events, `MHFSessionRunL`, `UpdateProxyInfoL` |
| `Submit`, `Resubmit`, `Cancel`, `Close`, `Supplies`, `Reads` | transaction events; the data suppliers of both sides |

A session's sender runs before those of the transactions, the handler last; provider,
timer and client come at any time.

### FtpSession

`sess` is `CFTPSessionDerived`, `prot` `CFtpProtocolDerived`, `pi` and `dtp` the two channels,
`posted` what is in `CFTPSetError`, `local` the file, `server` the FTP server and what is on
the connections.

| action | code |
|---|---|
| `Start`: `StartConnect`, `StartSimple`, `StartRename`, `StartRetrieve`, `StartStore`, `StartList`, `StartClose` | the calls of `CFTPSession` |
| `Cancel`, `ListMore` | `Cancel`; the next part of a list |
| `Engine`: `ResolverRunL`, `PIConnects`, `PISends`, `PIReceives`, `PIReset`, `DTPConnects`, `DTPReceives`, `DTPEnds`, `DTPSends`, `DTPShutsDown`, `DTPIsReset`, `SetErrorRunL` | the RunL of each active object with the notifications it makes: `PIChannel...Notification`, `UpdateState`, `NormalTransition`, `ErrorTransition`, `ServerXFerNotification` |
| `Server`, `LinkReset` | external: RFC 959 |

### TelnetSession, TelnetOption

`TelnetOption` is the table of `TOptionFSM`. `res` is `CTelnetResolver`, `io` `CIOBufferControl`,
`proto` `CProto` with an option machine for each option, `server` a server after RFC 1143.

| action | code |
|---|---|
| `Client`: `Connect`, `Disconnect`, `Write`, `InterruptProcess`, `ControlCode`, `SetConfig`, `DoForceLogout` | `CTelnetSession`'s functions |
| `Resolver` | `CTelnetResolver::RunL`, `Event` |
| `Socket`: `Writes`, `WriteFails`, `ReaderSelects`, `Reads`, `ReadsEof` | `CActiveWriter`, `CActiveReader`, `ReadComplete`, `ProtoRead` byte by byte |
| `Read` | the client reads on |
| `Server` | external |

The resolver runs first, then the writer, then the reader.

### CookieServer, CookieJar

`groupData` is the server's array, `files` what is on disk, `list[s]` the pointers a session
keeps between `EGetCookieSize` and `EGetCookies`, `pc[s]` where its client is. `loading[s]` is
what the process that a client has started reads before it finds a server running.

| action | code |
|---|---|
| `Connect`, `StartCookieServer`, `DoNewSessionL` | `RCookieManager::Connect`, `StartCookieServer`, `CCookieManagerServer` |
| `DoStoreCookieL`, `DoGetCookieSize`, `DoGetCookies`, `DoClearAllCookies`, `DoDestroyCookies` | `CCookieManagerSession::ServiceL` |
| `GetCookiesLeaves` | the client's `GetCookiesL` leaves between its two calls |
| `CloseSession`, `CloseDead`, `TimerFires` | the end of a session; the closing timer |
| `Crash`, `Tick` | external |

`CookieJar` promises each group one jar, oldest place first, in which a cookie set again
replaces the old one, room is made from the old end, what is looked up is there and not
before its age gone, and a file that holds the persistent cookies of the last time the
group was put away. `CookieServer!Jars` is this specification, with the jar mapped to the
group's array in memory or, when it is not loaded, to its file.

### BookmarkDb

`repo`, `next`, `ready`, `homeKey` are the central repository, `mem[p]` the `CBookmarkDb` of a
process, `pc[p]` where it is in a call that goes to the repository more than once, `watch[p]`
its watchers. Actions: `OpenL`, `Close`, `Crash`, `OpenRootL`, `RefreshL`, `WatcherRunL`,
`CreateDefaultRepositoriesL`, `CommitL` and its steps (`Goes`: one transaction for each item,
`SaveHome`, `NextIndexL`, `InitialiseRepL`), `Change` (create, title, append, insert, move, private,
public, read-only, home, delete). A session starts from what earlier ones have stored
(`Sessions`).

## 3. Runs

All bounds are in the configurations. Where `CHECK_DEADLOCK` is off, the bounded work can
be done and nothing is left to do.

| run | asks | instance | states |
|---|---|---|---|
| `pipelined` | `TypeOK`, `ResponseMatch`, `NoOrphan`, `InStep`, `Submissions`, `Served` | three pipelined transactions, one host; closes, bodies without length, hang-ups, cancels of what is held back, failing connects, malformed answers | 51,890 |
| `mixed` | `NoPanic`, `OfferedRightly`, `SocketAgrees` | three transactions, pipelinable and not, http and https, a request body, a redirected one, one that asks for ENotifyOnDisconnect, submitted twice; losses and cancels of the current and of the unread | 76,145 |
| `transaction_events` | `InOrder`, `Awake`, `Lifetimes`, `Complete`, `Delivered` | two transactions, four filters, three events, calls nested three deep; cancels, closes, failures, leaving filters, a nested scheduler | |
| `transport_streams` | `StoreExact`, `KeepsStreams`, `Answered` | two managers, one of them over TLS, two connections, two requests; resolvers not ready, timers, reads in place | |
| `handler_queue` | `OneManager`, `RightConnection`, `Served` | three transactions to two places, one secure with a body, two managers, two pipelined, one retry, three submissions | |
| `http_filters` | `OneEnd`, `Confirmed`, `Forgotten`, `Ends` | a POST with a wrong password in its URI and a GET, to a page in a realm that redirects to itself and to an open page of another host; one redirection, two answers of the user | 347,827 |
| `wsp_session` | `Contract`, `WholeTransfer`, `Awake`, `Answered` | a GET and a POST of parts and a trailer, one and two SDUs back, two capabilities, two proxies, four calls | 163,713 |
| `ftp_session` | `ReplyMatch`, `FilesWhole`, `Answered` | three operations of six, files of three packets; refusals, resets, no host, no data connection | 469,562 |
| `telnet_session` | `Agreement`, `ArrivesOnce`, `Ends` | eight options of which three are contested, a window, an echo and a logout change, two control codes, three acts | 385,299 |
| `cookie_jars` | `NoPanic`, `Jars`, `ServerEnds` | two clients, three groups of which one is shared, two keys of different sizes, three stores, two ticks, a crash of the server, clients that die or give up | 249,319 |
| `bookmark_db` | `IsTree`, `Loads`, `Current` | two processes with different views, five sessions of calls, two folders and two bookmarks, two changes, a crash | 312,144 |
| `lost_unread` | `DataParsedOnlyConnected`, violated | section 5 | |

What the properties say stands before each in its module. `TypeOK` is part of one safety
property of each module: `Lifetimes` and `StoreExact` (through `NoPanic`), `RightConnection`,
`OneEnd`, `Contract`, `ReplyMatch`, `Agreement`, `IsTree`, and `NoPanic` of the cookies.

Why these bounds are enough to be interesting. Three pipelined transactions are the
current one, one that is held back behind it, and one behind that. One retry
(`KMaxRetryCount`) distinguishes "told to submit again" from "told the error". Two
transactions of a session are one that runs and one that comes out of its nested
scheduler; a chain of four has the client, the protocol handler and two filters registered
for different events; three calls deep is a nested scheduler, a failure in it, and a close
in the callback of that. Two managers and two connections meet in the resolver cache. Two
managers and three transactions have one that must wait for a manager of another place.
One redirection and a second one that is refused; two answers, so that a wrong password
may be followed by a right one or by another wrong one. Three packets have a first, a
middle and a last; three operations are the connect, a transfer and what comes after it.
Two sizes of cookies and three stores make one eviction that moves the place of another.
Two folders and two bookmarks are enough for a folder in a folder, and for a commit
interrupted between the two.

Larger instances were checked once: four symmetric pipelined transactions (76,636
states); the handler at its limit of pipelined transactions; Telnet with
more acts (10.4 million); WSP with other requests (851,321 and 101,493); cookies in two
and three stores (455 and 553 thousand); bookmarks with a private reader (131,351), with a
manager (312,144) and with two creators (89,364); the filters with two submissions of each
transaction (1,589,923), with 404 (409,927), with three pages of a realm (46,432), with digests
(190,143).

### Fairness

`HttpConnectionManager!FairSpec`: weak fairness of each active object's event (the
scheduler runs what is ready, and nothing but its own run takes it out of the
queue), of the server's answers and of the closes it has announced, of the client
reading bodies and supplying its own, and of the protocol handler's servicing of
a submitted transaction. Losses, cancels and parser failures have none.

`HttpTransaction!FairSpec`: as long as a RunL is ready or a filter is about to return, such a
step is taken again and again; from some time on nobody calls or starts a nested scheduler
any more (clients and filters make finitely many calls), and a filter that started
one stops it. Nothing forces a filter to leave, or anybody to send.

`HttpTransport` and `HttpProtocolHandler` have a condition for each active object: again and
again it is not ready, or it runs. The network completes what it was asked for, the
managers give back what they hold and close what has timed out.

`FtpSession`, `TelnetSession`, `WspSession` and `HttpFilters` have one condition for all:
`[]<>~Pending \/ []<><<Progress>>_vars`. What is pending is what the scheduler, the socket
server or the other side owes; progress is any step but a new call of the client (or a loss). So the
scheduler runs completed requests, servers and providers answer or end the
connection, a timer ends a connect nobody answers, the client asks for the rest of a list, keeps
a read outstanding and supplies the parts of its body, and the user does not sit before a question for
ever. That is enough because the client's calls are bounded.

`CookieServer!FairSpec`: a server process that was started goes on, and the closing timer
fires. `BookmarkDb` has safety properties only.

These formulas give each action's guard instead of `ENABLED`, which TLC would compute.

## 4. Proofs

What TLAPS checks, for every value of the constants: any number of transactions, managers,
filters, connections and realms, every limit, every chain of filters.

| theorem | says | of `Env` it assumes |
|---|---|---|
| `HttpConnectionManagerProofs!TypeCorrect` | `Spec => []TypeOK` | nothing |
| `HttpConnectionManagerProofs!ConnectionAgrees` | `Spec => []SocketAgrees` | nothing |
| `HttpConnectionManagerOrderProofs!NeverPanics` | `Spec => []NoPanic` | `Calm` |
| `HttpConnectionManagerOrderProofs!AnswersMatch` | `Spec => []ResponseMatch` | `Calm` |
| `HttpConnectionManagerOrderProofs!NobodyForgotten` | `Spec => []NoOrphan` | `Calm` |
| `HttpConnectionManagerOrderProofs!StaysInStep` | `Spec => []InStep` | `Calm` |
| `HttpConnectionManagerOrderProofs!ImplementsSubmissions` | `Spec => Submissions`: it implements `HttpSubmissions` | `Calm` |
| `HttpSubmissionsProofs!LineInvariant` | `TypeOK`, `Waiting` and `NoTwice` hold always in `HttpSubmissions` | |
| `HttpSubmissionsProofs!NoOvertaking` | `OnlyFirstCompletes` | |
| `HttpTransactionProofs!TransactionsWake` | `Spec => []Awake` | `Careful` |
| `HttpTransactionProofs!TransactionsLive` | `Spec => []Lifetimes` | `Careful` |
| `HttpTransactionOrderProofs!TransactionsInOrder` | `Spec => []InOrder` | `Tidy` |
| `HttpTransactionOrderProofs!TransactionsComplete` | `Spec => Complete` | `Tidy` |
| `HttpProtocolHandlerProofs!OneManagerHas` | `Spec => []OneManager` | nothing |
| `HttpProtocolHandlerProofs!RightlyConnected` | `Spec => []RightConnection` | nothing |
| `HttpTransportProofs!TransportAgrees` | `Spec => []StoreExact` | `Careful` |
| `HttpTransportProofs!TransportImplements` | `Spec => KeepsStreams`: it implements `HttpStreams` | `Careful` |
| `HttpFiltersProofs!EndsOnce` | `Spec => []OneEnd` | `Env = {}` |
| `HttpFiltersProofs!AsksFirst` | `Spec => []Confirmed` | `Env = {}` |
| `HttpFiltersProofs!ForgetsTheWrongOnes` | `Spec => Forgotten` | `Env = {}`, `OneBasicRealm` |

Each module's `ConstantsAssumption` says what its constants are (finitely many
transactions, bounds that are numbers, a chain that ends at client and protocol handler,
`None` different from what it stands beside), and TLC evaluates it in every run of that
module. The last column holds what the theorems assume beyond it. These are not
conveniences: but for two liberties that `Calm` excludes (below), each excluded one breaks one of these
properties, as section 5 describes, and TLC shows the counterexample when it is added to a configuration.
`HttpTransaction`'s `Careful` excludes `closeFailed` and `cipher`, `Tidy` `regret` as well, `HttpTransport`'s
`Careful` `immediateReady` and `nestedLoss`. `HttpFilters` has only the two liberties `cancelAsking` and `hasty`.
`OneBasicRealm` says that a host's pages are of one realm and are protected with basic
credentials; with two realms of a host, or a digest, `Forgotten` fails.

**The connection manager.** The inductive invariant is `Good(world)`: the world is of type
`World`, and until an assertion of the source has failed, streams exist exactly in
the connected states and a connector exactly in `EConnecting`. The two
halves are proved together: the agreement needs the types, and what the state says of
the sockets holds only while the code's assertions do, hence the condition.
The proof follows the code, one lemma per call. Most calls leave the state, the
connector and the openness of the streams alone (`Keeps`), and two of those compose
(`KeepsBoth`); the few that change them (`SetIdleState`, `CloseConnection`,
`ReconnectSocketL`, `UpgradeConnectionL`, `HandleSocketError`, `NextOnConnection`)
have a lemma that takes a good world to a good one, some under the condition on the
state that their callers establish. A step lemma per action puts them together, and
`NextGood` the actions.

`NoPanic`, `ResponseMatch`, `NoOrphan` and `InStep` fail together, so they have one inductive invariant,
`Ordered`, and none of them is inductive alone: that a parser reads its own answer follows from the
order of everything between the request queue and the parser. A world that is `Ordered` is
`Good`, `Sound` (nothing has failed, no response has a body that only the close delimits) and of one of
three shapes (`Fit`): `Rest`, with no transaction and nothing on its way; `Make`, a connection that is being made
for a first transaction while others are held back behind it; and `Run`, the connection in use. `Run` has eight parts.
`Answers` is the heart: the heads of the answers in the buffer and on the network, then the
requests at the server, the one whose composer starts, and those held back are, in this order, the transactions that wait.
`Queues` and `Mode` say how the two queues and the two current transactions go together while
the first request of a connection is sent, while a write is pending and later; `Composers` and
`Wire` which composer may be at work and what the server has of its request; `Parsers` and `Pieces` the same of parsers
and of the parts of an answer; `Token` who has the received buffer: the input stream, the parser at
work, or the client that has not read its last part (`h`, the holder). The last one is the difficult
case: the response is complete and the next one is current already, but its data waits until the
client has read. In `Loose` the holder's own parser is left open, because one step goes
through worlds in which it is between its states. The lemmas take the manager, the transactions
and the socket as parameters and not the variables, because an action goes through several worlds: a lemma
whose name ends in `Is` says what a call changes, one that ends in `Order` is about an action.

That the manager implements `HttpSubmissions` rests on `Ordered`. The steps of the abstract
specification are restated as relations between two assignments of outcomes and two lines (`Moved`), so that
a step of the manager, which goes through several worlds, can be compared with them at its ends only (`PromiseMoves`).
Most calls neither move the line (`iCurrentResponse` before `iPendingResponses`, `LineOf`) nor decide an
outcome (`Stays`, which composes), and the actions that consist of them are stutters. In the others `Ordered` is
needed: a complete answer belongs to the first of the line, since a parser with a complete message is the one of
`iCurrentResponse` (`CompleteMoves`); a client that reads the rest of an answer is not in the line any more
(`LastReadMoves`); a connection that closes, or that is not made, leaves nobody in the line and has told all of
them (`LossAdvances`); who is submitted is not in the line yet and takes the place behind all
of it (`EnqueueLine`), or stays queued with the handler; and who is cancelled is in the line exactly once
(`LineOnce`), so that taking it out leaves the order of the others.

`Calm` admits hang-ups at any time, cancels of what is not sent yet (while connecting, or held back)
and connections that cannot be made. A request that says Connection: close is not pipelined, and only its
answer announces a close. Every liberty besides is known to break one of the four, in instances of three transactions, or of five for
`close` and `malformed`, with two exceptions: `cancelUnread`, and `unknown` in answers to requests that say
Connection: close. TLC finds nothing there with three and four transactions; the invariant does not cover them.

In `HttpSubmissionsProofs` the invariant is the conjunction of the three named parts:
`NoTwice` needs `Waiting` (who is submitted is not active, so not in the line), and
both need the types. `NoOvertaking` uses it for one step: no drop completes anybody.

**Transactions.** `Awake` and `Lifetimes` speak of single members of a transaction, but why they
hold lies in the calls that have not returned: a synchronous event puts `EPassive` into
`iStatus`, and whatever its caller had there is a local variable of `SynchronousSendEvent`. So the
inductive invariant (`Good(tr, blocking, stack)`) is about the stack. `Lined` says what
calls can be inside one another: at the bottom the only RunL, on top of it a synchronous event, and on
top of that another one only when the first tells the client of a failure.
The session blocks exactly when a RunL is at the bottom. And each transaction
`Fits` its calls: it is `Resting` when it has none, `InRunL` when the last one is its RunL,
`InSync` when it is a synchronous event; whatever its frames will restore
(`Stored`) fits what is below them. The proof computes every
action as a new world `W(T, b, s, n)`, shows what is below the top untouched
(`Pop`, `Turned`), and has a lemma for each kind of step: a frame is pushed, popped, turned, replaced
by the next synchronous event of the same operation, or the rest of RunL runs.

`InOrder` is not inductive: it says of a queue where its events have been, not where the transaction will
send them next. `Orderly`, beside `Good`, ties the two together. An event is `InLine` when it has been to all
of its path but what lies `Onward` from its last filter (`Rest`). By `Queued` the head of the
queue is in line, the others have been nowhere, and `iStatus` and the next filter agree with the head's `Rest`: in
`EFilter` and `EBlocked` the next filter is the first one onward, in a filter it is the last one visited,
and in any other state the head has been nowhere. `Sent` says the like of a synchronous event. `Regretless` is
what `regret` breaks: while a filter that left is in its RunError, a cancelled transaction
has no event. `Complete` is about steps, so each action's lemma shows two things at once (`Moves`): `Orderly` holds after
it, and what the queue loses has been to its whole path.

**Transport.** The invariant `Good` ties the store, the managers' references to their streams,
the connectors and the resolver handles to the state of each connection: `Linked` for one attempt
to connect, `Managed` for one manager, `Resolvers` for the cache. That a resolver handle is always free
for a new connector needs a count: there are no more handles than attempts
(`Cardinality(handles) <= Cardinality(Opened)`). The first lemmas of `HttpTransportProofs` go call by
call (readers, writers, controllers, connectors, cache), the others action by action.
Each says two things at once, so that no action is looked at twice: the new state is good,
and one manager's part of it moves as `HttpStreams` promises while the others' stay (`Kept`). The latter
is the refinement, for which the invariant has the counts of what was taken, got, served and
confirmed: a confirmation precedes its answer.

**Filters.** `OneEnd` needs to know where a transaction's events are: `Places` says
which events are in its queue, with which filter next, in each of the client's states, and
that at most one of them is an end; `Challenges` that a 401 on its way
through the filters answers a request without the right credentials; `Counted` bounds the identities given out, because the type of an
identity is bounded. For `Forgotten` `IInvCredentials` adds that identities are unique (`Numbered`), that a
realm has credentials once (`Once`), and that what a sent transaction's status names is what it carries (`Tried`).

**Protocol handler.** `OneManager` relates three queues of every manager to the transactions' own idea of
their manager, and a single call of the code changes both sides in several steps, so it is
not inductive. The invariant `Good(world)` has four parts. `Shape` is about one manager: no queue has a
transaction twice, what is pending awaits a response, what is written is pending,
and nobody waits for a manager that is idle; `FirstCurrent` says that the first request of a
connection stays at its front until it is answered. `Owned` ties transactions to managers in
both directions. `Created` says that managers are made in their order, without which the number of a new one
would be somebody's already. `Placed` says of `RightConnection` what a manager
must remember for the time its connection is made. The proof follows the calls. `Takes(w, v, m, S, c)`
says that a call makes `c` of manager `m` while the transactions of `S` lose their manager, and
`GoodMoves` that a world stays good over it when `c` has its shape and holds who is left; `Gives` is the
opposite, a transaction that a manager is given. Loops over a queue
(those told of a lost connection, those serviced) are recursive functions in the model, so that
what they do is proved by induction over the natural numbers (`SetInduction`), and not
assumed. TLC checked the invariant on six configurations.

TLC has checked every inductive invariant on small instances.

Only model-checked are `OfferedRightly` of the connection manager and its other properties under
the liberties that `Calm` excludes; that `CookieServer` implements `CookieJar`; and what is said of
WSP, FTP, Telnet, cookies and bookmarks. Liveness
is out of the prover's reach, as is `ENABLED`: `Served`, `Answered`, `Delivered`, `Ends` and `ServerEnds` are checked by
TLC only. There is no recursive operator in a module with theorems or below one; queues
are handled by operators of `SequencesExt` and by recursive functions.

## 5. Where code and documentation disagree

One run shows a violation of what the source says of itself. `lost_unread`:
`CHttpResponseParser::ReleaseData` (client/chttpresponseparser.cpp:143) calls
`ResponseDataParsed` whenever it held the data packet, also when the connection was lost
meanwhile; the assertion client/chttpconnectionmanager.cpp:903 then fails, and a release
build uses a stream that is gone.

What follows was met while modelling. Where a liberty in `Env` is named, adding it to the run's
configuration shows the behaviour as a counterexample of the property in parentheses; no run takes it.
The rest was found by reading the code for its model and is left out of the model.

**Connection manager.**
- `cancelUnread` with `unknown` or pipelining: the cancel of a transaction that is complete but
  unread flushes its body parts and never gives the received buffer back (:442); the
  reader waits for ever, and so does everybody behind.
- `MakeConnectionNonPersistent` (:755) forgets the current request without cancelling its
  composer, which writes later on, in state `EClosing`: the assertion :860 fails.
- `firstUnread`: a transaction is submitted while the first one of a connection is
  complete but unread; there is a current request without a current response, and
  the comment client/chttpconnectionmanager.cpp:137-139 and the assertion :312 say
  there cannot be.
- `cancelSent`: the cancel of a transaction whose request was sent while another
  answer is awaited (:300-304) leaves its answer on the connection.
- `close` with transactions that cannot be pipelined: `SetIdleState` (:850) resets
  `ECannotPipeline` between `DisablePipelining` and the queueing of the transaction
  it was set for (client/chttpclienthandler.cpp:962-964), and the next one is pipelined behind it
  (`OfferedRightly`). Therefore `pipelined` and `mixed` are two runs.
- `early`: an answer before the request is complete (client/chttpclienthandler.cpp:948).
- `close` or `malformed` alone, with five pipelined transactions (`NoPanic`): a late `ReleaseData` feeds an excess
  answer while the composer of a later current request is due, and what ends the connection forgets that
  request without cancelling its composer (:755, :860). With three, as in the runs, it cannot happen.
- `overtake`: an answer read before its request's confirmation leads to failing
  assertions; the code for it (`EDiscardSndDataCnf`) is at odds with the order of
  the transport's active objects, which excludes it.
- `cancelCurrent` with four transactions: the pointer to excess data outlives the buffer.

**Protocol handler.**
- A scan of the queue that leaves is given up, and those behind are not looked at
  (core/CProtocolHandler.cpp:345, 361-382): `Invalid = {T1}` breaks `Served`.
- `CancelTransactionHook` dereferences a null `TxData` when `CreateTxDataL` left after
  `SetConnectionManager`. A completed transaction that is submitted again is silently ignored.
- `iRetryCount` is never reset by a submission. A transaction with "Connection: close" replaces
  `iConnectionInfo` of those pipelined on the manager, whose retry is then denied.
- `CancelSubmission` of a transaction that is written behind another's response leaves
  `iCurrentRequest` NULL with requests pending.

**Transactions.**
- `closeFailed`: `Fail` by the protocol handler runs outside of any RunL
  (core/CTransaction.inl:104); a client that closes in its callback for EFailed leaves the object in
  `EExiting`, and no RunL is there to delete it, contrary to core/CTransaction.h:182-186
  ("until the filter returns from its MHFRunL, at which point the transaction will
  delete itself") (`Lifetimes`).
- `cipher`: `CipherSuite` sends a synchronous event while the event the client is
  handling is in the queue (core/CTransaction.cpp:684). Its end uncovers the queue, and the loop
  delivers the current event once more. core/CTransaction.h:57-59 says
  `SynchronousSendEvent` is "Only callable when there are no outstanding events" and that an
  assertion checks it; there is none (`InOrder`, `Awake`).
- `regret`: a transaction is cancelled in a filter's RunL or RunError and used again
  in RunError; `RunError` goes on with `FindNextFilter` in state `ECancelled`, from
  where the cancelled event was, and the new event is lost (`Complete`).
- Suspension: sending EResume to a suspended transaction activates nobody (`SendEvent` asks
  for `EPassive`), and the session stays blocked for all others
  (core/CTransaction.cpp:131-146), while the test
  `Test/Integration/src/testhttpfiltersuspendstep.cpp` expects it to go on.
- A filter that leaves in a synchronous event: `RunError` searches the next filter,
  and so does the loop after it, so that one is skipped.

**Transport.**
- `immediateReady` (`KeepsStreams`): `Suspend` cancels a read that was completed and not yet
  handled, and its data are lost (transport/csocketreader.cpp:506).
- `nestedLoss` (`StoreExact`): the nested scheduler of `ImmediateRead` may delete the controller
  under it. When the waiter cannot be allocated the reader stays suspended (:508-511).
- A failed DNS query leaks its `RHostResolver`; `DoConnect` that fails with KErrNotReady and is
  tried again puts the resolver into the cache twice; after KErrNotReady of the DNS query the retry
  goes to `DoConnect` without an address (csocketconnector.cpp:426).
- The loop at a change of the connection's handle (ctcptransportlayer.cpp:196) skips every other
  controller and destroys connectors without telling their observers. `ConnectionMadeL` that
  leaves, or closes, leaves dangling streams. `iState != EClosing || iState != EClosed`, which several
  assertions say, is always true.

**Core filters.**
- A redirection that is refused sends an error without a cancel (filters/redirect.cpp:181, 257,
  266): the client gets EFailed twice, while `thttpevent.h` says "The ESucceeded and EFailed events
  are mutually exclusive, but one will always be sent to the client as the final event for a
  transaction." `OneEnd` says so for refused redirections.
- filters/Authentication.cpp:205 says "If the credentials are in the list, and we've already tried
  to authenticate once, then the credentials must be wrong. Delete them and ignore them." They need not be
  (`Forgotten`): with two realms on a host a transaction sends the first credentials of the host
  (`FindCredentialsForURI`), is refused by the other realm, and its status names credentials it did
  not send; a digest is made for one URI, and refused for the page of the same realm that the
  server redirects to.
- `cancelAsking` (`OneEnd`): a transaction the client cancels while `GetCredentialsL` waits is
  submitted again by the filter, which only asks whether it exists (Authentication.cpp:268).
- `hasty` (`OneEnd`): a client that submits again in its EFailed gets the second EFailed of the first.
- The count of redirections is never reset, so a client that uses a transaction again has
  fewer. A 302 turns a HEAD into a GET. A server that alternates two realms makes the filter submit for
  ever.

**WSP.** Each is a liberty of `WspSession`:
- `again` (`Contract`): Connect after a Disconnect that had to wait ends in a session nobody asked
  for. `unresumed` (`Contract`): after a resumed session a new proxy is not taken.
- `resubmit`, `closeAborting`, `completing`, `unsent`, `suspendResuming` (`Contract`, through
  `panic`): assertions that fail when a method is submitted before its cancel has ended, closed while
  it is being aborted, aborted before the last answer, unknown to the gateway when the session
  ends (`KWspPanicMethodsStillOutstanding`), and when a resume is answered by a suspend.
- `renegotiates` (`Awake`): methods over the new limit are forgotten.
- By other instances: a part that exactly fills the message without being the last is never
  confirmed (`Answered`); trailers with an unlimited message and a limited SDU exceed it
  (`Contract`).
- By reading: MethodAbort after DisconnectReq contradicts MWspCOSessionInvoker.h ("The Client will
  not issue any further primitives"); an empty last chunk after data never completes; the test of
  the outstanding requests is `==`; `iConnectTimedOut` survives a disconnect for another reason.

**FTP.** Liberties of `FtpSession`; each breaks `ReplyMatch`, `FilesWhole` or `Answered`:
- `reconnect`: TYPE is not sent again after a second connect (FTPSESS.CPP:389).
- `impatient`: a late second answer after an abort is taken for the next command's, which
  contradicts FTPSESS.H:63.
- `cancelEarly`, `cancelSending`, `cancelUnconnected`, `cancelReplace`: Cancel during TYPE, PORT or
  PASV closes the file that RETR then writes; while a command is written it activates an active object
  twice; while the data connection is not there it hangs or asserts; of a Retrieve that replaces a file it
  leaves `iTempStore` set.
- `dataReset`, `refuseOdd`: a reset data connection, or a refused QUIT, closes the control connection
  and the session believes it is connected; a refused TYPE panics.
- `sendFail`: a command that cannot be written is reported to nobody. `resetPosted`: the reset
  comes before a posted error, which then makes `EIdle` into `EConnected`. `fileError`: a write
  error loses the old file and reports Complete.
- By reading: an aborted transfer is notified by both Cancel and Complete; a welcome of 1xx
  panics a debug build; Store completes after a read error; a PASV answer without parentheses fails an
  assertion; a login that fails leaves `EConnected`; a refused PORT leaves sockets open.

**Telnet.** `crossing`, `again`, `late`, `writeFail`, `hasty` (all `Agreement`, through `panic`): an EOF that
meets Disconnect, Disconnect twice (TELSESS.CPP:152), a call between the end of the connection and
its notice (:171), a failed write, Connect before the cancelled attempt has run. `ipQueued`
(`ArrivesOnce`): the urgent IAC IP overtakes what is queued. `nested` (`Agreement`): a window resized
inside `OptionsChanged` is told before the old one. By reading: the queue that is
tested is the other side's, so that `EOpposite` is never reached (TELFSM.CPP:296, 347, 409, 456); a byte
244 is dropped from data; IAC DM never clears the urgent flag; `WriteComplete` is told for the
protocol's own writes (TELSESS.H:245); `TTelnetConfig` leaves `iServerEcho` uninitialised though its
documentation gives a default.

**Cookies.**
- `full` (`Jars`): a full disk leaves the old file. `crossing` (`Jars`): the second server process
  writes back what it has read. `interleaved` (`NoPanic`): of two processes of a group one frees the
  cookies the other has been told the size of.
- `GetGroupDataIndexL` (CookieGroupDataArray.cpp:211) adds a group's data in two branches that both apply
  when the server has none: the group is there twice, and with groups loaded and unloaded a
  cookie set again may be kept twice.
- The age of a cookie starts again at each reading of its file, so `CookieJar` promises only "not
  before its age". Max-Age without Version becomes a cookie of the session.
- A look-up by a list of ports reads past its end (CookieArray.cpp:640). The client's cache never
  answers (`CopyFromL`). `ClearCookies` clears nothing of a group that is not loaded. Close of one
  session unloads the group of the others, with the cookies of the session. An overwritten cookie is counted
  when room is made for it. A cookie too big is answered with KErrNone.

**Bookmarks.**
- `refile` (`Loads`): folders are moved and committed one by one; a crash between two
  of them, or two processes, leaves a cycle in the repository, on which `LoadTreeL` does not end.
- `again` (`IsTree`): `CommitL` that left half-way leaves NULLs in the deleted list, on which the
  next one crashes.
- A folder created and deleted before the commit makes `CommitL` leave with KErrNotFound. Loading
  does not restore an order that was changed by `Move` (bkmrkfolder.cpp:173). `DeleteItemL` ignores read-only,
  though its documentation says "@return An error if the item to be deleted is read only". `NextIndexL`
  reads and writes outside of a transaction, so two processes get one id, though
  bookmarkdb.cpp says of CommitL "Concurrent accesses are simply queued. Although this should cause no
  problems". A crash inside `CreateDefaultRepositoriesL` leaves the other repositories without first
  entries for ever. `SetLastModifiedL` is lost when a transaction is tried again. Loading a home page
  makes the database dirty, so a commit writes an old one back. In a private view a public folder with
  an own private folder in it is deleted under it.

**Read, not modelled.** The connection handler filter swallows the failure of `CreateConnectionL`
with a cancel, so the client hears nothing; its observer reads the property of the network mode
before the last switch, and goes active without a timer when one bearer of several is suspended. S60's
authentication filter removes credentials that were entered after the refused ones were sent, and
starts the nonce count again with an old nonce.

## 6. Not modelled

- Connection manager: request batching, 100-Continue and other 1xx answers, timers, CONNECT
  tunnels, leaving in `SubmitL` when no connection can be started, cancels out of the
  manager's own callbacks. An answer's body arrives as one chunk.
- Transactions: suspension, session events, filters that are added or removed,
  leaving and nested schedulers inside synchronous events, conditions on headers and
  status codes in a filter's registration (a filter is registered for a set of events).
- Transport: connections given by the client, Shutdown and Restart, change of the
  connection's handle.
- Filters: removal of header fields, encodings, URI resolution.
- WSP: WTLS, pushes, header encoding, the communications database. FTP: Restart, addresses of
  PORT and PASV, progress. Telnet: CR padding, urgent data from the server. Cookies: the client's
  cache, damaged files, parsing. Bookmarks: icons, custom properties, titles.
- Lack of memory everywhere, but where a leave has another cause.
- Header codecs, URI and string utilities, DTD and WBXML parsing, WAP push message formats
  and the download service: they translate bytes to structures without control of their own, or
  drive the parts above. The URI permission services answer queries on a database. The deflate
  filter, the batcher and the connection handler filter are described in `PROJECT.json`.

## 7. Plan

1. Done: the modules of section 2 with their runs; the proofs of section 4.
2. Proofs next: `cancelUnread` of the connection manager; `Agreement` of Telnet, for which `TelnetOption` has a finite table.
3. Models next: the request batcher (a confirmation of one write for several requests), CONNECT tunnels,
   suspension of transactions.
