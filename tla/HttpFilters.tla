----------------------------- MODULE HttpFilters -----------------------------
(***************************************************************************)
(* The protocol filters of the HTTP client: CValidationFilter at the       *)
(* client's end of the chain, CAuthenticationFilter, CRedirectFilter, and  *)
(* the transactions of one session that pass them.                         *)
(*                                                                         *)
(* What HttpTransaction shows of the chain is taken for granted here: the  *)
(* events of a transaction are in a queue, a step offers the first one to  *)
(* the next filter that is interested in it, and no transaction runs while *)
(* another one is in a filter, be it in a nested active scheduler.  Events *)
(* that the client is told of and does nothing about here are left out.    *)
(* The protocol handler is what the filters see of it.                     *)
(***************************************************************************)
EXTENDS Integers, Sequences, SequencesExt, FiniteSets

CONSTANTS
  Tx,             \* the transactions of the session
  Uris, Hosts,    \* what can be asked for, and where
  Host,           \* the host of each URI
  Realms, Realm,  \* the realm of each URI, or None
  Scheme,         \* "EBasic" or "EDigest", the strongest one a realm offers
  Passwords,      \* with their user names
  Right,          \* the password of each realm
  Requests,       \* what the client submits, of each transaction
  Responses,      \* what the server answers: code and location
  None,
  KRedirectLimit, \* or the session's property EMaxRedirect
  MaxSubmits,     \* bound: submissions of each transaction by the client
  MaxAnswers,     \* bound: answers of the user
  Env             \* liberties, see below

(***************************************************************************)
(* Env is the set of liberties of client and server:                       *)
(*  "cancelAsking"  the client cancels a transaction out of the scheduler  *)
(*                  that waits for the user's answer                       *)
(*  "hasty"         it submits a transaction again as soon as it has       *)
(*                  failed, whatever is still to come                      *)
(***************************************************************************)
Liberties == {"cancelAsking", "hasty"}

\* 303 is handled as 302 is, and 307 as 301.
Codes == {200, 404, 301, 302, 305, 401}
Methods == {"EGET", "EHEAD", "EPOST", "EPUT"}
Request == [method : Methods, uri : Uris, body : BOOLEAN, info : Passwords \cup {None}]

ASSUME ConstantsAssumption ==
  /\ IsFiniteSet(Tx) /\ Uris # {}
  /\ Host \in [Uris -> Hosts] /\ Realm \in [Uris -> Realms \cup {None}]
  /\ \A u, v \in Uris : Realm[u] = Realm[v] /\ Realm[u] # None => Host[u] = Host[v]
  /\ Scheme \in [Realms -> {"EBasic", "EDigest"}] /\ Right \in [Realms -> Passwords]
  /\ Requests \in [Tx -> SUBSET Request]
  /\ Responses \subseteq [code : Codes, location : Uris \cup {None}]
  /\ None \notin Passwords \cup Realms \cup Uris \cup Tx
  /\ None \notin Nat /\ None \notin [realm : Realms, password : Passwords, uri : Uris]
  /\ KRedirectLimit \in Nat \ {0} /\ MaxSubmits \in Nat /\ MaxAnswers \in Nat
  /\ Env \subseteq Liberties

VARIABLES
  tr,            \* the transactions: request, properties, events
  iCredentials, iNextID,
  asking,        \* the transaction in GetCredentialsL, or None
  client,        \* what the client knows of each transaction
  answers        \* answers of the user, for the bound

vars == <<tr, iCredentials, iNextID, asking, client, answers>>
w0 == [tr |-> tr, creds |-> iCredentials, next |-> iNextID, client |-> client]

\* Where an event goes next: the positions of the filters in the chain.
Positions == {"EProtocolHandler", "EStatusCodeHandler", "EStatusCodeHandler+1",
              "ETidyUp", "EClient"}
Events == {"ESubmit", "EGotResponseHeaders", "EResponseComplete",
           "ERedirectRequiresConfirmation", "KErr", "ESucceeded", "EFailed"}
Event == [ev : Events, to : Positions]
E(ev, to) == [ev |-> ev, to |-> to]

Ids == 0 .. MaxAnswers + MaxSubmits * Cardinality(Tx)
Credentials == [id : Ids, realm : Realms, password : Passwords]

Transaction ==
  [method : Methods, uri : Uris, body : BOOLEAN, info : Passwords \cup {None},
   user : Passwords \cup {None},                           \* EUsername, EPassword
   status : Ids \cup {None},                               \* EAuthenticationStatus
   count : 0 .. KRedirectLimit,                            \* ERedirectCount
   authorization : [realm : Realms, password : Passwords, uri : Uris] \cup {None},
   queue : Seq(Event),
   reply : {"none", "waiting", "body"},                    \* the protocol handler has it
   code : Codes, location : Uris \cup {None}]              \* the response

\* "idle": not submitted, cancelled, or at its end; "busy": submitted; "confirm":
\* the client has been asked; "closed".  `ends' are the final events since the
\* client submitted it, `refused' that a redirection was; `asked' is where the
\* client wants the request to go.
Knowledge == [life : {"idle", "busy", "confirm", "closed"},
              ends : Seq({"ESucceeded", "EFailed"}), refused : BOOLEAN,
              asked : [method : Methods, uri : Uris], submits : 0 .. MaxSubmits]

TypeOK ==
  /\ tr \in [Tx -> Transaction]
  /\ iCredentials \in Seq(Credentials) /\ iNextID \in Ids
  /\ asking \in Tx \cup {None}
  /\ client \in [Tx -> Knowledge]
  /\ answers \in 0 .. MaxAnswers

FirstUri == CHOOSE u \in Uris : TRUE
NewTransaction ==
  [method |-> "EGET", uri |-> FirstUri, body |-> FALSE, info |-> None, user |-> None,
   status |-> None, count |-> 0, authorization |-> None, queue |-> <<>>,
   reply |-> "none", code |-> 200, location |-> None]
NewKnowledge(life) ==
  [life |-> life, ends |-> <<>>, refused |-> FALSE, asked |-> [method |-> "EGET", uri |-> FirstUri], submits |-> 0]

Init ==
  /\ tr = [t \in Tx |-> NewTransaction]
  /\ client = [t \in Tx |-> NewKnowledge("idle")]
  /\ iCredentials = <<>> /\ iNextID = 0
  /\ asking = None
  /\ answers = 0

-----------------------------------------------------------------------------
(* RHTTPTransaction: operations from world to world *)

Become(w) == /\ tr' = w.tr /\ iCredentials' = w.creds
             /\ iNextID' = w.next /\ client' = w.client

\* SendEventL; SubmitL out of the client or the redirection filter, and out of the
\* authentication filter, which is the last one before the protocol handler.
SendEvent(w, t, ev, to) == [w EXCEPT !.tr[t].queue = Append(@, E(ev, to))]
Submit(w, t) == SendEvent(w, t, "ESubmit", "ETidyUp")
SubmitFromHere(w, t) == SendEvent(w, t, "ESubmit", "EProtocolHandler")

\* Cancel: the queue is emptied and the protocol handler forgets the transaction.
Cancel(w, t) == [w EXCEPT !.tr[t] = [@ EXCEPT !.queue = <<>>, !.reply = "none"]]

\* The event is done with, or goes on to the next filter.
Done(w, t) == [w EXCEPT !.tr[t].queue = Tail(@)]
GoesOn(w, t, to) == [w EXCEPT !.tr[t].queue[1].to = to]

\* What the client's callback makes of an event.
Tell(w, t, ev) ==
  IF ev = "ERedirectRequiresConfirmation" THEN [w EXCEPT !.client[t].life = "confirm"]
  ELSE [w EXCEPT !.client[t].ends = Append(@, ev), !.client[t].life = "idle"]

-----------------------------------------------------------------------------
(* CValidationFilter *)

\* ValidateRequestMethodL: the methods that must have no body, and PUT.
RequestFails(r) == IF r.method = "EPUT" THEN ~r.body ELSE r.method # "EPOST" /\ r.body

\* ESubmit, with FailAndCancelL.
ValidateRequest(w, t) ==
  IF RequestFails(w.tr[t])
  THEN SendEvent(Cancel(w, t), t, "EFailed", "EClient")
  ELSE GoesOn(w, t, "EStatusCodeHandler+1")

\* Mutant: it is the event that decides.
ValidateResponseByEvent(w, t) ==
  LET ev == Head(w.tr[t].queue).ev
      final == IF ev = "KErr" THEN "EFailed" ELSE "ESucceeded"
  IN  SendEvent(Done(w, t), t, final, "EClient")

\* EResponseComplete and the events that tell of errors.
ValidateResponse(w, t) ==
  LET ev == Head(w.tr[t].queue).ev
      final == IF ev = "KErr" \/ w.tr[t].code >= 300 THEN "EFailed" ELSE "ESucceeded"
  IN  SendEvent(Done(w, t), t, final, "EClient")

-----------------------------------------------------------------------------
(* CRedirectFilter *)

RedirectError(w, t) ==
  SendEvent(Done([w EXCEPT !.client[t].refused = TRUE], t), t, "KErr", "ETidyUp")

\* Mutant: the body stays with the request.
AsGetKeepsBody(r) == [r EXCEPT !.method = "EGET"]

\* 302 and 303 ask for the new resource itself.
AsGet(r) == [r EXCEPT !.method = "EGET", !.body = FALSE]

\* Mutant: the number of redirections is not remembered.
HandleRedirectForgets(w, t) ==
  LET r == w.tr[t]
      w1 == [w EXCEPT !.tr[t] = [@ EXCEPT !.uri = r.location, !.location = None]]
      w2 == Cancel(w1, t)
  IN  IF r.location = None THEN RedirectError(w, t)
      ELSE IF r.code = 301 /\ r.method \notin {"EGET", "EHEAD"}
      THEN SendEvent(w2, t, "ERedirectRequiresConfirmation", "EClient")
      ELSE Submit([w2 EXCEPT !.tr[t] = IF r.code = 302 THEN AsGet(@) ELSE @], t)

\* HandleRedirectL.
HandleRedirect(w, t) ==
  LET r == w.tr[t]
      counted == [w EXCEPT !.tr[t].count = @ + 1]
      redirected == Cancel([counted EXCEPT !.tr[t] = [@ EXCEPT !.uri = r.location,
                                                               !.location = None]], t)
  IN  CASE r.count >= KRedirectLimit -> RedirectError(w, t)
        [] r.count < KRedirectLimit /\ r.location = None -> RedirectError(counted, t)
        [] r.count < KRedirectLimit /\ r.location # None ->
             IF r.code = 301 /\ r.method \notin {"EGET", "EHEAD"}
             THEN SendEvent(redirected, t, "ERedirectRequiresConfirmation", "EClient")
             ELSE Submit([redirected EXCEPT !.tr[t] = IF r.code = 302 THEN AsGet(@) ELSE @], t)

-----------------------------------------------------------------------------
(* CAuthenticationFilter *)

\* The place of the first of the credentials for which a predicate holds, or 0.
HostOf(realm) == Host[CHOOSE u \in Uris : Realm[u] = realm]
FindCredentials(creds, realm) == SelectInSeq(creds, LAMBDA c : c.realm = realm)
FindCredentialsForURI(creds, u) == SelectInSeq(creds, LAMBDA c : HostOf(c.realm) = Host[u])

\* EncodeBasicAuthL, EncodeDigestAuthL: a digest is good for one URI only.
Encode(w, t, realm, password) ==
  [w EXCEPT !.tr[t].authorization =
              [realm |-> realm, password |-> password, uri |-> w.tr[t].uri]]

\* SubmitL: the user in the URI becomes properties; credentials for the same host are
\* supplied before they are asked for, if they are basic.
SupplyCredentials(w, t) ==
  LET r == w.tr[t]
      k == FindCredentialsForURI(w.creds, r.uri)
      w1 == GoesOn([w EXCEPT !.tr[t] = [@ EXCEPT !.info = None,
                      !.user = IF r.info = None THEN r.user ELSE r.info]], t, "EProtocolHandler")
  IN  IF k # 0 /\ Scheme[w.creds[k].realm] = "EBasic"
      THEN Encode(w1, t, w.creds[k].realm, w.creds[k].password) ELSE w1

\* The end of HandleTransactionL: the request is repeated with credentials, which are
\* stored when they are new.
Resubmit(w, t, password, stored) ==
  LET realm == Realm[w.tr[t].uri]
      id == IF stored = 0 THEN w.next ELSE w.creds[stored].id
      new == [id |-> id, realm |-> realm, password |-> password]
      w1 == IF stored = 0 THEN [w EXCEPT !.creds = Append(@, new), !.next = @ + 1] ELSE w
      w2 == [Encode(w1, t, realm, password) EXCEPT !.tr[t].status = id]
  IN  SubmitFromHere(Cancel(w2, t), t)

\* Mutant: whoever has sent credentials has sent these.
WrongForAll(w, t, k) == k # 0 /\ w.tr[t].status # None

\* Mutant: nobody finds them wrong.
NeverWrong(w, t, k) == FALSE

\* "the credentials must be wrong": the transaction has tried them.
Wrong(w, t, k) == k # 0 /\ w.tr[t].status = w.creds[IF k = 0 THEN 1 ELSE k].id

\* HandleTransactionL up to the question.
Challenge(w, t) ==
  LET r == w.tr[t]
      k == FindCredentials(w.creds, Realm[r.uri])
      forgotten == IF Wrong(w, t, k) THEN [w EXCEPT !.creds = RemoveAt(@, k)] ELSE w
      stored == IF Wrong(w, t, k) THEN 0 ELSE k
      mine == [forgotten EXCEPT !.tr[t].user = None]
  IN  IF stored # 0 THEN Resubmit(mine, t, w.creds[stored].password, stored)
      ELSE IF r.status = None /\ r.user # None THEN Resubmit(mine, t, r.user, 0)
      ELSE forgotten                                    \* and asks
Asks(t) ==
  LET k == FindCredentials(iCredentials, Realm[tr[t].uri])
  IN  /\ k = 0 \/ Wrong(w0, t, k)
      /\ tr[t].status # None \/ tr[t].user = None

-----------------------------------------------------------------------------
(* RunL of a transaction: its first event at the next filter *)

Runs(t, ev, to) == /\ asking = None /\ tr[t].queue # <<>> /\ client[t].life # "closed"
                   /\ Head(tr[t].queue) = E(ev, to)
Unasked == UNCHANGED <<asking, answers>>

Validation(t) ==
  \/ Runs(t, "ESubmit", "ETidyUp") /\ Become(ValidateRequest(w0, t)) /\ Unasked
  \/ \E ev \in {"EResponseComplete", "KErr"} :
       Runs(t, ev, "ETidyUp") /\ Become(ValidateResponse(w0, t)) /\ Unasked

Redirection(t) ==
  /\ Runs(t, "EGotResponseHeaders", "EStatusCodeHandler")
  /\ \/ tr[t].code \in {301, 302} /\ Become(HandleRedirect(w0, t))
     \/ tr[t].code = 305 /\ Become(RedirectError(w0, t))
  /\ Unasked

Authentication(t) ==
  \/ /\ Runs(t, "ESubmit", "EStatusCodeHandler+1")
     /\ Become(SupplyCredentials(w0, t)) /\ Unasked
  \/ /\ Runs(t, "EGotResponseHeaders", "EStatusCodeHandler") /\ tr[t].code = 401
     /\ Become(Challenge(w0, t))
     /\ asking' = IF Asks(t) THEN t ELSE None
     /\ UNCHANGED answers

\* The protocol handler takes the request; nothing of it while it has it already.
Submitted(t) ==
  /\ Runs(t, "ESubmit", "EProtocolHandler")
  /\ Become(Done([w0 EXCEPT !.tr[t].reply = IF @ = "none" THEN "waiting" ELSE @], t))
  /\ Unasked

ClientRuns(t) ==
  \E ev \in Events : /\ Runs(t, ev, "EClient")
                     /\ Become(Done(Tell(w0, t, ev), t)) /\ Unasked

-----------------------------------------------------------------------------
(* Server and protocol handler *)

Authorized(t) ==
  LET r == tr[t] IN
  \/ Realm[r.uri] = None
  \/ /\ r.authorization # None
     /\ r.authorization.realm = Realm[r.uri]
     /\ r.authorization.password = Right[Realm[r.uri]]
     /\ Scheme[Realm[r.uri]] = "EDigest" => r.authorization.uri = r.uri

\* The headers of the response arrive, and the filters are told of them if there is one
\* for the status; then the rest of it.
Arrives(w, t, response) ==
  [w EXCEPT !.tr[t] = [@ EXCEPT !.reply = "body", !.code = response.code, !.location = response.location]]
Answer(t) ==
  \E response \in Responses :
    /\ tr[t].reply = "waiting"
    /\ (response.code = 401) <=> ~Authorized(t)
    /\ Become(IF response.code \in {200, 404} THEN Arrives(w0, t, response)
              ELSE SendEvent(Arrives(w0, t, response), t, "EGotResponseHeaders", "EStatusCodeHandler"))
    /\ Unasked
Complete(t) ==
  /\ tr[t].reply = "body"
  /\ Become(SendEvent([w0 EXCEPT !.tr[t].reply = "none"], t, "EResponseComplete", "ETidyUp"))
  /\ Unasked
\* The connection is lost.
Breaks(t) ==
  /\ tr[t].reply # "none"
  /\ Become(SendEvent([w0 EXCEPT !.tr[t].reply = "none"], t, "KErr", "ETidyUp"))
  /\ Unasked

-----------------------------------------------------------------------------
(* Client and user *)

Quiet(t) == tr[t].queue = <<>> /\ tr[t].reply = "none" /\ asking # t

SubmitAs(r, t, n) ==
  /\ Become(Submit(
       [w0 EXCEPT !.tr[t] = [@ EXCEPT !.method = r.method, !.uri = r.uri, !.body = r.body,
                                      !.info = r.info],
                  !.client[t] = [life |-> "busy", ends |-> <<>>, refused |-> FALSE,
                                 asked |-> [method |-> r.method, uri |-> r.uri],
                                 submits |-> client[t].submits + n]], t))
  /\ Unasked

ClientSubmits(t) ==
  \E r \in Requests[t] :
    /\ client[t].life = "idle" /\ client[t].submits < MaxSubmits
    /\ Quiet(t) \/ "hasty" \in Env
    /\ SubmitAs(r, t, 1)
\* As it has been asked to, with the new URI.
ClientConfirms(t) ==
  /\ client[t].life = "confirm"
  /\ SubmitAs(tr[t], t, 0)

ClientCancels(t) ==
  /\ client[t].life = "busy" /\ (asking = t => "cancelAsking" \in Env)
  /\ Become(Cancel([w0 EXCEPT !.client[t].life = "idle"], t))
  /\ Unasked

ClientCloses(t) ==
  /\ client[t].life # "closed"
  /\ Become([w0 EXCEPT !.tr[t] = NewTransaction, !.client[t] = NewKnowledge("closed")])
  /\ Unasked

\* GetCredentialsL returns with a password.
UserAnswers(t) ==
  \E password \in Passwords :
    /\ asking = t /\ answers < MaxAnswers
    /\ asking' = None /\ answers' = answers + 1
    /\ Become(IF client[t].life = "closed" THEN w0 ELSE Resubmit(w0, t, password, 0))

\* It returns without, and the response goes on to the client.
UserRefuses(t) ==
  /\ asking = t /\ asking' = None
  /\ Become(IF tr[t].queue = <<>> THEN w0 ELSE Done(w0, t))
  /\ UNCHANGED answers

\* It leaves: MHFRunError fails the transaction.
UserFails(t) ==
  /\ asking = t /\ asking' = None
  /\ Become(IF client[t].life = "closed" THEN w0 ELSE Tell(Cancel(w0, t), t, "EFailed"))
  /\ UNCHANGED answers

Next == \E t \in Tx :
  \/ Validation(t) \/ Redirection(t) \/ Authentication(t) \/ Submitted(t) \/ ClientRuns(t)
  \/ Answer(t) \/ Complete(t) \/ Breaks(t)
  \/ ClientSubmits(t) \/ ClientConfirms(t) \/ ClientCancels(t) \/ ClientCloses(t)
  \/ UserAnswers(t) \/ UserRefuses(t) \/ UserFails(t)

Spec == Init /\ [][Next]_vars

\* The scheduler runs the transactions, the server answers or the connection is lost,
\* and the user does not sit before a question for ever.
Pending == asking # None \/ \E t \in Tx : tr[t].queue # <<>> \/ tr[t].reply # "none"
Progress == \E t \in Tx :
  \/ Validation(t) \/ Redirection(t) \/ Authentication(t) \/ Submitted(t) \/ ClientRuns(t)
  \/ Answer(t) \/ Complete(t) \/ Breaks(t)
  \/ UserAnswers(t) \/ UserRefuses(t) \/ UserFails(t)
FairSpec == Spec /\ ([]<>~Pending \/ []<><<Progress>>_vars)

-----------------------------------------------------------------------------
(* Properties *)

\* A submission has one end, and that comes last: the client gets ESucceeded or EFailed
\* when nothing of the transaction is left in the chain or with the server, ESucceeded
\* for a response below 300 only, and nothing comes of a transaction that has ended or
\* been cancelled; as long as it has not ended, somebody has it.  Only a redirection
\* that was refused ends twice, and then never well.
OneEnd ==
  /\ TypeOK
  /\ \A t \in Tx : LET c == client[t] IN
       /\ Len(c.ends) <= IF c.refused THEN 2 ELSE 1
       /\ \A i \in DOMAIN c.ends : c.ends[i] = "ESucceeded" => Len(c.ends) = 1 /\ tr[t].code < 300
       /\ c.life \in {"idle", "confirm"} /\ ~c.refused => Quiet(t)
       /\ c.life = "busy" => ~Quiet(t)

\* A body goes only where the client has sent it: a redirection that would repeat it
\* elsewhere is confirmed first, and one that asks for another resource drops it, so
\* that no redirected request is turned down for its body.
Confirmed ==
  \A t \in Tx :
    LET request == [method |-> tr[t].method, uri |-> tr[t].uri] IN
    /\ tr[t].reply # "none" /\ tr[t].body => request = client[t].asked
    /\ tr[t].queue # <<>> /\ request # client[t].asked => ~RequestFails(tr[t])

\* Credentials are forgotten only when they are wrong, and there is one for a realm.
\* (So in a host with one realm and basic credentials: a transaction that tries another
\* realm's in between, or a digest made for another URI, forgets right ones.)
Stored == {iCredentials[i] : i \in DOMAIN iCredentials}
Forgotten ==
  [][/\ \A c \in Stored \ Stored' : c.password # Right[c.realm]
     /\ \A i, j \in DOMAIN iCredentials' :
          iCredentials'[i].realm = iCredentials'[j].realm => i = j]_vars

\* However often the server redirects, and however many wrong passwords there are, a
\* submission comes to its end, or to a question to the client.
Ends == \A t \in Tx : client[t].life = "busy" ~> client[t].life # "busy"
=============================================================================
