----------------------------- MODULE FtpSession -----------------------------
(***************************************************************************)
(* The FTP engine: CFTPSessionDerived, which makes an operation out of     *)
(* several commands, CFtpProtocolDerived, which sends the commands and     *)
(* waits for the answer of each, and under it the control connection       *)
(* (CPIChannel, CPISocketRead), the data connection (CDTPChannel), the     *)
(* resolver and the two CFTPSetError.                                      *)
(*                                                                         *)
(* An answer is its first digit and the command it is for, which the code  *)
(* does not know: it takes what comes for the answer of what it sent last. *)
(* A packet is its number in the file.  A buffer read from the control     *)
(* connection holds one or more whole answers; that the parser also waits  *)
(* for the rest of a line, and the addresses of PORT and PASV, are left    *)
(* out, and so are Restart and REST, the commands no operation sends, a    *)
(* socket that cannot be opened, a local file that cannot be renamed or    *)
(* deleted, and progress and server messages.                              *)
(*                                                                         *)
(* Env lists what the environment does beyond obeying RFC 959 and the      *)
(* notes in FTPSESS.H.  The engine stands                                  *)
(*   "refuse"       the server refuses a command; never ABOR, TYPE or QUIT *)
(*   "reset"        the control connection is reset                        *)
(*   "noHost"       the name is not found, the server not reached          *)
(*   "dataFail"     the data connection cannot be made                     *)
(*   "abortResets"  an aborted transfer ends with a reset                  *)
(* and does not stand (README, section 5)                                  *)
(*   "reconnect"    the session is connected a second time                 *)
(*   "impatient"    a new operation before all answers have come           *)
(*   "cancelEarly"  Cancel before the transfer's command is sent           *)
(*   "cancelSending"     ... or while it is being written                  *)
(*   "cancelUnconnected" ... or when no data is being sent or received     *)
(*   "cancelReplace"     ... of a Retrieve that replaces a local file      *)
(*   "dataReset"    the data connection is reset                           *)
(*   "sendFail"     a command cannot be written                            *)
(*   "refuseOdd"    the server refuses TYPE or QUIT                        *)
(*   "resetPosted"  the control connection is reset before a posted file   *)
(*                  error is reported                                      *)
(*   "fileError"    a local file that was opened cannot be read or written *)
(***************************************************************************)
EXTENDS Integers, Sequences, FiniteSets, SequencesExt

CONSTANTS
  Operations,  \* those the client uses
  Packets,     \* the length of every file and list
  MaxOps,      \* bound: how many operations the client starts
  Env

Liberties == {"refuse", "reset", "noHost", "abortResets", "reconnect", "impatient", "cancelEarly",
              "cancelSending", "cancelUnconnected", "cancelReplace", "dataFail", "dataReset",
              "sendFail", "refuseOdd", "resetPosted", "fileError"}

\* An operation of one command, and the session's state during it.  (Both of
\* ChangeDirectory and GetCurrentDirectory are in EGetCurrentDirectory.)
Simple == [Cwd |-> "EGetCurrentDirectory", Pwd |-> "EGetCurrentDirectory", Mkd |-> "ECreateDirectory",
           Rmd |-> "EDeleteDirectory", Dele |-> "EDeleteFile"]

ASSUME ConstantsAssumption ==
  /\ Operations \subseteq DOMAIN Simple \cup {"Retrieve", "Store", "List", "Rename", "Close"}
  /\ Packets \in Nat /\ MaxOps \in Nat /\ Env \subseteq Liberties

VARIABLES
  sess,     \* CFTPSessionDerived
  prot,     \* CFtpProtocolDerived and its resolver
  pi,       \* CPIChannel and CPISocketRead
  dtp,      \* CDTPChannel
  posted,   \* the error posted to the session's CFTPSetError
  local,    \* the local file
  client,   \* the operation and what was notified of it
  server,   \* the server, the connections and what is on them
  panic

vars == <<sess, prot, pi, dtp, posted, local, client, server, panic>>
world == [sess |-> sess, prot |-> prot, pi |-> pi, dtp |-> dtp, posted |-> posted, local |-> local,
          client |-> client, server |-> server, panic |-> panic]

None == "none"

Typing == {"EPerformingTypeForRetrieve", "EPerformingTypeForStore"}
Porting == {"EPerformingPortForList", "EPerformingPortForRetrieve", "EPerformingPortForStore"}
Pasving == {"EPerformingPasvForList", "EPerformingPasvForRetrieve", "EPerformingPasvForStore"}
Transferring == {"EPerformingList", "ERetrieveFile", "EStoreFile", "EStoreFileSendEOF"}
Aborting == {"EAbortingStore", "EAbortingRetrieve", "EAbortingList"}
Settled == {"EIdle", "EConnected"}
SessionStates ==
  Settled \cup {"EConnecting", "ELoginUser", "ELoginPass", "EClosing", "ERenameFileFrom",
   "ERenameFileTo"} \cup {Simple[o] : o \in DOMAIN Simple} \cup Typing \cup Porting \cup Pasving
  \cup Transferring \cup Aborting

SimpleCommands == {"EPerformingCwd", "EPerformingPwd", "EPerformingMkd", "EPerformingRmd",
                   "EPerformingDele", "EPerformingType", "EPerformingPort"}
TransferCommands == {"EPerformingList", "EPerformingRetr", "EPerformingStor"}
\* The states of the protocol that have a command on its way.
Commands ==
  {"EConnecting", "EPerformingQuit", "EPerformingAbor", "EPerformingPasv", "EPerformingRnfr",
   "EPerformingRnto", "EPerformingUser", "EPerformingPass"} \cup SimpleCommands \cup TransferCommands

Types == {"EUninitialised", "EBinary", "EASCII"}
Answer == [digit : 1 .. 5, cmd : Commands, op : 0 .. MaxOps]
NoAnswer == [digit |-> 0, cmd |-> None, op |-> 0]
PostedErrors == {"ENotConnected", "EAlreadyConnected", "EFileOpenFailure", "EOpCanceled"}

TypeOK ==
  /\ sess \in [state : SessionStates, pasv : BOOLEAN, temp : BOOLEAN, current : Types, new : Types,
               fileError : BOOLEAN, first : BOOLEAN, cur : {0, 1}, buf : [{0, 1} -> 0 .. Packets]]
  /\ prot \in [state : Commands \cup {"EIdle", "ELookingUp"}, answer : Answer \cup {NoAnswer},
               pasv : BOOLEAN, io : {0, 1}, resolving : BOOLEAN]
  /\ pi \in [state : {"EPIChannelIdle", "EPIChannelConnecting", "EPIChannelConnected", "EPIChannelSending"},
             active : BOOLEAN, reading : BOOLEAN]
  /\ dtp \in [state : {"EDTPChannelIdle", "EDTPChannelConnecting", "EDTPChannelListening",
                       "EDTPChannelConnected", "EDTPChannelShutingDown", "EDTPChannelSending",
                       "EDTPChannelReceiving"},
              active : BOOLEAN, received : 0 .. Packets]
  /\ posted \in PostedErrors \cup {None}
  /\ local \in [old : BOOLEAN, backup : BOOLEAN, replaced : BOOLEAN, open : BOOLEAN, bad : BOOLEAN,
                got : Seq(1 .. Packets), next : 1 .. Packets + 1]
  /\ client \in [op : Operations \cup {"Connect", None}, n : 0 .. MaxOps,
                 notes : SUBSET {"Complete", "Cancel", "ConnReset", "Error"}, more : BOOLEAN,
                 cancelled : BOOLEAN]
  /\ server.cmds \in Seq([cmd : Commands, op : 0 .. MaxOps, type : Types])
  /\ server.answers \in Seq(Answer)
  /\ server.link \in {"down", "up", "reset"} /\ server.type \in Types
  /\ server.transfer \in TransferCommands \cup {None} /\ server.op \in 0 .. MaxOps
  /\ server.got \in Seq(1 .. Packets)
  /\ server.data \in [open : {"no", "yes", "gone"}, sent : 0 .. Packets, closed : {"no", "eof", "reset"}, eof : BOOLEAN]
  /\ panic \subseteq {"active", "sess", "prot", "file", "temp"}

PiIdle == [state |-> "EPIChannelIdle", active |-> FALSE, reading |-> FALSE]
DtpIdle == [state |-> "EDTPChannelIdle", active |-> FALSE, received |-> 0]
NoData == [open |-> "no", sent |-> 0, closed |-> "no", eof |-> FALSE]
NoServer == [cmds |-> <<>>, answers |-> <<>>, link |-> "down", type |-> "EASCII", transfer |-> None,
             op |-> 0, got |-> <<>>, data |-> NoData]
NoFile == [old |-> FALSE, backup |-> FALSE, replaced |-> FALSE, open |-> FALSE, bad |-> FALSE,
           got |-> <<>>, next |-> 1]

Init ==
  /\ sess = [state |-> "EIdle", pasv |-> FALSE, temp |-> FALSE, current |-> "EUninitialised",
             new |-> "EUninitialised", fileError |-> FALSE, first |-> FALSE, cur |-> 0,
             buf |-> [b \in {0, 1} |-> 0]]
  /\ prot = [state |-> "EIdle", answer |-> NoAnswer, pasv |-> FALSE, io |-> 0, resolving |-> FALSE]
  /\ pi = PiIdle /\ dtp = DtpIdle
  /\ posted = None
  /\ local = NoFile
  /\ client = [op |-> None, n |-> 0, notes |-> {}, more |-> FALSE, cancelled |-> FALSE]
  /\ server = NoServer /\ panic = {}

Becomes(w) ==
  /\ sess' = w.sess /\ prot' = w.prot /\ pi' = w.pi /\ dtp' = w.dtp /\ posted' = w.posted
  /\ local' = w.local /\ client' = w.client /\ server' = w.server /\ panic' = w.panic

Check(w, holds, name) == IF holds THEN w ELSE [w EXCEPT !.panic = @ \cup {name}]
Alive == panic = {}
Note(w, note) == [w EXCEPT !.client.notes = @ \cup {note}]

-----------------------------------------------------------------------------
(* The control connection *)

\* Cancel waits for what is outstanding; closing the socket ends the
\* connection and what is on it.
PiDisconnect(w) ==
  [w EXCEPT !.pi = PiIdle, !.server.link = "down", !.server.cmds = <<>>, !.server.answers = <<>>,
            !.server.transfer = None]

\* Mutant: no answer is fetched while a command is being written.
GetNextUnlessSending(w) == IF w.pi.state # "EPIChannelConnected" THEN w ELSE [w EXCEPT !.pi.reading = TRUE]
GetNextAnswer(w) == IF w.pi.state = "EPIChannelIdle" THEN w ELSE [w EXCEPT !.pi.reading = TRUE]

\* What is not connected is not sent, and nothing is said of it.
SendCommand(w, cmd) ==
  IF w.pi.state = "EPIChannelIdle" THEN w
  ELSE [Check(w, ~w.pi.active, "active") EXCEPT
         !.pi.state = "EPIChannelSending", !.pi.active = TRUE,
         !.server.cmds = Append(@, [cmd |-> cmd, op |-> w.client.n, type |-> w.sess.new])]

\* Mutant: an answer counts though the write of its command has not completed.
NeverBusy(w) == w.pi.state = "EPIChannelIdle"
Busy(w) == w.pi.state # "EPIChannelConnected"

-----------------------------------------------------------------------------
(* The data connection *)

DtpDisconnect(w) == [w EXCEPT !.dtp = DtpIdle, !.server.data.open = "gone"]
\* Mutant: a data connection that has nothing outstanding counts as closed.
ClosedOrConnected(w) == w.dtp.state # "EDTPChannelListening"
Closed(w) == w.dtp.state = "EDTPChannelIdle"
Connected(w) == w.dtp.state \in {"EDTPChannelConnected", "EDTPChannelSending", "EDTPChannelReceiving"}

Request(w, state) == [Check(w, ~w.dtp.active, "active") EXCEPT !.dtp.state = state, !.dtp.active = TRUE]

SetBuffer(w, b) == [w EXCEPT !.prot.io = b]
RecvBuffer(w, b) == IF Connected(w) THEN Request(SetBuffer(w, b), "EDTPChannelReceiving") ELSE SetBuffer(w, b)
SendBuffer(w, b) == IF Connected(w) THEN Request(SetBuffer(w, b), "EDTPChannelSending") ELSE SetBuffer(w, b)
SendEOF(w) == Request(w, "EDTPChannelShutingDown")

-----------------------------------------------------------------------------
(* The commands of the protocol *)

\* PORT listens; PASV, PORT and a transfer say which side makes the data
\* connection.
PrepareData(w, cmd) ==
  CASE cmd = "EPerformingPort" -> [w EXCEPT !.prot.pasv = FALSE, !.dtp.state = "EDTPChannelListening",
                                            !.server.data = NoData, !.server.got = <<>>]
    [] cmd = "EPerformingPasv" -> [w EXCEPT !.prot.pasv = TRUE, !.server.data = NoData, !.server.got = <<>>]
    [] cmd \in TransferCommands ->
         Request(w, IF w.prot.pasv THEN "EDTPChannelConnecting" ELSE w.dtp.state)
    [] OTHER -> w

\* Mutant: the answer to the command before is not forgotten.
CommandKeepsAnswer(w, cmd) == PrepareData(SendCommand([w EXCEPT !.prot.state = cmd], cmd), cmd)

Command(w, cmd) ==
  PrepareData(SendCommand([w EXCEPT !.prot.state = cmd,
                                    !.prot.answer = IF cmd = "EPerformingAbor" THEN @ ELSE NoAnswer], cmd), cmd)

ConnectTo(w) ==
  [Check(w, w.pi.state = "EPIChannelIdle", "prot") EXCEPT
    !.prot.state = "EConnecting", !.prot.answer = NoAnswer,
    !.pi.state = "EPIChannelConnecting", !.pi.active = TRUE]

UserCancel(w) ==
  CASE w.prot.state = "ELookingUp" -> [w EXCEPT !.prot.resolving = FALSE]
    [] w.prot.state = "EConnecting" -> PiDisconnect(w)
    [] OTHER -> w

-----------------------------------------------------------------------------
(* The session: moving from one command of an operation to the next *)

Post(w, error) == [Check(w, w.posted = None, "active") EXCEPT !.posted = error]

Read(w, b) ==
  IF w.local.bad THEN w
  ELSE IF w.local.next <= Packets
  THEN [w EXCEPT !.sess.buf[b] = w.local.next, !.local.next = @ + 1]
  ELSE [w EXCEPT !.sess.buf[b] = 0]

FileError(w) == [Note(w, "Error") EXCEPT !.sess.fileError = TRUE]
ReadPacket(w, b) == IF w.sess.fileError \/ w.local.bad THEN FileError(w) ELSE Read(w, b)
WritePacket(w, b) ==
  IF w.sess.fileError \/ w.local.bad THEN FileError(w)
  ELSE [Check(w, w.local.open, "file") EXCEPT !.local.got = Append(@, w.sess.buf[b])]

\* A packet was received or sent, or the first one of a Store is to be made
\* ready: the two buffers change roles.
ServerXFerNotification(w) ==
  LET b == w.sess.cur
      z == [w EXCEPT !.sess.cur = 1 - b]
      ended == (z.sess.fileError \/ z.sess.buf[b] = 0) /\ ~z.sess.first
  IN CASE w.sess.state = "EPerformingList" -> [z EXCEPT !.client.more = TRUE]
       [] w.sess.state = "ERetrieveFile" -> WritePacket(RecvBuffer(z, 1 - b), b)
       [] w.sess.state = "EStoreFile" ->
            ReadPacket(IF ended THEN SendEOF([z EXCEPT !.sess.state = "EStoreFileSendEOF"])
                       ELSE [SendBuffer(z, b) EXCEPT !.sess.first = FALSE], 1 - b)
       [] w.sess.state = "EAbortingStore" -> SendEOF(z)
       [] w.sess.state \in {"EAbortingRetrieve", "EAbortingList"} -> RecvBuffer(z, b)
       [] OTHER -> Check(z, FALSE, "sess")

\* The next state of an operation that goes well; the states EInitiate... are
\* those an operation starts from and never rests in.
Following(state, pasv) ==
  CASE state = "EConnecting" -> "ELoginUser"
    [] state = "ELoginUser" -> "ELoginPass"
    [] state = "ERenameFileFrom" -> "ERenameFileTo"
    [] state = "EInitiateListOperation" ->
         IF pasv THEN "EPerformingPasvForList" ELSE "EPerformingPortForList"
    [] state = "EInitiateRetrieveOperation" -> "EPerformingTypeForRetrieve"
    [] state = "EInitiateStoreOperation" -> "EPerformingTypeForStore"
    [] state = "EPerformingTypeForRetrieve" ->
         IF pasv THEN "EPerformingPasvForRetrieve" ELSE "EPerformingPortForRetrieve"
    [] state = "EPerformingTypeForStore" ->
         IF pasv THEN "EPerformingPasvForStore" ELSE "EPerformingPortForStore"
    [] state \in {"EPerformingPasvForList", "EPerformingPortForList"} -> "EPerformingList"
    [] state \in {"EPerformingPasvForRetrieve", "EPerformingPortForRetrieve"} -> "ERetrieveFile"
    [] state \in {"EPerformingPasvForStore", "EPerformingPortForStore"} -> "EStoreFile"
    [] state = "EClosing" -> "EIdle"
    [] OTHER -> "EConnected"

\* The whole of a file is there: what was kept of the one it replaces goes.
Leave(w) ==
  CASE w.sess.state \in {"ERetrieveFile", "EStoreFileSendEOF"} ->
         [w EXCEPT !.local.open = FALSE, !.sess.temp = FALSE,
                   !.local.backup = @ /\ ~w.sess.temp]
    [] w.sess.state \in Typing -> [w EXCEPT !.sess.current = w.sess.new]
    [] w.sess.state \in Aborting -> Note(w, "Cancel")
    [] w.sess.state \in {"EIdle", "EStoreFile"} -> Check(w, FALSE, "sess")
    [] OTHER -> w

Enter(w, state) ==
  LET z == [w EXCEPT !.sess.state = state]
      one == 1 - z.sess.cur
  IN CASE state = "ELoginUser" -> Command(z, "EPerformingUser")
       [] state = "ELoginPass" -> Command(z, "EPerformingPass")
       [] state = "ERenameFileTo" -> Command(z, "EPerformingRnto")
       [] state \in Typing -> Command(z, "EPerformingType")
       [] state \in Pasving -> Command(z, "EPerformingPasv")
       [] state \in Porting -> Command(z, "EPerformingPort")
       [] state = "EPerformingList" -> Command(RecvBuffer(z, 0), "EPerformingList")
       [] state = "ERetrieveFile" -> Command(RecvBuffer(z, z.sess.cur), "EPerformingRetr")
       [] state = "EStoreFile" ->
            ServerXFerNotification(
              Read([Command(z, "EPerformingStor") EXCEPT !.sess.cur = one, !.sess.first = TRUE,
                                                         !.sess.buf[1 - one] = 0], one))
       [] state \in Settled -> Note(z, "Complete")

\* Some servers answer 2 to the transfer and 2 to the ABOR that came too late:
\* in EConnected nothing is made of the second.  TYPE is passed over when the
\* type is the one in use.
NormalTransition(w) ==
  IF w.sess.state = "EConnected" THEN w
  ELSE LET left == Leave(w)
           next == Following(w.sess.state, w.sess.pasv)
           pass == next \in Typing /\ w.sess.new = w.sess.current
       IN Enter(left, IF pass THEN Following(next, w.sess.pasv) ELSE next)

AfterError(state, status) ==
  CASE \/ status \in {"EOpConnectionReset", "EOpConnectionFailed", "EHostNotFound"}
       \/ status = "EOpCanceled" /\ state = "EConnecting" -> "EIdle"
    [] status = "EOpCanceled" /\ state \notin Aborting \cup {"EConnecting"} -> state
    [] OTHER -> "EConnected"

\* Mutant: the old file is not put back.
ErrorTransitionLosesOld(w, status) ==
  [w EXCEPT !.local.open = FALSE, !.sess.temp = FALSE,
            !.local.backup = @ /\ ~w.sess.temp,
            !.sess.state = AfterError(@, status)]

ErrorTransition(w, status) ==
  [w EXCEPT !.local.open = FALSE, !.sess.temp = FALSE,
            !.local.backup = @ /\ ~w.sess.temp, !.local.old = @ \/ w.sess.temp,
            !.sess.state = AfterError(@, status)]

ErrorNotification(w, status) ==
  LET z == Check(w, CASE status = "EOpConnectionFailed" -> w.sess.state = "EConnecting"
                      [] status \in {"EXferReset", "EXferNotInitialised"} -> w.sess.state \in Transferring
                      [] OTHER -> TRUE, "sess")
  IN ErrorTransition(Note(z, IF status = "EOpConnectionReset" THEN "ConnReset" ELSE "Error"), status)

ServerNegativeAnswerNotification(w) ==
  ErrorTransition(Note(Check(w, /\ w.sess.state \notin Typing \cup Aborting \cup {"EIdle"}
                                /\ w.prot.answer.digit > 1, "sess"), "Error"), "EOpFailed")

\* CFTPSessionDerived::SetErrorNotifier.
Notified(w, error) ==
  CASE error = "EOpCanceled" -> ErrorTransition(Note(w, "Cancel"), "EOpCanceled")
    [] error = "EFileOpenFailure" -> ErrorTransition(Note(w, "Error"), "EOpFailed")
    [] OTHER -> Note(w, "Error")

-----------------------------------------------------------------------------
(* The protocol: an answer was parsed, a command written, a connection closed *)

UpdateState(w) ==
  LET digit == w.prot.answer.digit
      Answered(z, accepted) ==
        IF accepted THEN NormalTransition(z) ELSE ServerNegativeAnswerNotification(z)
  IN IF digit = 0 \/ Busy(w) THEN w
     ELSE CASE w.prot.state \in SimpleCommands \cup {"EConnecting", "EPerformingPasv", "EPerformingRnto",
                                                     "EPerformingPass"} -> Answered(w, digit = 2)
            [] w.prot.state = "EPerformingQuit" -> Answered(PiDisconnect(w), digit = 2)
            [] w.prot.state = "EPerformingRnfr" -> Answered(w, digit = 3)
            [] w.prot.state = "EPerformingUser" -> Answered(w, digit \in {2, 3})
            [] w.prot.state = "EPerformingAbor" ->
                 IF digit = 2 /\ Closed(w) THEN NormalTransition(w)
                 ELSE IF digit = 4 THEN DtpDisconnect(w) ELSE w
            [] w.prot.state \in TransferCommands ->
                 IF digit = 2 THEN IF Closed(w) THEN NormalTransition(w) ELSE w
                 ELSE IF digit = 1 THEN w ELSE ServerNegativeAnswerNotification(DtpDisconnect(w))
            [] OTHER -> Check(w, FALSE, "prot")

PIChannelOperationError(w, status) ==
  LET z == [DtpDisconnect(PiDisconnect(w)) EXCEPT !.prot.state = "EIdle"]
  IN IF status = "EPiSendFailed" THEN z ELSE ErrorNotification(z, status)

DTPChannelAborted(w) ==
  IF w.prot.state = "EPerformingAbor" THEN UpdateState(w)
  ELSE ErrorNotification([PiDisconnect(w) EXCEPT !.prot.state = "EIdle"], "EXferReset")

-----------------------------------------------------------------------------
(* The client *)

\* No command is on its way, no answer awaited, no error posted.
Quiet == ~pi.active /\ server.cmds = <<>> /\ server.answers = <<>> /\ server.transfer = None /\ posted = None

MayStart(op) ==
  /\ Alive /\ sess.state \in Settled /\ client.n < MaxOps
  /\ client.n = 0 \/ client.notes # {}
  /\ "impatient" \in Env \/ Quiet
  /\ op \in Operations \cup {"Connect"}

Begin(op) ==
  [world EXCEPT !.client = [op |-> op, n |-> client.n + 1, notes |-> {}, more |-> FALSE, cancelled |-> FALSE]]

\* What every operation does first when the session is not connected.
IfConnected(w, then) == IF w.sess.state = "EIdle" THEN Post(w, "ENotConnected") ELSE then

StartConnect(pasv, byName) ==
  /\ MayStart("Connect")
  /\ "reconnect" \in Env \/ client.n = 0
  /\ LET z == [Begin("Connect") EXCEPT !.sess.pasv = pasv, !.sess.state = "EConnecting"]
     IN Becomes(IF sess.state # "EIdle" THEN Post(Begin("Connect"), "EAlreadyConnected")
                ELSE IF byName THEN [z EXCEPT !.prot.state = "ELookingUp", !.prot.answer = NoAnswer,
                                              !.prot.resolving = TRUE]
                ELSE ConnectTo(z))

SimpleCommand == [Cwd |-> "EPerformingCwd", Pwd |-> "EPerformingPwd", Mkd |-> "EPerformingMkd",
                  Rmd |-> "EPerformingRmd", Dele |-> "EPerformingDele"]
StartSimple(op) ==
  /\ MayStart(op)
  /\ Becomes(IfConnected(Begin(op), Command([Begin(op) EXCEPT !.sess.state = Simple[op]], SimpleCommand[op])))

StartRename ==
  /\ MayStart("Rename")
  /\ Becomes(IfConnected(Begin("Rename"),
               Command([Begin("Rename") EXCEPT !.sess.state = "ERenameFileFrom"], "EPerformingRnfr")))

StartClose ==
  /\ MayStart("Close")
  /\ Becomes(IfConnected(Begin("Close"),
               Command([Begin("Close") EXCEPT !.sess.state = "EClosing"], "EPerformingQuit")))

StartList ==
  /\ MayStart("List")
  /\ Becomes(IfConnected(Begin("List"),
               NormalTransition([Begin("List") EXCEPT !.sess.state = "EInitiateListOperation"])))

\* The client asks for the rest of the list when it is told that there is more.
ListMore ==
  /\ Alive /\ sess.state = "EPerformingList" /\ client.more
  /\ Becomes(RecvBuffer([world EXCEPT !.client.more = FALSE], 0))

\* opens is FALSE when the local file cannot be opened.
StartStore(type, opens, bad) ==
  /\ MayStart("Store")
  /\ bad => "fileError" \in Env
  /\ LET z == [Begin("Store") EXCEPT
                !.local = [NoFile EXCEPT !.open = TRUE, !.bad = bad], !.sess.fileError = FALSE,
                !.sess.new = type, !.sess.state = "EInitiateStoreOperation"]
     IN Becomes(IfConnected(Begin("Store"),
                  IF opens THEN NormalTransition(z) ELSE Post(Begin("Store"), "EFileOpenFailure")))

\* A file of that name is renamed, and kept until the transfer has ended.
StartRetrieve(type, exists, opens, bad) ==
  /\ MayStart("Retrieve")
  /\ bad => "fileError" \in Env
  /\ LET asked == Check(Begin("Retrieve"), ~sess.temp, "temp")
         renamed == [asked EXCEPT
                      !.local = [NoFile EXCEPT !.replaced = exists, !.backup = exists, !.open = opens, !.bad = bad],
                      !.sess.temp = exists \/ @]
         z == [renamed EXCEPT !.sess.fileError = FALSE, !.sess.new = type,
                              !.sess.state = "EInitiateRetrieveOperation"]
     IN Becomes(IfConnected(asked, IF opens THEN NormalTransition(z) ELSE Post(renamed, "EFileOpenFailure")))

MayCancel ==
  /\ Alive /\ client.op # None /\ ~client.cancelled /\ posted = None
  /\ sess.state \in Typing \cup Porting \cup Pasving => "cancelEarly" \in Env
  /\ sess.state \in {"ERetrieveFile", "EStoreFile", "EPerformingList"} =>
       /\ pi.active => "cancelSending" \in Env
       /\ (Connected(world) /\ dtp.active) \/ "cancelUnconnected" \in Env
  /\ sess.state = "ERetrieveFile" /\ sess.temp => "cancelReplace" \in Env

Cancel ==
  /\ MayCancel
  /\ LET z == [world EXCEPT !.client.cancelled = TRUE]
         Abort(state) == [Command([z EXCEPT !.sess.state = state], "EPerformingAbor") EXCEPT !.local.open = FALSE]
     IN Becomes(CASE sess.state = "EStoreFile" -> Abort("EAbortingStore")
                  [] sess.state = "ERetrieveFile" -> Abort("EAbortingRetrieve")
                  [] sess.state = "EPerformingList" -> Abort("EAbortingList")
                  [] sess.state = "EConnecting" -> Post(UserCancel(z), "EOpCanceled")
                  [] OTHER -> Post(z, "EOpCanceled"))

SetErrorRunL ==
  /\ Alive /\ posted # None
  /\ Becomes(Notified([world EXCEPT !.posted = None], posted))

-----------------------------------------------------------------------------
(* The requests of the engine's active objects complete *)

ResolverRunL(found) ==
  /\ Alive /\ prot.resolving
  /\ found \/ "noHost" \in Env
  /\ LET z == [world EXCEPT !.prot.resolving = FALSE]
     IN Becomes(IF found THEN ConnectTo(z)
                ELSE [ErrorNotification(z, "EHostNotFound") EXCEPT !.prot.state = "EIdle"])

PIConnects(reached) ==
  /\ Alive /\ pi.active /\ pi.state = "EPIChannelConnecting"
  /\ reached \/ "noHost" \in Env
  /\ LET z == [world EXCEPT !.pi.active = FALSE]
         up == [z EXCEPT !.pi.state = "EPIChannelConnected",
                         !.server = [NoServer EXCEPT !.link = "up",
                                       !.cmds = <<[cmd |-> "EConnecting", op |-> client.n, type |-> sess.new]>>]]
     IN Becomes(IF reached THEN UpdateState(GetNextAnswer(up))
                ELSE PIChannelOperationError(z, "EOpConnectionFailed"))

PISends(written) ==
  /\ Alive /\ pi.active /\ pi.state = "EPIChannelSending"
  /\ written \/ "sendFail" \in Env
  /\ LET z == [world EXCEPT !.pi.active = FALSE]
     IN Becomes(IF written THEN UpdateState([z EXCEPT !.pi.state = "EPIChannelConnected"])
                ELSE PIChannelOperationError(z, "EPiSendFailed"))

\* A buffer with the first n answers that have come.
PIReceives(n) ==
  /\ Alive /\ pi.reading /\ n \in DOMAIN server.answers
  /\ LET z == [world EXCEPT !.pi.reading = FALSE, !.server.answers = SubSeq(@, n + 1, Len(@))]
         Parse(answer, w) == UpdateState([w EXCEPT !.prot.answer = answer])
     IN Becomes(GetNextAnswer(FoldLeft(LAMBDA w, answer : Parse(answer, w), z, SubSeq(server.answers, 1, n))))

PIReset ==
  /\ Alive /\ pi.reading /\ server.link = "reset" /\ server.answers = <<>>
  /\ posted = "EFileOpenFailure" => "resetPosted" \in Env
  /\ Becomes(PIChannelOperationError(world, "EOpConnectionReset"))

\* Whether the session waits for a connection or for the server to make one.
DTPConnects(made) ==
  /\ Alive /\ dtp.active /\ dtp.state \in {"EDTPChannelConnecting", "EDTPChannelListening"}
  /\ IF made THEN dtp.state = "EDTPChannelListening" => server.data.open = "yes"
     ELSE "dataFail" \in Env /\ server.data.open = "no"
  /\ LET z == [world EXCEPT !.dtp.active = FALSE, !.dtp.state = "EDTPChannelConnected", !.server.data.open = "yes"]
     IN Becomes(IF ~made THEN ErrorNotification(DtpDisconnect(world), "EXferNotInitialised")
                ELSE IF prot.state \in {"EPerformingList", "EPerformingRetr"} THEN Request(z, "EDTPChannelReceiving")
                ELSE IF prot.state = "EPerformingStor" THEN Request(z, "EDTPChannelSending")
                ELSE z)

DTPReceives ==
  /\ Alive /\ dtp.active /\ dtp.state = "EDTPChannelReceiving" /\ dtp.received < server.data.sent
  /\ Becomes(ServerXFerNotification(
       [world EXCEPT !.dtp.active = FALSE, !.dtp.received = @ + 1,
                     !.sess.buf[prot.io] = dtp.received + 1]))

DTPEnds ==
  /\ Alive /\ dtp.active /\ dtp.state = "EDTPChannelReceiving" /\ dtp.received = server.data.sent
  /\ server.data.closed = "eof"
  /\ Becomes(UpdateState(DtpDisconnect(world)))

DTPSends ==
  /\ Alive /\ dtp.active /\ dtp.state = "EDTPChannelSending" /\ server.data.closed # "reset"
  /\ LET packet == sess.buf[prot.io]
     IN Becomes(ServerXFerNotification(
          [world EXCEPT !.dtp.active = FALSE,
                        !.server.got = IF server.data.closed = "no" /\ packet # 0
                                       THEN Append(@, packet) ELSE @]))

DTPShutsDown ==
  /\ Alive /\ dtp.active /\ dtp.state = "EDTPChannelShutingDown"
  /\ Becomes(UpdateState([DtpDisconnect(world) EXCEPT !.server.data.eof = TRUE]))

DTPIsReset ==
  /\ Alive /\ dtp.active /\ dtp.state \in {"EDTPChannelReceiving", "EDTPChannelSending"}
  /\ server.data.closed = "reset"
  /\ Becomes(DTPChannelAborted(DtpDisconnect(world)))

-----------------------------------------------------------------------------
(* The server and the network *)

Reply(digits, c) == [i \in DOMAIN digits |-> [digit |-> digits[i], cmd |-> c.cmd, op |-> c.op]]

Accepts(cmd) == CASE cmd \in {"EPerformingRnfr", "EPerformingUser"} -> 3 [] cmd \in TransferCommands -> 1 [] OTHER -> 2

\* A command is taken up when no transfer is under way; ABOR at any time.
ServerTakes(accepted) ==
  /\ Alive /\ server.link = "up" /\ server.cmds # <<>>
  /\ LET c == Head(server.cmds)
         digit == IF accepted THEN Accepts(c.cmd) ELSE 5
         aborts == c.cmd = "EPerformingAbor" /\ server.transfer # None
         taken == [server EXCEPT !.cmds = Tail(@), !.answers = @ \o Reply(<<digit>>, c)]
     IN /\ server.transfer = None \/ aborts
        /\ accepted \/ c.cmd # "EPerformingAbor"
        /\ accepted \/ (IF c.cmd \in {"EPerformingType", "EPerformingQuit"} THEN "refuseOdd" ELSE "refuse") \in Env
        /\ \/ /\ ~aborts
              /\ server' = IF c.cmd = "EPerformingType" /\ accepted THEN [taken EXCEPT !.type = c.type]
                           ELSE IF c.cmd \in TransferCommands /\ accepted
                           THEN [taken EXCEPT !.transfer = c.cmd, !.op = c.op]
                           ELSE IF c.cmd \in TransferCommands THEN [taken EXCEPT !.data.closed = "eof"]
                           ELSE taken
           \/ /\ aborts
              /\ \E closed \in {"eof"} \cup (IF "abortResets" \in Env THEN {"reset"} ELSE {}) :
                   server' = [server EXCEPT !.cmds = Tail(@), !.answers = @ \o Reply(<<4, 2>>, c),
                                            !.transfer = None, !.data.closed = closed]
        /\ UNCHANGED <<sess, prot, pi, dtp, posted, local, client, panic>>

ServerActs(new) ==
  /\ Alive /\ server.link = "up" /\ server.transfer # None
  /\ server' = new /\ UNCHANGED <<sess, prot, pi, dtp, posted, local, client, panic>>

ServerConnects ==
  /\ dtp.state = "EDTPChannelListening" /\ dtp.active /\ server.data.open = "no"
  /\ ServerActs([server EXCEPT !.data.open = "yes"])

ServerSends ==
  /\ server.transfer # "EPerformingStor" /\ server.data.open = "yes" /\ server.data.sent < Packets
  /\ ServerActs([server EXCEPT !.data.sent = @ + 1])

\* 2 when all has been sent or the end of the data came, 4 when the data
\* connection was lost.
ServerEnds(digit, closed) ==
  /\ IF digit = 2
     THEN /\ closed = "eof"
          /\ IF server.transfer = "EPerformingStor" THEN server.data.eof
             ELSE server.data.open = "yes" /\ server.data.sent = Packets
     ELSE IF closed = "reset" THEN "dataReset" \in Env /\ server.data.open = "yes"
     ELSE server.data.open = "gone" /\ ~server.data.eof
  /\ ServerActs([server EXCEPT !.transfer = None, !.data.closed = closed,
                   !.answers = @ \o Reply(<<digit>>, [cmd |-> server.transfer, op |-> server.op])])

LinkReset ==
  /\ Alive /\ "reset" \in Env /\ server.link = "up"
  /\ server' = [server EXCEPT !.link = "reset", !.cmds = <<>>, !.answers = <<>>, !.transfer = None]
  /\ UNCHANGED <<sess, prot, pi, dtp, posted, local, client, panic>>

-----------------------------------------------------------------------------
Start ==
  \/ \E pasv, byName \in BOOLEAN : StartConnect(pasv, byName)
  \/ \E op \in DOMAIN Simple : StartSimple(op)
  \/ StartRename \/ StartClose \/ StartList
  \/ \E type \in {"EBinary", "EASCII"}, opens, bad \in BOOLEAN :
       \/ StartStore(type, opens, bad)
       \/ \E exists \in BOOLEAN : StartRetrieve(type, exists, opens, bad)

Engine ==
  \/ SetErrorRunL \/ PIReset
  \/ \E ok \in BOOLEAN : ResolverRunL(ok) \/ PIConnects(ok) \/ PISends(ok) \/ DTPConnects(ok)
  \/ \E n \in 1 .. 3 : PIReceives(n)
  \/ DTPReceives \/ DTPEnds \/ DTPSends \/ DTPShutsDown \/ DTPIsReset

Server ==
  \/ \E accepted \in BOOLEAN : ServerTakes(accepted)
  \/ ServerConnects \/ ServerSends
  \/ \E digit \in {2, 4}, closed \in {"eof", "reset"} : ServerEnds(digit, closed)

Next == Start \/ Cancel \/ ListMore \/ Engine \/ Server \/ LinkReset

Spec == Init /\ [][Next]_vars

\* The engine, the server or a client that was told of more has something to do.
Pending ==
  /\ Alive
  /\ \/ posted # None \/ prot.resolving \/ pi.active
     \/ pi.reading /\ server.answers # <<>>
     \/ pi.reading /\ server.link = "reset" /\ posted # "EFileOpenFailure"
     \/ sess.state = "EPerformingList" /\ client.more
     \/ dtp.active /\ CASE dtp.state = "EDTPChannelListening" -> server.data.open = "yes"
                        [] dtp.state = "EDTPChannelReceiving" ->
                             dtp.received < server.data.sent \/ server.data.closed # "no"
                        [] OTHER -> TRUE
     \/ /\ server.link = "up" /\ server.cmds # <<>>
        /\ server.transfer = None \/ Head(server.cmds).cmd = "EPerformingAbor"
     \/ /\ server.link = "up" /\ server.transfer # None
        /\ \/ dtp.state = "EDTPChannelListening" /\ dtp.active /\ server.data.open = "no"
           \/ server.data.open = "yes" /\ server.transfer # "EPerformingStor"
           \/ server.data.eof \/ server.data.open = "gone"

\* The scheduler runs what completes, the server answers what it is sent, and
\* the client asks for the rest of a list: they do not stop while Pending.
Progress == client'.n = client.n /\ client'.cancelled = client.cancelled /\ server'.link # "reset"
Fairness == []<>~Pending \/ []<><<Progress>>_vars
FairSpec == Spec /\ Fairness

-----------------------------------------------------------------------------
(* Properties *)

\* While an operation is under way, the answer the protocol acts on is the
\* server's answer to the command it sent last (FTPSESS.H: "each notification
\* corresponds to only one currently outstanding operation").  So none of the
\* engine's debug assertions fails (FTPSESS.CPP, FTPPROT.CPP), no request is made
\* on an active object that has one, and no closed file is written.
ReplyMatch ==
  /\ TypeOK /\ Alive
  /\ sess.state \notin Settled /\ prot.answer # NoAnswer =>
       prot.answer.op = client.n /\ (prot.answer.cmd = prot.state \/ prot.state = "EPerformingAbor")

\* A file moves in the representation type the client asked for, as long as the
\* session is not connected a second time.
TypeAgrees ==
  (server.cmds # <<>> /\ Head(server.cmds).cmd \in {"EPerformingRetr", "EPerformingStor"}) =>
    Head(server.cmds).type = server.type

\* A transfer that was reported complete moved every packet, in order: the
\* answer, the end of the data connection and the last packet race.  A local file
\* that a Retrieve replaces is kept until all of the new one is there, and is back
\* in its place when the Retrieve ends otherwise.
Whole == [i \in 1 .. Packets |-> i]
FilesWhole ==
  /\ "reconnect" \in Env \/ TypeAgrees
  /\ (sess.state \in Settled /\ client.notes = {"Complete"}) =>
       /\ client.op = "Retrieve" => local.got = Whole
       /\ client.op = "Store" => server.got = Whole
  /\ local.replaced =>
       IF client.op = "Retrieve" /\ (sess.state \notin Settled \/ posted = "EFileOpenFailure")
       THEN local.backup ELSE local.old \/ local.got = Whole

\* Every operation ends: the session is idle or connected again, and the client
\* was told something.
Answered == (client.op # None /\ Alive) ~> ((sess.state \in Settled /\ client.notes # {}) \/ ~Alive)
=============================================================================
