-------------------------- MODULE HttpSubmissions --------------------------
(***************************************************************************)
(* What a connection promises the HTTP client protocol handler about the   *)
(* transactions submitted to it, whatever becomes of its sockets: they     *)
(* wait for their answers in one line, in the order of submission; only    *)
(* the first one is answered; whoever loses its place is told so (and may  *)
(* be submitted again), and places are lost from the end of the line       *)
(* forward, never out of the middle of it, unless the client cancels.      *)
(*                                                                         *)
(* HttpConnectionManager implements this: the property Submissions there.  *)
(***************************************************************************)
EXTENDS Naturals, Sequences

CONSTANTS Tx

VARIABLES
  status,  \* what the client knows of each transaction
  line     \* iCurrentResponse and iPendingResponses: the answers to come

vars == <<status, line>>

Statuses == {"new", "active", "completed", "failed", "retry", "cancelled"}

TypeOK == status \in [Tx -> Statuses] /\ line \in Seq(Tx)

Init == status = [t \in Tx |-> "new"] /\ line = <<>>

\* The last ones of the queue are dropped and told so; the others stay.  Nothing
\* changes for anyone else, except for t, which is not in the queue.
DropFrom(queue, t) ==
  /\ status' \in [Tx -> Statuses]
  /\ \E n \in 0..Len(queue) :
       /\ line' = SubSeq(queue, 1, n)
       /\ \A i \in 1..n : status'[queue[i]] = status[queue[i]]
       /\ \A i \in (n + 1)..Len(queue) : status'[queue[i]] \in {"retry", "failed"}
  /\ \A u \in Tx \ {t} : (\A i \in 1..Len(queue) : queue[i] # u) => status'[u] = status[u]

Submit(t) ==
  /\ status[t] \in {"new", "retry"}
  /\ status' = [status EXCEPT ![t] = "active"]
  /\ line' = Append(line, t)

\* The first answer is complete; the client may have more of it to read.
Answer ==
  /\ line # <<>>
  /\ DropFrom(Tail(line), Head(line))
  /\ status'[Head(line)] \in {"active", "completed"}

\* The client has read the rest of an answer.
Read(t) ==
  /\ status[t] = "active" /\ \A i \in 1..Len(line) : line[i] # t
  /\ DropFrom(line, t)
  /\ status'[t] = "completed"

\* The connection is lost, or will not be used again.
Lose == line # <<>> /\ DropFrom(line, Head(line))

\* The client cancels, or the answer is malformed.
Cancel(t) ==
  /\ status[t] = "active"
  /\ \/ DropFrom(line, t) /\ \A i \in 1..Len(line) : line[i] # t
     \/ \E i \in 1..Len(line) :
          /\ line[i] = t
          /\ DropFrom(SubSeq(line, 1, i - 1) \o SubSeq(line, i + 1, Len(line)), t)
  /\ status'[t] \in {"cancelled", "failed"}

Next == Answer \/ Lose \/ \E t \in Tx : Submit(t) \/ Read(t) \/ Cancel(t)

Spec == Init /\ [][Next]_vars

-----------------------------------------------------------------------------
\* Whoever is in the line has no outcome yet: an outcome, whoever causes it,
\* takes a transaction out of iCurrentResponse and iPendingResponses.
Waiting == \A i \in 1..Len(line) : status[line[i]] = "active"

\* No transaction has two places, whatever is submitted again.
NoTwice == \A i, j \in 1..Len(line) : line[i] = line[j] => i = j

\* Answers are not reordered: of those who wait only the first one completes.
OnlyFirstCompletes ==
  [][\A i \in 1..Len(line) : status'[line[i]] = "completed" => i = 1]_vars
=============================================================================
