----------------------- MODULE HttpSubmissionsProofs -----------------------
(***************************************************************************)
(* For every set of transactions: the invariants of HttpSubmissions, and   *)
(* that answers are not reordered.                                         *)
(***************************************************************************)
EXTENDS HttpSubmissions, SequenceTheorems, TLAPS

Inv == TypeOK /\ Waiting /\ NoTwice

\* Dropping the last ones from a queue of waiting transactions without
\* repetitions leaves such a queue.
LEMMA DropKeepsInv ==
  ASSUME NEW queue \in Seq(Tx), NEW t \in Tx,
         \A i \in 1..Len(queue) : status[queue[i]] = "active",
         \A i, j \in 1..Len(queue) : queue[i] = queue[j] => i = j,
         DropFrom(queue, t)
  PROVE  Inv'
<1>1. PICK n \in 0..Len(queue) :
        /\ line' = SubSeq(queue, 1, n)
        /\ \A i \in 1..n : status'[queue[i]] = status[queue[i]]
  BY DEF DropFrom
<1>2. line' \in Seq(Tx) /\ Len(line') = n /\ \A i \in 1..n : line'[i] = queue[i]
  BY <1>1
<1>3. TypeOK'
  BY <1>2 DEF TypeOK, DropFrom
<1>4. Waiting'
  BY <1>1, <1>2 DEF Waiting
<1>5. NoTwice'
  BY <1>1, <1>2 DEF NoTwice
<1> QED BY <1>3, <1>4, <1>5 DEF Inv

\* The line without its first member, or without another one, is a queue of
\* waiting transactions without repetitions.
LEMMA TailWaits ==
  ASSUME Inv, line # <<>>
  PROVE  /\ Tail(line) \in Seq(Tx) /\ Head(line) \in Tx
         /\ \A i \in 1..Len(Tail(line)) : status[Tail(line)[i]] = "active"
         /\ \A i, j \in 1..Len(Tail(line)) : Tail(line)[i] = Tail(line)[j] => i = j
         /\ \A i \in 1..Len(Tail(line)) : Tail(line)[i] = line[i + 1]
         /\ Len(Tail(line)) = Len(line) - 1
  BY DEF Inv, TypeOK, Waiting, NoTwice

\* A sequence without its k-th member: its type, its length and its members.
LEMMA RemoveOne ==
  ASSUME NEW S, NEW q \in Seq(S), NEW k \in 1..Len(q)
  PROVE  LET rest == SubSeq(q, 1, k - 1) \o SubSeq(q, k + 1, Len(q))
         IN  /\ rest \in Seq(S) /\ Len(rest) = Len(q) - 1
             /\ \A i \in 1..Len(rest) : rest[i] = q[IF i < k THEN i ELSE i + 1]
<1> DEFINE front == SubSeq(q, 1, k - 1)
           back  == SubSeq(q, k + 1, Len(q))
           rest  == front \o back
<1>1. front \in Seq(S) /\ Len(front) = k - 1 /\ \A i \in 1..(k - 1) : front[i] = q[i]
  OBVIOUS
<1>2. back \in Seq(S) /\ Len(back) = Len(q) - k
      /\ \A i \in 1..(Len(q) - k) : back[i] = q[k + i]
  OBVIOUS
<1> HIDE DEF front, back
<1>3. rest \in Seq(S)
  BY <1>1, <1>2
<1>4. Len(rest) = Len(front) + Len(back)
  BY <1>1, <1>2, ConcatProperties
<1>5. Len(q) \in Nat /\ k \in Nat /\ Len(rest) = Len(q) - 1
  BY <1>1, <1>2, <1>4
<1>6. ASSUME NEW i \in 1..Len(rest) PROVE rest[i] = q[IF i < k THEN i ELSE i + 1]
  <2>1. CASE i < k
    BY <1>1, <1>2, <1>5, <2>1
  <2>2. CASE ~(i < k)
    <3>1. rest[i] = back[i - Len(front)]
      BY <1>1, <1>2, <1>5, <2>2
    <3>2. i - Len(front) \in 1..(Len(q) - k) /\ k + (i - Len(front)) = i + 1
      BY <1>1, <1>5, <2>2
    <3> QED BY <1>2, <2>2, <3>1, <3>2
  <2> QED BY <2>1, <2>2
<1> QED BY <1>3, <1>5, <1>6 DEF front, back

\* The line without the one that is cancelled: the others wait as before.
LEMMA RestWaits ==
  ASSUME Inv, NEW k \in 1..Len(line)
  PROVE  LET rest == SubSeq(line, 1, k - 1) \o SubSeq(line, k + 1, Len(line))
         IN  /\ rest \in Seq(Tx)
             /\ \A i \in 1..Len(rest) : status[rest[i]] = "active"
             /\ \A i, j \in 1..Len(rest) : rest[i] = rest[j] => i = j
<1> DEFINE rest == SubSeq(line, 1, k - 1) \o SubSeq(line, k + 1, Len(line))
           at(i) == IF i < k THEN i ELSE i + 1
<1>1. line \in Seq(Tx) /\ Len(line) \in Nat /\ k \in Nat
  BY DEF Inv, TypeOK
<1>2. /\ rest \in Seq(Tx) /\ Len(rest) = Len(line) - 1
      /\ \A i \in 1..Len(rest) : rest[i] = line[at(i)]
  BY <1>1, RemoveOne
<1> HIDE DEF rest
<1>3. \A i \in 1..Len(rest) : at(i) \in 1..Len(line)
  BY <1>1, <1>2
<1>4. \A i, j \in 1..Len(rest) : at(i) = at(j) => i = j
  BY <1>1, <1>2
<1>5. \A i \in 1..Len(rest) : status[rest[i]] = "active"
  BY <1>2, <1>3 DEF Inv, Waiting
<1>6. \A i, j \in 1..Len(rest) : rest[i] = rest[j] => i = j
  BY <1>2, <1>3, <1>4 DEF Inv, NoTwice
<1> QED BY <1>2, <1>5, <1>6 DEF rest

\* The line itself is a queue of waiting transactions without repetitions.
LEMMA LineWaits ==
  ASSUME Inv
  PROVE  /\ line \in Seq(Tx)
         /\ \A i \in 1..Len(line) : status[line[i]] = "active"
         /\ \A i, j \in 1..Len(line) : line[i] = line[j] => i = j
  BY DEF Inv, TypeOK, Waiting, NoTwice

\* Whoever is submitted joins the line, where it was not: it did not wait.
LEMMA SubmitKeepsInv ==
  ASSUME Inv, NEW t \in Tx, Submit(t)
  PROVE  Inv'
<1>1. line' \in Seq(Tx) /\ Len(line') = Len(line) + 1 /\ line'[Len(line) + 1] = t
      /\ \A i \in 1..Len(line) : line'[i] = line[i] /\ line[i] \in Tx
  BY DEF Inv, TypeOK, Submit
<1>2. \A i \in 1..Len(line) : line[i] # t
  BY DEF Inv, Waiting, Submit
<1>3. status' \in [Tx -> Statuses] /\ status'[t] = "active"
      /\ \A u \in Tx \ {t} : status'[u] = status[u]
  BY DEF Inv, TypeOK, Submit, Statuses
<1>4. TypeOK'
  BY <1>1, <1>3 DEF TypeOK
<1>5. Waiting'
  BY <1>1, <1>2, <1>3 DEF Inv, Waiting, TypeOK
<1>6. NoTwice'
  BY <1>1, <1>2 DEF Inv, NoTwice, TypeOK
<1> QED BY <1>4, <1>5, <1>6 DEF Inv

\* Every step keeps the invariant.
LEMMA StepKeepsInv ==
  ASSUME Inv, [Next]_vars
  PROVE  Inv'
<1>1. CASE Answer
  BY <1>1, TailWaits, DropKeepsInv DEF Answer
<1>2. CASE Lose
  <2>1. Head(line) \in Tx
    BY <1>2, TailWaits DEF Lose
  <2> QED BY <1>2, <2>1, LineWaits, DropKeepsInv DEF Lose
<1>3. ASSUME NEW t \in Tx, Submit(t) PROVE Inv'
  BY <1>3, SubmitKeepsInv
<1>4. ASSUME NEW t \in Tx, Read(t) PROVE Inv'
  BY <1>4, LineWaits, DropKeepsInv DEF Read
<1>5. ASSUME NEW t \in Tx, Cancel(t) PROVE Inv'
  <2>1. CASE DropFrom(line, t)
    BY <2>1, LineWaits, DropKeepsInv
  <2>2. CASE \E k \in 1..Len(line) :
               DropFrom(SubSeq(line, 1, k - 1) \o SubSeq(line, k + 1, Len(line)), t)
    <3>1. PICK k \in 1..Len(line) :
            DropFrom(SubSeq(line, 1, k - 1) \o SubSeq(line, k + 1, Len(line)), t)
      BY <2>2
    <3> DEFINE rest == SubSeq(line, 1, k - 1) \o SubSeq(line, k + 1, Len(line))
    <3>2. /\ rest \in Seq(Tx)
          /\ \A i \in 1..Len(rest) : status[rest[i]] = "active"
          /\ \A i, j \in 1..Len(rest) : rest[i] = rest[j] => i = j
      BY RestWaits
    <3>3. DropFrom(rest, t)
      BY <3>1
    <3> HIDE DEF rest
    <3> QED BY <3>2, <3>3, DropKeepsInv
  <2> QED BY <1>5, <2>1, <2>2 DEF Cancel
<1>6. CASE UNCHANGED vars
  BY <1>6 DEF Inv, TypeOK, Waiting, NoTwice, vars
<1> QED BY <1>1, <1>2, <1>3, <1>4, <1>5, <1>6 DEF Next

\* Throughout every behaviour the line holds transactions without an outcome,
\* each of them once, however often transactions are submitted again.
THEOREM LineInvariant == Spec => [](TypeOK /\ Waiting /\ NoTwice)
<1>1. Init => Inv
  BY DEF Init, Inv, TypeOK, Waiting, NoTwice, Statuses
<1>2. Inv /\ [Next]_vars => Inv'
  BY StepKeepsInv
<1> QED BY <1>1, <1>2, PTL DEF Spec, Inv

\* Nobody in a queue that only loses its last ones completes.
LEMMA DropCompletesNobody ==
  ASSUME NEW queue \in Seq(Tx), NEW t \in Tx,
         \A i \in 1..Len(queue) : status[queue[i]] = "active",
         DropFrom(queue, t),
         NEW j \in 1..Len(queue)
  PROVE  status'[queue[j]] # "completed"
<1>1. PICK n \in 0..Len(queue) :
        /\ \A i \in 1..n : status'[queue[i]] = status[queue[i]]
        /\ \A i \in (n + 1)..Len(queue) : status'[queue[i]] \in {"retry", "failed"}
  BY DEF DropFrom
<1>2. j \in 1..n \/ j \in (n + 1)..Len(queue)
  OBVIOUS
<1> QED BY <1>1, <1>2

\* No step completes one that is not the first of the line.
LEMMA StepCompletesFirst ==
  ASSUME Inv, Next, NEW i \in 1..Len(line), status'[line[i]] = "completed"
  PROVE  i = 1
<1> SUFFICES ASSUME i # 1 PROVE FALSE
  OBVIOUS
<1>1. line \in Seq(Tx) /\ Len(line) \in Nat /\ line[i] \in Tx /\ status[line[i]] = "active"
  BY DEF Inv, TypeOK, Waiting
<1>2. CASE Answer
  <2> DEFINE rest == Tail(line)
  <2>1. i - 1 \in 1..Len(rest) /\ rest[i - 1] = line[i]
    BY <1>1, <1>2, TailWaits DEF Answer
  <2>2. /\ rest \in Seq(Tx) /\ Head(line) \in Tx
        /\ \A j \in 1..Len(rest) : status[rest[j]] = "active"
        /\ DropFrom(rest, Head(line))
    BY <1>2, TailWaits DEF Answer
  <2> HIDE DEF rest
  <2> QED BY <2>1, <2>2, DropCompletesNobody
<1>3. CASE Lose
  <2>1. Head(line) \in Tx
    BY <1>3, TailWaits DEF Lose
  <2> QED BY <1>3, <2>1, LineWaits, DropCompletesNobody DEF Lose
<1>4. ASSUME NEW t \in Tx, Submit(t) PROVE FALSE
  BY <1>1, <1>4 DEF Submit, Inv, TypeOK
<1>5. ASSUME NEW t \in Tx, Read(t) PROVE FALSE
  BY <1>5, LineWaits, DropCompletesNobody DEF Read
<1>6. ASSUME NEW t \in Tx, Cancel(t) PROVE FALSE
  <2>1. CASE DropFrom(line, t)
    BY <2>1, LineWaits, DropCompletesNobody
  <2>2. ASSUME NEW k \in 1..Len(line), line[k] = t,
               DropFrom(SubSeq(line, 1, k - 1) \o SubSeq(line, k + 1, Len(line)), t)
        PROVE  FALSE
    <3> DEFINE rest == SubSeq(line, 1, k - 1) \o SubSeq(line, k + 1, Len(line))
    <3>1. i # k
      BY <1>6, <2>2 DEF Cancel
    <3>2. /\ rest \in Seq(Tx) /\ Len(rest) = Len(line) - 1
          /\ \A j \in 1..Len(rest) : rest[j] = line[IF j < k THEN j ELSE j + 1]
      BY <1>1, RemoveOne
    <3>3. \A j \in 1..Len(rest) : status[rest[j]] = "active"
      BY RestWaits
    <3>4. DropFrom(rest, t)
      BY <2>2
    <3> HIDE DEF rest
    <3>5. PICK j \in 1..Len(rest) : rest[j] = line[i]
      <4>1. CASE i < k
        BY <1>1, <3>2, <4>1
      <4>2. CASE i > k
        <5>1. i - 1 \in 1..Len(rest) /\ ~(i - 1 < k) /\ (i - 1) + 1 = i
          BY <1>1, <3>2, <4>2
        <5> QED BY <3>2, <5>1
      <4> QED BY <1>1, <3>1, <4>1, <4>2
    <3> QED BY <3>2, <3>3, <3>4, <3>5, DropCompletesNobody
  <2> QED BY <1>6, <2>1, <2>2 DEF Cancel
<1> QED BY <1>2, <1>3, <1>4, <1>5, <1>6 DEF Next

\* In no step of any behaviour does an answer overtake one that is due before
\* it: of those in the line only the first completes.
THEOREM NoOvertaking == Spec => OnlyFirstCompletes
<1>1. Inv /\ [Next]_vars
      => [\A i \in 1..Len(line) : status'[line[i]] = "completed" => i = 1]_vars
  BY StepCompletesFirst
<1>2. Spec => []Inv
  BY LineInvariant, PTL DEF Inv
<1> QED BY <1>1, <1>2, PTL DEF Spec, OnlyFirstCompletes
=============================================================================
