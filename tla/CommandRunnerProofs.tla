------------------------- MODULE CommandRunnerProofs -------------------------
(***************************************************************************)
(* Theorems about CommandRunner, for every set of outputs, any number of    *)
(* commands and any capacity of the pipes.                                  *)
(***************************************************************************)
EXTENDS CommandRunner, TLAPS

LEMMA SeqFacts ==
    ASSUME NEW S, NEW s \in Seq(S)
    PROVE  /\ Len(s) \in Nat
           /\ \A x \in S : Append(s, x) \in Seq(S)
           /\ s # <<>> => Head(s) \in S /\ Tail(s) \in Seq(S)
           /\ \A n \in 1..Len(s), m \in Int :
                 SubSeq(s, 1, n) \in Seq(S)
                 /\ (m \in {n, n + 1} => SubSeq(s, m, Len(s)) \in Seq(S))
  OBVIOUS

LEMMA NothingTyped == Nothing \in [Pipes -> Seq(Line)]
<1>1. <<>> \in Seq(Line)
  OBVIOUS
<1>. QED  BY <1>1 DEF Nothing

LEMMA ReadTyped ==
    ASSUME RunnerTypeOK, NEW p \in Pipes, Read(p) PROVE RunnerTypeOK'
<1>1. PICK n \in 1..Len(pipe[p]) :
          /\ buf' = [buf EXCEPT ![p] = SubSeq(pipe[p], 1, n)]
          /\ pipe' = [pipe EXCEPT ![p] =
                 SubSeq(@, IF @[n] = "long" THEN n ELSE n + 1, Len(@))]
  BY DEF Read
<1>2. pipe[p] \in Seq(Line)
  BY DEF RunnerTypeOK
<1>3. SubSeq(pipe[p], 1, n) \in Seq(Line)
  BY <1>2, SeqFacts
<1>4. SubSeq(pipe[p], IF pipe[p][n] = "long" THEN n ELSE n + 1, Len(pipe[p])) \in Seq(Line)
  BY <1>2, SeqFacts
<1>. QED
  BY <1>1, <1>3, <1>4 DEF RunnerTypeOK, Read, workerVars, childVars

LEMMA WorkerTyped == ASSUME RunnerTypeOK, Worker PROVE RunnerTypeOK'
<1>. USE DEF RunnerTypeOK, workerVars, childVars, readerVars
<1>1. ASSUME NEW output \in Outputs, Start(output) PROVE RunnerTypeOK'
  BY <1>1, OutputAssumption, NothingTyped DEF Start
<1>2. CASE StartFails
  BY <1>2 DEF StartFails
<1>3. CASE WaitReturns
  BY <1>3 DEF WaitReturns
<1>4. CASE CollectReaders
  BY <1>4 DEF CollectReaders
<1>5. CASE CheckResult
  BY <1>5, StepAssumption DEF CheckResult
<1>. QED  BY <1>1, <1>2, <1>3, <1>4, <1>5 DEF Worker

LEMMA TypeStep == RunnerTypeOK /\ [Next]_vars => RunnerTypeOK'
<1>. SUFFICES ASSUME RunnerTypeOK, [Next]_vars PROVE RunnerTypeOK'
  OBVIOUS
<1>1. CASE Worker
  BY <1>1, WorkerTyped
<1>2. CASE Expire
  BY <1>2 DEF Expire, RunnerTypeOK, workerVars, childVars, readerVars
<1>3. CASE Kill \/ KillRefused
  BY <1>3 DEF Kill, KillRefused, RunnerTypeOK, workerVars, childVars, readerVars
<1>4. CASE ChildWrites
  <2>. DEFINE Item == [pipe : Pipes, line : Line]
  <2>1. Head(todo) \in Item /\ Tail(todo) \in Seq(Item)
    <3>1. todo \in Seq(Item) /\ todo # <<>>
      BY <1>4 DEF ChildWrites, RunnerTypeOK
    <3>. HIDE DEF Item
    <3>. QED  BY <3>1, SeqFacts
  <2>2. \A p \in Pipes : /\ Append(pipe[p], Head(todo).line) \in Seq(Line)
                         /\ Append(wrote[p], Head(todo).line) \in Seq(Line)
    BY <2>1, SeqFacts DEF RunnerTypeOK
  <2>. QED  BY <1>4, <2>1, <2>2
            DEF ChildWrites, RunnerTypeOK, workerVars, readerVars
<1>5. CASE ChildExits
  BY <1>5 DEF ChildExits, RunnerTypeOK, workerVars, childVars, readerVars
<1>6. ASSUME NEW p \in Pipes, StreamPipe(p) PROVE RunnerTypeOK'
  <2>1. CASE Read(p)
    BY <2>1, ReadTyped
  <2>2. CASE LogLine(p)
    <3>1. Tail(buf[p]) \in Seq(Line) /\ Append(logged[p], "short") \in Seq(Line)
      BY <2>2, SeqFacts DEF LogLine, RunnerTypeOK, Line
    <3>. QED  BY <2>2, <3>1 DEF LogLine, RunnerTypeOK, workerVars, childVars
  <2>3. CASE EndOfPipe(p)
    BY <2>3 DEF EndOfPipe, RunnerTypeOK, workerVars, childVars
  <2>. QED  BY <1>6, <2>1, <2>2, <2>3 DEF StreamPipe
<1>7. CASE UNCHANGED vars
  BY <1>7 DEF vars, RunnerTypeOK
<1>. QED
  BY <1>1, <1>2, <1>3, <1>4, <1>5, <1>6, <1>7 DEF Next

LEMMA InitTyped == Init => RunnerTypeOK
<1>1. <<>> \in Seq([pipe : Pipes, line : Line])
    OBVIOUS
<1>2. 1 \in 1..Steps
    BY StepAssumption
<1>3. [p \in Pipes |-> "stopped"] \in [Pipes -> {"reading", "stopped"}]
    OBVIOUS
<1>. QED  BY <1>1, <1>2, <1>3, NothingTyped DEF Init, RunnerTypeOK

\* Every variable of CommandRunner keeps its type.
THEOREM Typing == Spec => []RunnerTypeOK
<1>1. Init => RunnerTypeOK
  BY InitTyped
<1>2. RunnerTypeOK /\ [Next]_vars => RunnerTypeOK'
  BY TypeStep
<1>. QED  BY <1>1, <1>2, PTL DEF Spec

-----------------------------------------------------------------------------
(* A command is killed at the deadline only; from then on its result is the *)
(* signal, until the build has its verdict. The context's error and a refused*)
(* kill are results of a build that is over its deadline, too.               *)

DeadlineInv ==
    /\ child = "running" => pc = "wait"
    /\ child = "killed" =>
          /\ expired
          /\ pc \in {"collect", "check"} => result = "signal"
          /\ pc = "done" => verdict = "timeout"
    /\ result \in {"deadline", "refused"} =>
          expired /\ (pc = "done" => verdict = "timeout")

LEMMA DeadlineStep == DeadlineInv /\ [Next]_vars => DeadlineInv'
<1>. SUFFICES ASSUME DeadlineInv, [Next]_vars PROVE DeadlineInv'
  OBVIOUS
<1>. USE DEF DeadlineInv, workerVars, childVars, readerVars
<1>1. ASSUME NEW output \in Outputs, Start(output) PROVE DeadlineInv'
  BY <1>1 DEF Start
<1>2. CASE StartFails
  BY <1>2 DEF StartFails
<1>3. CASE WaitReturns
  BY <1>3 DEF WaitReturns
<1>4. CASE CollectReaders
  BY <1>4 DEF CollectReaders
<1>5. CASE CheckResult
  BY <1>5 DEF CheckResult, IsTimeoutError
<1>6. CASE Expire
  BY <1>6 DEF Expire
<1>7. CASE Kill \/ KillRefused
  BY <1>7 DEF Kill, KillRefused
<1>8. CASE ChildWrites \/ ChildExits
  BY <1>8 DEF ChildWrites, ChildExits
<1>9. ASSUME NEW p \in Pipes, StreamPipe(p) PROVE DeadlineInv'
  BY <1>9 DEF StreamPipe, Read, LogLine, EndOfPipe
<1>10. CASE UNCHANGED vars
  BY <1>10 DEF vars
<1>. QED
  BY <1>1, <1>2, <1>3, <1>4, <1>5, <1>6, <1>7, <1>8, <1>9, <1>10 DEF Next, Worker

\* A build whose command was killed at its deadline, or did well after a kill that
\* was refused, is reported as timed out.
THEOREM KillIsReported == Spec => []KilledIsTimeout
<1>1. Init => DeadlineInv
  BY DEF Init, DeadlineInv
<1>2. DeadlineInv /\ [Next]_vars => DeadlineInv'
  BY DeadlineStep
<1>3. DeadlineInv => KilledIsTimeout
  BY DEF DeadlineInv, KilledIsTimeout
<1>. QED  BY <1>1, <1>2, <1>3, PTL DEF Spec
-----------------------------------------------------------------------------
(* The lines of a stream are, in order: in the log, in the Scanner, in the   *)
(* pipe, until a long line is met. What is in the log never changes.          *)

\* s stands in w from position k + 1 on.
Occurs(s, w, k) == /\ k + Len(s) <= Len(w)
                   /\ \A i \in 1..Len(s) : s[i] = w[k + i]

\* The first n lines of s fit the Scanner's buffer.
Short(s, n) == \A i \in 1..n : s[i] = "short"

StreamInv(p) ==
    /\ Occurs(logged[p], wrote[p], 0)
    /\ reader[p] = "reading" =>
          /\ Occurs(buf[p], wrote[p], Len(logged[p]))
          /\ Short(buf[p], Len(buf[p]) - 1)
          /\ Short(buf[p], Len(buf[p])) =>
                /\ Len(wrote[p]) = Len(logged[p]) + Len(buf[p]) + Len(pipe[p])
                /\ Occurs(pipe[p], wrote[p], Len(logged[p]) + Len(buf[p]))

LogInv == RunnerTypeOK /\ \A p \in Pipes : StreamInv(p)

\* An appended line is the last; those before it stay.
LEMMA AppendFacts ==
    ASSUME NEW S, NEW s \in Seq(S), NEW x \in S
    PROVE  /\ Len(Append(s, x)) = Len(s) + 1
           /\ \A i \in 1..Len(s) : Append(s, x)[i] = s[i]
           /\ Append(s, x)[Len(s) + 1] = x
  OBVIOUS

LEMMA TailFacts ==
    ASSUME NEW S, NEW s \in Seq(S), s # <<>>
    PROVE  /\ Len(Tail(s)) = Len(s) - 1
           /\ Head(s) = s[1]
           /\ \A i \in 1..(Len(s) - 1) : Tail(s)[i] = s[i + 1]
  OBVIOUS

LEMMA SubSeqFacts ==
    ASSUME NEW S, NEW s \in Seq(S), NEW n \in 1..Len(s)
    PROVE  /\ Len(SubSeq(s, 1, n)) = n
           /\ \A i \in 1..n : SubSeq(s, 1, n)[i] = s[i]
           /\ Len(SubSeq(s, n + 1, Len(s))) = Len(s) - n
           /\ \A i \in 1..(Len(s) - n) : SubSeq(s, n + 1, Len(s))[i] = s[n + i]
<1>1. SubSeq(s, 1, n) = [i \in 1..n |-> s[i]]
  OBVIOUS
<1>2. SubSeq(s, n + 1, Len(s)) = [i \in 1..(Len(s) - n) |-> s[n + i]]
  OBVIOUS
<1>. QED  BY <1>1, <1>2

\* What occurs in a stream occurs in it when the stream has grown.
LEMMA OccursInMore ==
    ASSUME NEW s \in Seq(Line), NEW w \in Seq(Line), NEW k \in Nat, NEW x \in Line,
           Occurs(s, w, k)
    PROVE  Occurs(s, Append(w, x), k)
<1>1. Len(s) \in Nat /\ Len(w) \in Nat
  BY SeqFacts
<1>2. \A i \in 1..Len(s) : k + i \in 1..Len(w)
  BY <1>1 DEF Occurs
<1>. QED  BY <1>1, <1>2, AppendFacts DEF Occurs

\* A line written at the end of both.
LEMMA OccursAtEnd ==
    ASSUME NEW s \in Seq(Line), NEW w \in Seq(Line), NEW k \in Nat, NEW x \in Line,
           Occurs(s, w, k), Len(w) = k + Len(s)
    PROVE  Occurs(Append(s, x), Append(w, x), k)
<1>1. Len(s) \in Nat /\ Len(w) \in Nat
  BY SeqFacts
<1>. DEFINE s1 == Append(s, x)
            w1 == Append(w, x)
<1>2. Len(s1) = Len(s) + 1 /\ Len(w1) = Len(w) + 1
  BY AppendFacts
<1>3. Occurs(s, w1, k)
  BY OccursInMore
<1>4. /\ \A i \in 1..Len(s) : s1[i] = s[i]
      /\ s1[Len(s) + 1] = x /\ w1[Len(w) + 1] = x
  BY AppendFacts
<1>. HIDE DEF s1, w1
<1>5. ASSUME NEW i \in 1..Len(s1) PROVE s1[i] = w1[k + i]
  <2>1. CASE i \in 1..Len(s)
    BY <1>3, <1>4, <2>1 DEF Occurs
  <2>2. CASE i = Len(s) + 1
    <3>1. k + i = Len(w) + 1
      BY <1>1, <2>2
    <3>. QED  BY <1>4, <2>2, <3>1
  <2>. QED  BY <1>1, <1>2, <2>1, <2>2
<1>6. k + Len(s1) <= Len(w1)
  BY <1>1, <1>2
<1>7. Occurs(s1, w1, k)
  BY <1>5, <1>6 DEF Occurs
<1>. QED  BY <1>7 DEF s1, w1

\* A read splits the pipe's stream into what is read and what is left.
LEMMA OccursSplit ==
    ASSUME NEW s \in Seq(Line), NEW w \in Seq(Line), NEW k \in Nat,
           NEW n \in 1..Len(s), Occurs(s, w, k)
    PROVE  /\ Occurs(SubSeq(s, 1, n), w, k)
           /\ Occurs(SubSeq(s, n + 1, Len(s)), w, k + n)
<1>1. Len(s) \in Nat /\ Len(w) \in Nat
  BY SeqFacts
<1>. DEFINE a == SubSeq(s, 1, n)
            b == SubSeq(s, n + 1, Len(s))
<1>2. /\ Len(a) = n /\ \A i \in 1..n : a[i] = s[i]
      /\ Len(b) = Len(s) - n /\ \A i \in 1..(Len(s) - n) : b[i] = s[n + i]
  BY SubSeqFacts
<1>. HIDE DEF a, b
<1>3. Occurs(a, w, k)
  BY <1>1, <1>2 DEF Occurs
<1>4. ASSUME NEW i \in 1..(Len(s) - n) PROVE b[i] = w[(k + n) + i]
  <2>1. n + i \in 1..Len(s) /\ k + (n + i) = (k + n) + i
    BY <1>1
  <2>. QED  BY <1>2, <2>1 DEF Occurs
<1>5. (k + n) + Len(b) <= Len(w)
  BY <1>1, <1>2 DEF Occurs
<1>6. Occurs(b, w, k + n)
  BY <1>2, <1>4, <1>5 DEF Occurs
<1>. QED  BY <1>3, <1>6 DEF a, b

\* A line moves from the head of the Scanner's buffer to the log.
LEMMA OccursMoved ==
    ASSUME NEW l \in Seq(Line), NEW b \in Seq(Line), NEW w \in Seq(Line), b # <<>>,
           Occurs(l, w, 0), Occurs(b, w, Len(l))
    PROVE  /\ Occurs(Append(l, Head(b)), w, 0)
           /\ Occurs(Tail(b), w, Len(l) + 1)
<1>1. Len(l) \in Nat /\ Len(b) \in Nat \ {0} /\ Len(w) \in Nat /\ Head(b) \in Line
  BY SeqFacts
<1>. DEFINE l1 == Append(l, Head(b))
            b1 == Tail(b)
<1>2. /\ Len(l1) = Len(l) + 1 /\ l1[Len(l) + 1] = Head(b)
      /\ \A i \in 1..Len(l) : l1[i] = l[i]
  BY <1>1, AppendFacts
<1>3. /\ Len(b1) = Len(b) - 1 /\ Head(b) = b[1]
      /\ \A i \in 1..(Len(b) - 1) : b1[i] = b[i + 1]
  BY TailFacts
<1>. HIDE DEF l1, b1
<1>4. ASSUME NEW i \in 1..Len(l1) PROVE l1[i] = w[0 + i]
  <2>1. CASE i \in 1..Len(l)
    BY <1>2, <2>1 DEF Occurs
  <2>2. CASE i = Len(l) + 1
    <3>1. 1 \in 1..Len(b) /\ 0 + i = Len(l) + 1
      BY <1>1, <2>2
    <3>. QED  BY <1>2, <1>3, <2>2, <3>1 DEF Occurs
  <2>. QED  BY <1>1, <1>2, <2>1, <2>2
<1>5. ASSUME NEW i \in 1..Len(b1) PROVE b1[i] = w[(Len(l) + 1) + i]
  <2>1. i + 1 \in 1..Len(b) /\ Len(l) + (i + 1) = (Len(l) + 1) + i
    BY <1>1, <1>3
  <2>2. i \in 1..(Len(b) - 1)
    BY <1>3
  <2>. QED  BY <1>3, <2>1, <2>2 DEF Occurs
<1>6. 0 + Len(l1) <= Len(w) /\ (Len(l) + 1) + Len(b1) <= Len(w)
  BY <1>1, <1>2, <1>3 DEF Occurs
<1>7. Occurs(l1, w, 0)
  BY <1>4, <1>6 DEF Occurs
<1>8. Occurs(b1, w, Len(l) + 1)
  BY <1>5, <1>6 DEF Occurs
<1>. QED  BY <1>7, <1>8 DEF l1, b1

\* The arithmetic of the lengths.
LEMMA SumInNat == \A a, b \in Nat : a + b \in Nat
  OBVIOUS

LEMMA SumShift ==
    \A a, b, c \in Nat : (a + b + c) + 1 = a + b + (c + 1)
  OBVIOUS

LEMMA SumSplit == \A a, c, n \in Nat : a + c = a + n + (c - n)
  OBVIOUS

LEMMA SumMoved == \A a, b \in Nat : (a + 1) + (b - 1) = a + b
  OBVIOUS

LEMMA WriteKeeps ==
    ASSUME LogInv, ChildWrites, NEW p \in Pipes PROVE StreamInv(p)'
<1>. DEFINE q == Head(todo).pipe
            x == Head(todo).line
<1>1. /\ pipe' = [pipe EXCEPT ![q] = Append(@, x)]
      /\ wrote' = [wrote EXCEPT ![q] = Append(@, x)]
      /\ UNCHANGED <<buf, logged, reader>>
  BY DEF ChildWrites, readerVars
<1>2. /\ logged[p] \in Seq(Line) /\ wrote[p] \in Seq(Line)
      /\ buf[p] \in Seq(Line) /\ pipe[p] \in Seq(Line)
      /\ pipe \in [Pipes -> Seq(Line)] /\ wrote \in [Pipes -> Seq(Line)]
  BY DEF LogInv, RunnerTypeOK
<1>3. x \in Line
  <2>. DEFINE Item == [pipe : Pipes, line : Line]
  <2>1. Head(todo) \in Item
    <3>1. todo \in Seq(Item) /\ todo # <<>>
      BY DEF ChildWrites, LogInv, RunnerTypeOK
    <3>. HIDE DEF Item
    <3>. QED  BY <3>1, SeqFacts
  <2>. QED  BY <2>1
<1>4. StreamInv(p)
  BY DEF LogInv
<1>. HIDE DEF q, x
<1>5. CASE p # q
  <2>1. pipe'[p] = pipe[p] /\ wrote'[p] = wrote[p]
    BY <1>1, <1>2, <1>5
  <2>. QED  BY <1>1, <1>4, <2>1 DEF StreamInv
<1>6. CASE p = q
  <2>1. pipe'[p] = Append(pipe[p], x) /\ wrote'[p] = Append(wrote[p], x)
    BY <1>1, <1>2, <1>6
  <2>2. Len(pipe'[p]) = Len(pipe[p]) + 1 /\ Len(wrote'[p]) = Len(wrote[p]) + 1
    BY <1>2, <1>3, <2>1, AppendFacts
  <2>3. /\ Len(logged[p]) \in Nat /\ Len(wrote[p]) \in Nat
        /\ Len(buf[p]) \in Nat /\ Len(pipe[p]) \in Nat
    BY <1>2, SeqFacts
  <2>4. Occurs(logged[p], wrote'[p], 0)
    BY <1>2, <1>3, <1>4, <2>1, OccursInMore DEF StreamInv
  <2>5. ASSUME reader[p] = "reading" PROVE Occurs(buf[p], wrote'[p], Len(logged[p]))
    BY <1>2, <1>3, <1>4, <2>1, <2>3, <2>5, OccursInMore DEF StreamInv
  <2>6. ASSUME reader[p] = "reading", Short(buf[p], Len(buf[p]))
        PROVE  /\ Len(wrote'[p]) = Len(logged[p]) + Len(buf[p]) + Len(pipe'[p])
               /\ Occurs(pipe'[p], wrote'[p], Len(logged[p]) + Len(buf[p]))
    <3>1. /\ Len(wrote[p]) = Len(logged[p]) + Len(buf[p]) + Len(pipe[p])
          /\ Occurs(pipe[p], wrote[p], Len(logged[p]) + Len(buf[p]))
      BY <1>4, <2>6 DEF StreamInv
    <3>2. Len(logged[p]) + Len(buf[p]) \in Nat
      BY <2>3, SumInNat
    <3>3. Occurs(pipe'[p], wrote'[p], Len(logged[p]) + Len(buf[p]))
      BY <1>2, <1>3, <2>1, <2>3, <3>1, <3>2, OccursAtEnd
    <3>4. Len(wrote[p]) + 1 = Len(logged[p]) + Len(buf[p]) + (Len(pipe[p]) + 1)
      <4>1. Len(wrote[p]) = Len(logged[p]) + Len(buf[p]) + Len(pipe[p])
        BY <3>1
      <4>2. (Len(logged[p]) + Len(buf[p]) + Len(pipe[p])) + 1
            = Len(logged[p]) + Len(buf[p]) + (Len(pipe[p]) + 1)
        BY <2>3, SumShift
      <4>. QED  BY <4>1, <4>2, Zenon
    <3>. QED  BY <2>2, <3>3, <3>4, Zenon
  <2>. QED  BY <1>1, <1>4, <2>4, <2>5, <2>6 DEF StreamInv
<1>. QED  BY <1>5, <1>6

LEMMA ReadKeeps ==
    ASSUME LogInv, NEW q \in Pipes, Read(q), NEW p \in Pipes PROVE StreamInv(p)'
<1>1. PICK n \in 1..Len(pipe[q]) :
          /\ \A i \in 1..(n - 1) : pipe[q][i] = "short"
          /\ buf' = [buf EXCEPT ![q] = SubSeq(pipe[q], 1, n)]
          /\ pipe' = [pipe EXCEPT ![q] =
                 SubSeq(@, IF @[n] = "long" THEN n ELSE n + 1, Len(@))]
  BY DEF Read
<1>2. /\ logged[p] \in Seq(Line) /\ wrote[p] \in Seq(Line)
      /\ buf[p] \in Seq(Line) /\ pipe[p] \in Seq(Line)
      /\ pipe \in [Pipes -> Seq(Line)] /\ buf \in [Pipes -> Seq(Line)]
  BY DEF LogInv, RunnerTypeOK
<1>3. UNCHANGED <<logged, reader, wrote>> /\ buf[q] = <<>> /\ reader[q] = "reading"
  BY DEF Read, childVars
<1>4. StreamInv(p)
  BY DEF LogInv
<1>5. CASE p # q
  <2>1. pipe'[p] = pipe[p] /\ buf'[p] = buf[p]
    BY <1>1, <1>2, <1>5
  <2>. QED  BY <1>3, <1>4, <2>1 DEF StreamInv
<1>6. CASE p = q
  <2>1. buf'[p] = SubSeq(pipe[p], 1, n)
    BY <1>1, <1>2, <1>6
  <2>2. pipe[p][n] = "short" => pipe'[p] = SubSeq(pipe[p], n + 1, Len(pipe[p]))
    BY <1>1, <1>2, <1>6
  <2>3. /\ Len(logged[p]) \in Nat /\ Len(wrote[p]) \in Nat /\ Len(pipe[p]) \in Nat
        /\ n \in 1..Len(pipe[p]) /\ Len(buf[p]) = 0
    BY <1>2, <1>3, <1>6, SeqFacts
  <2>4. /\ Len(wrote[p]) = Len(logged[p]) + Len(pipe[p])
        /\ Occurs(pipe[p], wrote[p], Len(logged[p]))
    <3>1. Short(buf[p], Len(buf[p]))
      BY <2>3 DEF Short
    <3>2. Len(logged[p]) + Len(buf[p]) = Len(logged[p])
      BY <2>3
    <3>. QED  BY <1>3, <1>4, <1>6, <2>3, <3>1, <3>2 DEF StreamInv
  <2>5. /\ Occurs(buf'[p], wrote[p], Len(logged[p]))
        /\ Occurs(SubSeq(pipe[p], n + 1, Len(pipe[p])), wrote[p], Len(logged[p]) + n)
    BY <1>2, <2>1, <2>3, <2>4, OccursSplit
  <2>6. /\ Len(buf'[p]) = n /\ \A i \in 1..n : buf'[p][i] = pipe[p][i]
        /\ Len(SubSeq(pipe[p], n + 1, Len(pipe[p]))) = Len(pipe[p]) - n
    <3>1. /\ Len(SubSeq(pipe[p], 1, n)) = n
          /\ \A i \in 1..n : SubSeq(pipe[p], 1, n)[i] = pipe[p][i]
          /\ Len(SubSeq(pipe[p], n + 1, Len(pipe[p]))) = Len(pipe[p]) - n
      BY <1>2, <2>3, SubSeqFacts
    <3>. QED  BY <2>1, <3>1, Zenon
  <2>7. Short(buf'[p], Len(buf'[p]) - 1)
    BY <1>1, <1>6, <2>3, <2>6 DEF Short
  <2>8. ASSUME Short(buf'[p], Len(buf'[p]))
        PROVE  /\ Len(wrote[p]) = Len(logged[p]) + Len(buf'[p]) + Len(pipe'[p])
               /\ Occurs(pipe'[p], wrote[p], Len(logged[p]) + Len(buf'[p]))
    <3>1. pipe[p][n] = "short"
      BY <2>3, <2>6, <2>8 DEF Short
    <3>2. /\ pipe'[p] = SubSeq(pipe[p], n + 1, Len(pipe[p]))
          /\ Len(pipe'[p]) = Len(pipe[p]) - n
      BY <2>2, <2>6, <3>1
    <3>3. Len(wrote[p]) = Len(logged[p]) + n + (Len(pipe[p]) - n)
      <4>1. n \in Nat
        BY <2>3
      <4>. QED  BY <2>3, <2>4, <4>1, SumSplit, Zenon
    <3>. QED  BY <2>5, <2>6, <3>2, <3>3, Zenon
  <2>. QED
    BY <1>3, <1>4, <2>5, <2>7, <2>8 DEF StreamInv
<1>. QED  BY <1>5, <1>6

LEMMA LogLineKeeps ==
    ASSUME LogInv, NEW q \in Pipes, LogLine(q), NEW p \in Pipes PROVE StreamInv(p)'
<1>1. /\ buf' = [buf EXCEPT ![q] = Tail(@)] /\ buf[q] # <<>>
      /\ reader[q] = "reading" /\ UNCHANGED <<pipe, wrote>>
  BY DEF LogLine, childVars
<1>2. /\ logged[p] \in Seq(Line) /\ wrote[p] \in Seq(Line)
      /\ buf[p] \in Seq(Line) /\ pipe[p] \in Seq(Line) /\ "short" \in Line
      /\ logged \in [Pipes -> Seq(Line)] /\ buf \in [Pipes -> Seq(Line)]
      /\ reader \in [Pipes -> {"reading", "stopped"}]
  BY DEF LogInv, RunnerTypeOK, Line
<1>3. StreamInv(p)
  BY DEF LogInv
<1>4. CASE p # q
  <2>1. logged'[p] = logged[p] /\ buf'[p] = buf[p] /\ reader'[p] = reader[p]
    BY <1>1, <1>2, <1>4 DEF LogLine
  <2>. QED  BY <1>1, <1>3, <2>1 DEF StreamInv
<1>5. CASE p = q /\ Head(buf[p]) # "short"
  <2>1. logged'[p] = logged[p] /\ reader'[p] = "stopped"
    BY <1>1, <1>2, <1>5 DEF LogLine
  <2>. QED  BY <1>1, <1>3, <2>1 DEF StreamInv
<1>6. CASE p = q /\ Head(buf[p]) = "short"
  <2>1. /\ logged'[p] = Append(logged[p], Head(buf[p])) /\ buf'[p] = Tail(buf[p])
        /\ reader'[p] = "reading" /\ reader[p] = "reading" /\ buf[p] # <<>>
    BY <1>1, <1>2, <1>6 DEF LogLine
  <2>2. /\ Len(logged'[p]) = Len(logged[p]) + 1
        /\ Len(buf'[p]) = Len(buf[p]) - 1 /\ buf[p][1] = "short"
        /\ \A i \in 1..(Len(buf[p]) - 1) : buf'[p][i] = buf[p][i + 1]
    <3>1. Len(logged'[p]) = Len(logged[p]) + 1
      BY <1>2, <1>6, <2>1, AppendFacts
    <3>. QED  BY <1>2, <1>6, <2>1, <3>1, TailFacts
  <2>3. /\ Len(logged[p]) \in Nat /\ Len(wrote[p]) \in Nat
        /\ Len(buf[p]) \in Nat \ {0} /\ Len(pipe[p]) \in Nat
    BY <1>2, <2>1, SeqFacts
  <2>4. /\ Occurs(logged'[p], wrote[p], 0)
        /\ Occurs(buf'[p], wrote[p], Len(logged'[p]))
    BY <1>2, <1>3, <2>1, <2>2, OccursMoved DEF StreamInv
  <2>5. Short(buf'[p], Len(buf'[p]) - 1)
    <3>. SUFFICES ASSUME NEW i \in 1..(Len(buf'[p]) - 1) PROVE buf'[p][i] = "short"
      BY DEF Short
    <3>1. i \in 1..(Len(buf[p]) - 1) /\ i + 1 \in 1..(Len(buf[p]) - 1)
      BY <2>2, <2>3
    <3>. QED  BY <1>3, <2>1, <2>2, <3>1 DEF StreamInv, Short
  <2>6. ASSUME Short(buf'[p], Len(buf'[p])) PROVE Short(buf[p], Len(buf[p]))
    <3>. SUFFICES ASSUME NEW i \in 1..Len(buf[p]) PROVE buf[p][i] = "short"
      BY DEF Short
    <3>1. CASE i = 1
      BY <2>2, <3>1
    <3>2. CASE i # 1
      <4>1. /\ i - 1 \in 1..Len(buf'[p]) /\ i - 1 \in 1..(Len(buf[p]) - 1)
            /\ (i - 1) + 1 = i
        BY <2>2, <2>3, <3>2
      <4>. QED  BY <2>2, <2>6, <4>1 DEF Short
    <3>. QED  BY <3>1, <3>2
  <2>7. Len(logged'[p]) + Len(buf'[p]) = Len(logged[p]) + Len(buf[p])
    BY <2>2, <2>3, SumMoved
  <2>. QED  BY <1>1, <1>3, <2>1, <2>4, <2>5, <2>6, <2>7 DEF StreamInv
<1>. QED  BY <1>4, <1>5, <1>6

LEMMA LogStep == LogInv /\ [Next]_vars => LogInv'
<1>. SUFFICES ASSUME LogInv, [Next]_vars PROVE LogInv'
  OBVIOUS
<1>1. RunnerTypeOK'
  BY TypeStep DEF LogInv
<1>. SUFFICES ASSUME NEW p \in Pipes PROVE StreamInv(p)'
  BY <1>1 DEF LogInv
<1>2. StreamInv(p)
  BY DEF LogInv
<1>3. ASSUME NEW output \in Outputs, Start(output) PROVE StreamInv(p)'
  <2>1. /\ logged'[p] = <<>> /\ wrote'[p] = <<>>
        /\ buf'[p] = <<>> /\ pipe'[p] = <<>>
    BY <1>3 DEF Start, Nothing
  <2>. QED  BY <2>1 DEF StreamInv, Occurs, Short
<1>4. ASSUME UNCHANGED <<logged, wrote, buf, pipe, reader>> PROVE StreamInv(p)'
  BY <1>2, <1>4 DEF StreamInv
<1>5. CASE StartFails \/ WaitReturns \/ CollectReaders \/ CheckResult
  BY <1>4, <1>5
     DEF StartFails, WaitReturns, CollectReaders, CheckResult, childVars, readerVars
<1>6. CASE Expire \/ Kill \/ KillRefused \/ ChildExits
  BY <1>4, <1>6 DEF Expire, Kill, KillRefused, ChildExits, childVars, readerVars
<1>7. CASE ChildWrites
  BY <1>7, WriteKeeps
<1>8. ASSUME NEW q \in Pipes, StreamPipe(q) PROVE StreamInv(p)'
  <2>1. CASE EndOfPipe(q)
    <3>1. reader'[p] = "reading" => reader[p] = "reading"
      BY <2>1 DEF EndOfPipe, LogInv, RunnerTypeOK
    <3>2. UNCHANGED <<logged, wrote, buf, pipe>>
      BY <2>1 DEF EndOfPipe, childVars
    <3>. QED  BY <1>2, <3>1, <3>2 DEF StreamInv
  <2>. QED  BY <1>8, <2>1, ReadKeeps, LogLineKeeps DEF StreamPipe
<1>9. CASE UNCHANGED vars
  BY <1>4, <1>9 DEF vars
<1>. QED
  BY <1>3, <1>5, <1>6, <1>7, <1>8, <1>9 DEF Next, Worker

\* The log of each stream is a prefix of what the command wrote to it.
THEOREM LogIsPrefix == Spec => []LogHasNoHoles
<1>1. Init => LogInv
  <2>1. ASSUME Init PROVE RunnerTypeOK
    BY <2>1, InitTyped
  <2>2. ASSUME Init, NEW p \in Pipes PROVE StreamInv(p)
    BY <2>2 DEF Init, Nothing, StreamInv, Occurs, Short
  <2>. QED  BY <2>1, <2>2 DEF LogInv
<1>2. LogInv /\ [Next]_vars => LogInv'
  BY LogStep
<1>3. LogInv => LogHasNoHoles
  <2>. SUFFICES ASSUME LogInv, NEW p \in Pipes PROVE IsPrefix(logged[p], wrote[p])
    BY DEF LogHasNoHoles
  <2>1. /\ logged[p] \in Seq(Line) /\ wrote[p] \in Seq(Line)
        /\ Len(logged[p]) <= Len(wrote[p])
        /\ \A i \in 1..Len(logged[p]) : logged[p][i] = wrote[p][i]
    BY DEF LogInv, RunnerTypeOK, StreamInv, Occurs
  <2>. QED  BY <2>1 DEF IsPrefix
<1>. QED  BY <1>1, <1>2, <1>3, PTL DEF Spec
=============================================================================
