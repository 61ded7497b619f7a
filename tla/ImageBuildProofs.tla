-------------------------- MODULE ImageBuildProofs --------------------------
(***************************************************************************)
(* Proofs about ImageBuild, for every repository, every submission and every*)
(* number of crashes: the commands that its Dockerfiles carry out, the inductive*)
(* invariant of the service and the properties of ImageLimits that follow.  *)
(***************************************************************************)
EXTENDS PlanProofs

-----------------------------------------------------------------------------
(* The commands that a sequence of lines runs. *)

Cmds(runs) == [i \in 1..Len(runs) |-> runs[i].cmd]

LEMMA CmdsConcat ==
    ASSUME NEW T, NEW a \in Seq(T), NEW b \in Seq(T)
    PROVE  Cmds(a \o b) = Cmds(a) \o Cmds(b) /\ IsSequence(Cmds(a))
<1> DEFINE C == {e.cmd : e \in T}
<1>1. ASSUME NEW s \in Seq(T)
      PROVE  Cmds(s) \in Seq(C) /\ Len(Cmds(s)) = Len(s)
             /\ \A i \in 1..Len(s) : Cmds(s)[i] = s[i].cmd
  <2>1. Len(s) \in Nat /\ \A i \in 1..Len(s) : s[i].cmd \in C
    BY ElementOfSeq
  <2> HIDE DEF C
  <2>2. Cmds(s) \in [1..Len(s) -> C]
    BY <2>1 DEF Cmds
  <2>3. Cmds(s) \in Seq(C) /\ Len(Cmds(s)) = Len(s)
    BY <2>1, <2>2
  <2>. QED  BY <2>1, <2>3 DEF Cmds
<1> HIDE DEF C
<1>2. /\ a \o b \in Seq(T) /\ Len(a \o b) = Len(a) + Len(b)
      /\ \A i \in 1..Len(a) + Len(b) : (a \o b)[i] = IF i <= Len(a) THEN a[i] ELSE b[i - Len(a)]
  BY ConcatProperties
<1>3. Cmds(a) \in Seq(C) /\ Cmds(b) \in Seq(C) /\ Cmds(a \o b) \in Seq(C)
  BY <1>1, <1>2
<1>4. Len(Cmds(a)) = Len(a) /\ Len(Cmds(b)) = Len(b) /\ Len(a) \in Nat /\ Len(b) \in Nat
      /\ Len(Cmds(a \o b)) = Len(a) + Len(b)
  BY <1>1, <1>2, LenProperties
<1>5. PICK l, r : l = Cmds(a \o b) /\ r = Cmds(a) \o Cmds(b)
  OBVIOUS
<1>6. /\ r \in Seq(C) /\ Len(r) = Len(a) + Len(b)
      /\ \A i \in 1..Len(a) + Len(b) :
            r[i] = IF i <= Len(a) THEN Cmds(a)[i] ELSE Cmds(b)[i - Len(a)]
  <2>1. PICK u, v : u = Cmds(a) /\ v = Cmds(b)
    OBVIOUS
  <2>2. u \in Seq(C) /\ v \in Seq(C)
    BY <1>3, <2>1
  <2>3. /\ u \o v \in Seq(C) /\ Len(u \o v) = Len(u) + Len(v)
        /\ \A i \in 1..Len(u) + Len(v) : (u \o v)[i] = IF i <= Len(u) THEN u[i] ELSE v[i - Len(u)]
    BY <2>2, ConcatProperties
  <2>. QED  BY <1>4, <1>5, <2>1, <2>3
<1>7. ASSUME NEW i \in 1..Len(a) + Len(b) PROVE l[i] = r[i]
  <2>1. l[i] = (a \o b)[i].cmd
    BY <1>1, <1>2, <1>5
  <2>2. CASE i <= Len(a)
    <3>1. i \in 1..Len(a) /\ (a \o b)[i] = a[i]
      BY <1>2, <1>4, <2>2
    <3>. QED  BY <1>1, <1>6, <2>1, <2>2, <3>1
  <2>3. CASE ~(i <= Len(a))
    <3>1. i - Len(a) \in 1..Len(b) /\ (a \o b)[i] = b[i - Len(a)]
      BY <1>2, <1>4, <2>3
    <3>. QED  BY <1>1, <1>6, <2>1, <2>3, <3>1
  <2>. QED  BY <2>2, <2>3
<1>8. l = r
  BY <1>3, <1>4, <1>5, <1>6, <1>7, SeqEqual
<1>. QED  BY <1>3, <1>5, <1>8, SequenceOver

Running(T) == {e \in T : e.do = "run"}

LEMMA ExecutedOver ==
    ASSUME NEW T, NEW s \in Seq(T) PROVE Executed(s) = Cmds(Keep(s, Running(T)))
<1>1. ToSet(s) \subseteq T
  BY ToSetFacts
<1>2. \A e \in ToSet(s) : e \in {line \in ToSet(s) : line.do = "run"} <=> e \in Running(T)
  BY <1>1 DEF Running
<1>3. Keep(s, {line \in ToSet(s) : line.do = "run"}) = Keep(s, Running(T))
  BY <1>2, KeepSame
<1>. QED  BY <1>3 DEF Executed, Cmds

LEMMA ExecutedConcat ==
    ASSUME NEW s, NEW t, IsSequence(s), IsSequence(t)
    PROVE  /\ IsSequence(s \o t) /\ Executed(s \o t) = Executed(s) \o Executed(t)
           /\ IsSequence(Executed(s))
<1>1. PICK T : s \in Seq(T) /\ t \in Seq(T)
  BY SequencesTogether
<1>2. s \o t \in Seq(T) /\ IsSequence(s \o t)
  BY <1>1, ConcatProperties, SequenceConcat
<1>3. PICK R, a, b : R = Running(T) /\ a = Keep(s, R) /\ b = Keep(t, R)
  OBVIOUS
<1>4. a \in Seq(T) /\ b \in Seq(T) /\ Keep(s \o t, R) = a \o b
  <2>1. Keep(s, R) \in Seq(T) /\ Keep(t, R) \in Seq(T)
    BY <1>1, KeepType
  <2>2. Keep(s \o t, R) = Keep(s, R) \o Keep(t, R)
    BY <1>1, KeepConcat
  <2>. QED  BY <1>3, <2>1, <2>2
<1>5. Executed(s) = Cmds(a) /\ Executed(t) = Cmds(b) /\ Executed(s \o t) = Cmds(a \o b)
  BY <1>1, <1>2, <1>3, <1>4, ExecutedOver
<1>. QED  BY <1>2, <1>4, <1>5, CmdsConcat

\* A line that runs nothing, and what Runs writes.
LEMMA QuietLine ==
    ASSUME NEW l, l.do # "run" PROVE IsSequence(<<l>>) /\ Executed(<<l>>) = <<>>
<1> DEFINE T == {l}
<1>1. <<l>> \in Seq(T) /\ l \in T
  BY OneAndTwo
<1>2. ToSet(<<l>>) \intersect Running(T) = {}
  BY <1>1, ToSetFacts DEF Running
<1>3. Executed(<<l>>) = Cmds(<<>>)
  <2>1. Keep(<<l>>, Running(T)) = <<>>
    BY <1>1, <1>2, KeepAll
  <2>. QED  BY <1>1, <2>1, ExecutedOver
<1>4. Cmds(<<>>) = <<>>
  BY DEF Cmds
<1>. QED  BY <1>1, <1>3, <1>4, SequenceOver

LEMMA RunsExecuted ==
    ASSUME NEW c, IsSequence(c) PROVE IsSequence(Runs(c)) /\ Executed(Runs(c)) = c
<1> DEFINE C == ToSet(c)
           T == {Line("run", "", "", e) : e \in C}
<1>1. c \in Seq(C)
  BY DEF IsSequence
<1> HIDE DEF C
<1>2. Len(c) \in Nat /\ \A i \in 1..Len(c) : c[i] \in C
  BY <1>1, ElementOfSeq
<1>3. PICK r : r = Runs(c)
  OBVIOUS
<1>4. r \in [1..Len(c) -> T]
  BY <1>2, <1>3 DEF Runs
<1>5. \A e : Line("run", "", "", e).do = "run" /\ Line("run", "", "", e).cmd = e
  BY DEF Line
<1>6. \A i \in 1..Len(c) : r[i] = Line("run", "", "", c[i])
  BY <1>3 DEF Runs
<1>7. T \subseteq Running(T)
  BY <1>5 DEF Running
<1> HIDE DEF T
<1>8. r \in Seq(T) /\ Len(r) = Len(c)
  BY <1>2, <1>4
<1>9. Executed(r) = Cmds(r)
  <2>1. ToSet(r) \subseteq Running(T)
    BY <1>7, <1>8, ToSetFacts
  <2>2. Keep(r, Running(T)) = r
    BY <1>8, <2>1, KeepAll
  <2>. QED  BY <1>8, <2>2, ExecutedOver
<1>10. Cmds(r) = c
  <2>1. Cmds(r) = [i \in 1..Len(c) |-> c[i]]
    BY <1>5, <1>6, <1>8 DEF Cmds
  <2>2. \A i \in 1..Len(c) : Cmds(r)[i] = c[i]
    BY <2>1
  <2>3. Cmds(r) \in Seq(C) /\ Len(Cmds(r)) = Len(c)
    BY <1>2, <2>1
  <2>. QED  BY <1>1, <2>2, <2>3, SeqEqual
<1>. QED  BY <1>3, <1>8, <1>9, <1>10, SequenceOver

-----------------------------------------------------------------------------
(* Dockerfiles, one part after the other. *)

Does(ls, c) == IsSequence(ls) /\ IsSequence(c) /\ Executed(ls) = c

\* A Dockerfile so far, whose last commands are these.
Carries(ls, k) ==
    /\ IsSequence(ls) /\ ls # <<>> /\ ls[1].do = "from" /\ IsSequence(k)
    /\ \E b : IsSequence(b) /\ Executed(ls) = b \o k

\* One that has run these.
Closed(ls, k) ==
    /\ IsSequence(ls) /\ ls # <<>> /\ ls[1].do = "from" /\ IsSequence(k)
    /\ \E b, a : IsSequence(b) /\ IsSequence(a) /\ Executed(ls) = (b \o k) \o a

LEMMA Empties ==
    ASSUME NEW s, IsSequence(s) PROVE s \o <<>> = s /\ <<>> \o s = s
  BY ConcatEmptySeq DEF IsSequence

LEMMA Regroup ==
    ASSUME NEW s, NEW t, NEW u, IsSequence(s), IsSequence(t), IsSequence(u)
    PROVE  (s \o t) \o u = s \o (t \o u)
  BY SequencesTogether, ConcatAssociative

LEMMA FirstStays ==
    ASSUME NEW s, NEW t, IsSequence(s), IsSequence(t), s # <<>>
    PROVE  s \o t # <<>> /\ (s \o t)[1] = s[1]
<1>1. PICK T : s \in Seq(T) /\ t \in Seq(T)
  BY SequencesTogether
<1>2. Len(s) \in Nat \ {0} /\ Len(t) \in Nat
  BY <1>1, EmptySeq, LenProperties
<1>3. (s \o t)[1] = s[1] /\ Len(s \o t) = Len(s) + Len(t)
  BY <1>1, <1>2, ConcatProperties
<1>4. Len(<<>>) = 0
  OBVIOUS
<1>. QED  BY <1>2, <1>3, <1>4

LEMMA DoesConcat ==
    ASSUME NEW s, NEW t, NEW a, NEW b, Does(s, a), Does(t, b)
    PROVE  /\ Does(s \o t, a \o b)
           /\ b = <<>> => Does(s \o t, a)
           /\ a = <<>> => Does(s \o t, b)
<1>1. Does(s \o t, a \o b)
  BY ExecutedConcat, SequenceConcat DEF Does
<1>2. a \o <<>> = a /\ <<>> \o b = b
  BY Empties DEF Does
<1>. QED  BY <1>1, <1>2

LEMMA Opens == ASSUME NEW image, NEW as PROVE Carries(From(image, as), <<>>)
<1>1. PICK l : l = Line("from", image, as, NoCmd)
  OBVIOUS
<1>2. l.do = "from" /\ From(image, as) = <<l>>
  BY <1>1 DEF Line, From
<1>3. IsSequence(<<l>>) /\ Executed(<<l>>) = <<>> /\ <<l>>[1] = l /\ <<l>> # <<>>
  BY <1>2, QuietLine
<1>4. IsSequence(<<>>) /\ <<>> = <<>> \o <<>>
  BY ShortSequences, Empties
<1>. QED  BY <1>2, <1>3, <1>4 DEF Carries

LEMMA LinesDo ==
    /\ \A image, as : Does(From(image, as), <<>>) /\ Does(Take(image, as), <<>>)
    /\ Does(Copy, <<>>) /\ Does(CopyDeps, <<>>) /\ Does(Apt, <<>>) /\ Does(Start, <<>>)
    /\ Does(<<>>, <<>>)
<1>1. ASSUME NEW do, NEW image, NEW as, do # "run"
      PROVE  Does(<<Line(do, image, as, NoCmd)>>, <<>>)
  <2>1. PICK l : l = Line(do, image, as, NoCmd)
    OBVIOUS
  <2>2. l.do # "run"
    BY <1>1, <2>1 DEF Line
  <2>. QED  BY <2>1, <2>2, QuietLine, ShortSequences DEF Does
<1>2. Does(<<>>, <<>>)
  <2>1. PICK e : e = <<>>
    OBVIOUS
  <2>2. IsSequence(e)
    BY <2>1, ShortSequences
  <2>3. Runs(e) = <<>>
    BY <2>1 DEF Runs
  <2>. QED  BY <2>1, <2>2, <2>3, RunsExecuted DEF Does
<1>3. ASSUME NEW image, NEW as PROVE Does(From(image, as), <<>>) /\ Does(Take(image, as), <<>>)
  BY <1>1 DEF From, Take
<1>4. Does(Copy, <<>>) /\ Does(CopyDeps, <<>>) /\ Does(Apt, <<>>) /\ Does(Start, <<>>)
  BY <1>1 DEF Copy, CopyDeps, Apt, Start
<1>. QED  BY <1>2, <1>3, <1>4

LEMMA RunsDo == ASSUME NEW c, IsSequence(c) PROVE Does(Runs(c), c)
  BY RunsExecuted DEF Does

LEMMA RunDoes == \A cmd : Does(Run(cmd), One(cmd)) /\ IsSequence(One(cmd))
<1>1. ASSUME NEW cmd PROVE IsSequence(One(cmd))
  BY ShortSequences DEF One
<1>. QED  BY <1>1, RunsDo DEF Run

LEMMA CarriesMore ==
    ASSUME NEW ls, NEW k, NEW t, NEW c, Carries(ls, k), Does(t, c)
    PROVE  /\ Carries(ls \o t, k \o c)
           /\ Carries(ls \o t, <<>>)
           /\ c = <<>> => Carries(ls \o t, k)
           /\ k = <<>> => Carries(ls \o t, c)
<1>1. PICK b : IsSequence(b) /\ Executed(ls) = b \o k
  BY DEF Carries
<1>2. IsSequence(ls) /\ IsSequence(t) /\ IsSequence(k) /\ IsSequence(c) /\ ls # <<>> /\ ls[1].do = "from"
  BY DEF Carries, Does
<1>3. IsSequence(ls \o t) /\ Executed(ls \o t) = (b \o k) \o c
  BY <1>1, <1>2, ExecutedConcat DEF Does
<1>4. ls \o t # <<>> /\ (ls \o t)[1].do = "from"
  BY <1>2, FirstStays
<1>5. IsSequence(k \o c) /\ (b \o k) \o c = b \o (k \o c)
  BY <1>1, <1>2, Regroup, SequenceConcat
<1>6. Carries(ls \o t, k \o c)
  BY <1>1, <1>3, <1>4, <1>5 DEF Carries
<1>7. Carries(ls \o t, <<>>)
  <2>1. IsSequence(b \o (k \o c)) /\ IsSequence(<<>>)
    BY <1>1, <1>5, SequenceConcat, ShortSequences
  <2>2. Executed(ls \o t) = (b \o (k \o c)) \o <<>>
    BY <1>3, <1>5, <2>1, Empties
  <2>. QED  BY <1>3, <1>4, <2>1, <2>2 DEF Carries
<1>8. k \o <<>> = k /\ <<>> \o c = c
  BY <1>2, Empties
<1>. QED  BY <1>6, <1>7, <1>8

LEMMA Closes == ASSUME NEW ls, NEW k, Carries(ls, k) PROVE Closed(ls, k)
<1>1. PICK b : IsSequence(b) /\ Executed(ls) = b \o k
  BY DEF Carries
<1>2. IsSequence(b \o k)
  BY <1>1, SequenceConcat DEF Carries
<1>3. Executed(ls) = (b \o k) \o <<>> /\ IsSequence(<<>>)
  BY <1>1, <1>2, Empties, ShortSequences
<1>. QED  BY <1>1, <1>3 DEF Carries, Closed

LEMMA ClosedMore ==
    ASSUME NEW ls, NEW k, NEW t, Closed(ls, k), IsSequence(t)
    PROVE  Closed(ls \o t, k)
<1>1. PICK b, a : IsSequence(b) /\ IsSequence(a) /\ Executed(ls) = (b \o k) \o a
  BY DEF Closed
<1>2. PICK c : c = Executed(t) /\ IsSequence(c)
  BY ExecutedConcat
<1>3. IsSequence(ls) /\ IsSequence(k) /\ ls # <<>> /\ ls[1].do = "from"
  BY DEF Closed
<1>4. IsSequence(ls \o t) /\ Executed(ls \o t) = ((b \o k) \o a) \o c
  BY <1>1, <1>2, <1>3, ExecutedConcat
<1>5. IsSequence(b \o k) /\ IsSequence(a \o c)
  BY <1>1, <1>2, <1>3, SequenceConcat
<1>6. ((b \o k) \o a) \o c = (b \o k) \o (a \o c)
  <2>1. PICK u : u = b \o k
    OBVIOUS
  <2>2. IsSequence(u) /\ IsSequence(a) /\ IsSequence(c)
    BY <1>1, <1>2, <1>5, <2>1
  <2>3. (u \o a) \o c = u \o (a \o c)
    BY <2>2, Regroup
  <2>. QED  BY <2>1, <2>3
<1>7. ls \o t # <<>> /\ (ls \o t)[1].do = "from"
  BY <1>3, FirstStays
<1>. QED  BY <1>1, <1>3, <1>4, <1>5, <1>6, <1>7 DEF Closed

-----------------------------------------------------------------------------
\* A Dockerfile that has run these, and then starts the container.
Complete(ls, k) == Closed(ls, k) /\ Len(ls) \in Nat \ {0} /\ ls[Len(ls)].do = "start"

LEMMA Completes == ASSUME NEW ls, NEW k, Closed(ls, k) PROVE Complete(ls \o Start, k)
<1>1. IsSequence(ls) /\ IsSequence(Start) /\ Len(Start) = 1 /\ Start[1].do = "start"
  <2>1. IsSequence(ls) /\ IsSequence(Start)
    BY LinesDo DEF Closed, Does
  <2>2. Len(Start) = 1 /\ Start[1] = Line("start", "", "", NoCmd)
    BY DEF Start
  <2>3. Line("start", "", "", NoCmd).do = "start"
    BY DEF Line
  <2>. QED  BY <2>1, <2>2, <2>3
<1>2. PICK T, S : S = Start /\ ls \in Seq(T) /\ S \in Seq(T)
  BY <1>1, SequencesTogether
<1>3. Len(ls) \in Nat /\ Len(ls \o S) = Len(ls) + Len(S)
      /\ \A i \in 1..Len(ls) + Len(S) : (ls \o S)[i] = IF i <= Len(ls) THEN ls[i] ELSE S[i - Len(ls)]
  BY <1>2, ConcatProperties, LenProperties
<1>4. Len(ls \o S) = Len(ls) + 1 /\ (ls \o S)[Len(ls) + 1] = S[1]
  <2>1. PICK n : n = Len(ls)
    OBVIOUS
  <2>2. n \in Nat /\ Len(S) = 1
    BY <1>1, <1>2, <1>3, <2>1
  <2>3. n + 1 \in 1..n + 1 /\ ~(n + 1 <= n) /\ n + 1 - n = 1
    BY <2>2
  <2>. QED  BY <1>3, <2>1, <2>2, <2>3
<1>5. Closed(ls \o Start, k)
  BY <1>1, ClosedMore
<1>. QED  BY <1>1, <1>2, <1>3, <1>4, <1>5 DEF Complete

LEMMA SetupSplits ==
    ASSUME NEW x, IsSequence(x.setup) PROVE IsSequence(PreSetup(x)) /\ IsSequence(PostSetup(x))
<1>1. ASSUME NEW S PROVE IsSequence(Keep(x.setup, S))
  <2>1. PICK T, s : s = x.setup /\ T = ToSet(s) /\ s \in Seq(T)
    BY DEF IsSequence
  <2>2. Keep(s, S) \in Seq(T)
    BY <2>1, KeepType
  <2>. QED  BY <2>1, <2>2, SequenceOver
<1>. QED  BY <1>1 DEF PreSetup, PostSetup

LEMMA BuilderCarries ==
    ASSUME NEW x, IsSequence(x.boot), IsSequence(x.setup), IsSequence(x.post)
    PROVE  Carries(Builder(x), ((One(x.install) \o (PreSetup(x) \o PostSetup(x))) \o One(x.build)) \o x.post)
<1>1. PICK i, b, pre, post, group, all :
         /\ i = One(x.install) /\ b = One(x.build)
         /\ pre = PreSetup(x) /\ post = PostSetup(x)
         /\ group = (IF HasDeps(x) THEN CopyDeps \o Run(x.install) \o Runs(PreSetup(x)) \o Copy
                     ELSE Copy \o Run(x.install) \o Runs(PreSetup(x)))
         /\ all = Builder(x)
  OBVIOUS
<1>2. /\ Does(Run(x.install), i) /\ Does(Run(x.build), b) /\ Does(Runs(pre), pre)
      /\ Does(Runs(post), post) /\ Does(Runs(x.boot), x.boot) /\ Does(Runs(x.post), x.post)
      /\ Does(Copy, <<>>) /\ Does(CopyDeps, <<>>)
  BY <1>1, SetupSplits, RunsDo, RunDoes, LinesDo
<1>3. PICK ri, rb, rpre, rpost, rboot, rlast :
         /\ ri = Run(x.install) /\ rb = Run(x.build) /\ rpre = Runs(pre)
         /\ rpost = Runs(post) /\ rboot = Runs(x.boot) /\ rlast = Runs(x.post)
  OBVIOUS
<1>4. Does(group, i \o pre)
  <2>1. Does(Copy \o ri, i) /\ Does(CopyDeps \o ri, i)
    BY <1>2, <1>3, DoesConcat
  <2>2. Does((Copy \o ri) \o rpre, i \o pre) /\ Does((CopyDeps \o ri) \o rpre, i \o pre)
    BY <1>2, <1>3, <2>1, DoesConcat
  <2>3. Does(((CopyDeps \o ri) \o rpre) \o Copy, i \o pre)
    BY <1>2, <2>2, DoesConcat
  <2>4. group = IF HasDeps(x) THEN ((CopyDeps \o ri) \o rpre) \o Copy ELSE (Copy \o ri) \o rpre
    BY <1>1, <1>3
  <2>. QED  BY <2>2, <2>3, <2>4
<1>5. PICK from : from = From(x.image, "builder") /\ Carries(from, <<>>)
  BY Opens
<1>6. Carries(from \o rboot, <<>>)
  BY <1>2, <1>3, <1>5, CarriesMore
<1>7. Carries((from \o rboot) \o group, i \o pre)
  BY <1>4, <1>6, CarriesMore
<1>8. Carries(((from \o rboot) \o group) \o rpost, (i \o pre) \o post)
  BY <1>2, <1>3, <1>7, CarriesMore
<1>9. Carries((((from \o rboot) \o group) \o rpost) \o rb, ((i \o pre) \o post) \o b)
  BY <1>2, <1>3, <1>8, CarriesMore
<1>10. Carries(((((from \o rboot) \o group) \o rpost) \o rb) \o rlast,
               (((i \o pre) \o post) \o b) \o x.post)
  BY <1>2, <1>3, <1>9, CarriesMore
<1>11. all = ((((from \o rboot) \o group) \o rpost) \o rb) \o rlast
  BY <1>1, <1>3, <1>5 DEF Builder
<1>12. (i \o pre) \o post = i \o (pre \o post)
  <2>1. IsSequence(i) /\ IsSequence(pre) /\ IsSequence(post)
    BY <1>2 DEF Does
  <2>. QED  BY <2>1, Regroup
<1>. QED  BY <1>1, <1>10, <1>11, <1>12

LEMMA OptionalDo ==
    ASSUME NEW x
    PROVE  /\ IsSequence(Prune(x)) /\ IsSequence(RuntimeSharp(x))
           /\ Does(IF HasDeps(x) THEN CopyDeps ELSE <<>>, <<>>)
  BY RunDoes, LinesDo DEF Does, Prune, RuntimeSharp

\* What a plan's renderer carries out.
LEMMA ApplicationKeeps ==
    ASSUME NEW x, Renderable(x), x.runtime \notin {"php", "python", "go", "dotnet", "rust"}
    PROVE  Complete(ApplicationDockerfile(x), Kept(x))
<1>1. PICK k : k = ((One(x.install) \o (PreSetup(x) \o PostSetup(x))) \o One(x.build)) \o x.post
  OBVIOUS
<1>2. Kept(x) = k
  BY <1>1 DEF Kept, KeptSetup, KeptPost
<1>3. PICK B, prune, from, take, sharp :
         /\ B = Builder(x) /\ prune = Prune(x) /\ from = From(x.final, "final")
         /\ take = Take("all", "builder") /\ sharp = RuntimeSharp(x)
  OBVIOUS
<1>4. /\ Closed(B, k) /\ IsSequence(prune) /\ IsSequence(from) /\ IsSequence(take)
      /\ IsSequence(sharp)
  BY <1>1, <1>3, BuilderCarries, Closes, OptionalDo, LinesDo DEF Renderable, Does
<1>5. Closed((((B \o prune) \o from) \o take) \o sharp, k)
  BY <1>4, ClosedMore
<1>6. Complete(((((B \o prune) \o from) \o take) \o sharp) \o Start, k)
  BY <1>5, Completes
<1>. QED  BY <1>2, <1>3, <1>6 DEF ApplicationDockerfile

LEMMA StaticKeeps ==
    ASSUME NEW x, Renderable(x), x.static
    PROVE  Complete(StaticDockerfile(x), Kept(x))
<1>1. PICK k : k = ((One(x.install) \o (PreSetup(x) \o PostSetup(x))) \o One(x.build)) \o x.post
  OBVIOUS
<1>2. x.runtime = "static"
  BY DEF Renderable
<1>3. Kept(x) = k
  BY <1>1, <1>2 DEF Kept, KeptSetup, KeptPost
<1>4. PICK B, from, take : B = Builder(x) /\ from = From(x.final, "final") /\ take = Take("built", "builder")
  OBVIOUS
<1>5. CASE x.image # ""
  <2>1. Closed(B, k) /\ IsSequence(from) /\ IsSequence(take)
    BY <1>1, <1>4, BuilderCarries, Closes, LinesDo DEF Renderable, Does
  <2>2. Closed((B \o from) \o take, k)
    BY <2>1, ClosedMore
  <2>3. Complete(((B \o from) \o take) \o Start, k)
    BY <2>2, Completes
  <2>. QED  BY <1>3, <1>4, <1>5, <2>3 DEF StaticDockerfile
<1>6. CASE x.image = ""
  <2>1. {x.install, x.build} = {NoCmd} /\ x.setup \o x.post = <<>> /\ IsSequence(x.setup)
        /\ IsSequence(x.post)
    BY <1>6 DEF Renderable
  <2>2. x.setup = <<>> /\ x.post = <<>>
    BY <2>1, SequencesTogether, ConcatSimplifications
  <2>3. x.install = NoCmd /\ x.build = NoCmd
    BY <2>1
  <2>4. One(NoCmd) = <<>>
    BY DEF One
  <2>5. PreSetup(x) = <<>> /\ PostSetup(x) = <<>>
    BY <2>2, KeepEmpty DEF PreSetup, PostSetup
  <2>6. k = <<>>
    <3>1. <<>> \o <<>> = <<>>
      BY ShortSequences, Empties
    <3>. QED  BY <1>1, <2>2, <2>3, <2>4, <2>5, <3>1
  <2>7. Carries(from, <<>>) /\ Does(Copy, <<>>)
    BY <1>4, Opens, LinesDo
  <2>8. Carries(from \o Copy, <<>>)
    BY <2>7, CarriesMore
  <2>9. Complete((from \o Copy) \o Start, <<>>)
    BY <2>8, Closes, Completes
  <2>. QED  BY <1>3, <1>4, <1>6, <2>6, <2>9 DEF StaticDockerfile
<1>. QED  BY <1>5, <1>6

LEMMA GoKeeps ==
    ASSUME NEW x, Renderable(x), x.runtime = "go"
    PROVE  Complete(GoDockerfile(x), Kept(x))
<1>1. PICK i, b, deps, from, ri, rboot, rsetup, rb, rlast, last, take :
         /\ i = One(x.install) /\ b = One(x.build)
         /\ deps = (IF HasDeps(x) THEN CopyDeps ELSE <<>>)
         /\ from = From(x.image, "builder") /\ ri = Run(x.install) /\ rboot = Runs(x.boot)
         /\ rsetup = Runs(x.setup) /\ rb = Run(x.build) /\ rlast = Runs(x.post)
         /\ last = From(x.final, "final") /\ take = Take("./app", "builder")
  OBVIOUS
<1>2. /\ Does(ri, i) /\ Does(rb, b) /\ Does(rboot, <<>>) /\ Does(rsetup, x.setup)
      /\ Does(rlast, x.post) /\ Does(deps, <<>>) /\ Does(Copy, <<>>)
      /\ Does(last, <<>>) /\ Does(take, <<>>)
  <2>1. x.boot = <<>> /\ IsSequence(<<>>) /\ IsSequence(x.setup) /\ IsSequence(x.post)
    BY ShortSequences DEF Renderable
  <2>2. Does(Runs(<<>>), <<>>) /\ Does(Runs(x.setup), x.setup) /\ Does(Runs(x.post), x.post)
    BY <2>1, RunsDo
  <2>3. Does(rboot, <<>>) /\ Does(rsetup, x.setup) /\ Does(rlast, x.post)
    BY <1>1, <2>1, <2>2
  <2>4. Does(ri, i) /\ Does(rb, b)
    BY <1>1, RunDoes
  <2>. QED  BY <1>1, <2>3, <2>4, LinesDo, OptionalDo
<1>3. Carries(from, <<>>)
  BY <1>1, Opens
<1>4. Carries((from \o deps) \o ri, i)
  BY <1>2, <1>3, CarriesMore
<1>5. Carries((((from \o deps) \o ri) \o Copy) \o rboot, i)
  BY <1>2, <1>4, CarriesMore
<1>6. Carries(((((from \o deps) \o ri) \o Copy) \o rboot) \o rsetup, i \o x.setup)
  BY <1>2, <1>5, CarriesMore
<1>7. Carries((((((from \o deps) \o ri) \o Copy) \o rboot) \o rsetup) \o rb, (i \o x.setup) \o b)
  BY <1>2, <1>6, CarriesMore
<1>8. PICK all : /\ all = ((((((from \o deps) \o ri) \o Copy) \o rboot) \o rsetup) \o rb) \o rlast
                 /\ Carries(all, ((i \o x.setup) \o b) \o x.post)
  BY <1>2, <1>7, CarriesMore
<1>9. PICK k : k = ((i \o x.setup) \o b) \o x.post
  OBVIOUS
<1>10. Closed((all \o last) \o take, k)
  BY <1>2, <1>8, <1>9, Closes, ClosedMore DEF Does
<1>11. Complete(((all \o last) \o take) \o Start, k)
  BY <1>10, Completes
<1>12. Kept(x) = k
  BY <1>1, <1>9 DEF Kept, KeptSetup, KeptPost
<1>. QED  BY <1>1, <1>8, <1>11, <1>12 DEF GoDockerfile

LEMMA PHPKeeps ==
    ASSUME NEW x, Renderable(x), x.runtime = "php"
    PROVE  Complete(PHPDockerfile(x), Kept(x))
<1>1. PICK i, b, from, take, ri, rboot, rsetup, rb, rlast :
         /\ i = One(x.install) /\ b = One(x.build)
         /\ from = From(x.image, "final") /\ take = Take("composer", "composer:2")
         /\ ri = Run(x.install) /\ rboot = Runs(x.boot)
         /\ rsetup = Runs(x.setup) /\ rb = Run(x.build) /\ rlast = Runs(x.post)
  OBVIOUS
<1>2. /\ Does(ri, i) /\ Does(rb, b) /\ Does(rboot, x.boot) /\ Does(rsetup, x.setup)
      /\ Does(rlast, x.post) /\ Does(Copy, <<>>) /\ Does(Apt, <<>>) /\ Does(take, <<>>)
  <2>1. Does(rboot, x.boot) /\ Does(rsetup, x.setup) /\ Does(rlast, x.post)
    BY <1>1, RunsDo DEF Renderable
  <2>2. Does(ri, i) /\ Does(rb, b)
    BY <1>1, RunDoes
  <2>. QED  BY <1>1, <2>1, <2>2, LinesDo
<1>3. Carries(from, <<>>)
  BY <1>1, Opens
<1>4. PICK opening : /\ opening = (((from \o take) \o Copy) \o Apt) \o rboot
                     /\ Carries(opening, <<>>)
  BY <1>2, <1>3, CarriesMore
<1>5. Carries(opening \o ri, i)
  BY <1>2, <1>4, CarriesMore
<1>6. Carries((opening \o ri) \o rsetup, i \o x.setup)
  BY <1>2, <1>5, CarriesMore
<1>7. Carries(((opening \o ri) \o rsetup) \o rb, (i \o x.setup) \o b)
  BY <1>2, <1>6, CarriesMore
<1>8. Carries((((opening \o ri) \o rsetup) \o rb) \o rlast, ((i \o x.setup) \o b) \o x.post)
  BY <1>2, <1>7, CarriesMore
<1>9. PICK k : k = ((i \o x.setup) \o b) \o x.post
  OBVIOUS
<1>10. Complete(((((opening \o ri) \o rsetup) \o rb) \o rlast) \o Start, k)
  BY <1>8, <1>9, Closes, Completes
<1>11. Kept(x) = k
  BY <1>1, <1>9 DEF Kept, KeptSetup, KeptPost
<1>. QED  BY <1>1, <1>4, <1>10, <1>11 DEF PHPDockerfile

LEMMA DotnetKeeps ==
    ASSUME NEW x, x.runtime = "dotnet"
    PROVE  Complete(DotnetDockerfile(x), Kept(x))
<1>1. PICK i, b, deps, from, ri, rb, last, take :
         /\ i = One(x.install) /\ b = One(x.build)
         /\ deps = (IF HasDeps(x) THEN CopyDeps ELSE <<>>)
         /\ from = From(x.image, "build") /\ ri = Run(x.install) /\ rb = Run(x.build)
         /\ last = From(x.final, "final") /\ take = Take("App.dll", "build")
  OBVIOUS
<1>2. /\ Does(ri, i) /\ Does(rb, b) /\ Does(deps, <<>>) /\ Does(Copy, <<>>)
      /\ Does(last, <<>>) /\ Does(take, <<>>)
  BY <1>1, RunDoes, LinesDo, OptionalDo
<1>3. Carries(from, <<>>)
  BY <1>1, Opens
<1>4. Carries((from \o deps) \o ri, i)
  BY <1>2, <1>3, CarriesMore
<1>5. PICK all : /\ all = (((from \o deps) \o ri) \o Copy) \o rb
                 /\ Carries(all, i \o b)
  BY <1>2, <1>4, CarriesMore
<1>6. PICK k : k = i \o b
  OBVIOUS
<1>7. Closed((all \o last) \o take, k)
  BY <1>2, <1>5, <1>6, Closes, ClosedMore DEF Does
<1>8. Complete(((all \o last) \o take) \o Start, k)
  BY <1>7, Completes
<1>9. Kept(x) = k
  <2>1. Kept(x) = ((i \o <<>>) \o b) \o <<>>
    BY <1>1 DEF Kept, KeptSetup, KeptPost
  <2>2. i \o <<>> = i /\ IsSequence(i \o b)
    BY <1>2, Empties, SequenceConcat DEF Does
  <2>3. (i \o b) \o <<>> = i \o b
    BY <2>2, Empties
  <2>. QED  BY <1>6, <2>1, <2>2, <2>3
<1>. QED  BY <1>1, <1>5, <1>8, <1>9 DEF DotnetDockerfile

LEMMA RustKeeps ==
    ASSUME NEW x, Renderable(x), x.runtime = "rust"
    PROVE  Complete(RustDockerfile(x), Kept(x))
<1>1. PICK i, b, chef, rboot, planner, ri, builder, recipe, rb, rlast, last, take :
         /\ i = One(x.install) /\ b = One(x.build)
         /\ chef = From(x.image, "chef") /\ rboot = Runs(x.boot)
         /\ planner = From("chef", "planner") /\ ri = Run(x.install)
         /\ builder = From("chef", "builder") /\ recipe = Take("recipe.json", "planner")
         /\ rb = Run(x.build) /\ rlast = Runs(x.post)
         /\ last = From(x.final, "final") /\ take = Take("./app", "builder")
  OBVIOUS
<1>2. /\ Does(ri, i) /\ Does(rb, b) /\ Does(rboot, x.boot) /\ Does(rlast, x.post)
      /\ Does(Copy, <<>>) /\ Does(planner, <<>>) /\ Does(builder, <<>>)
      /\ Does(recipe, <<>>) /\ Does(last, <<>>) /\ Does(take, <<>>)
  <2>1. Does(rboot, x.boot) /\ Does(rlast, x.post)
    BY <1>1, RunsDo DEF Renderable
  <2>2. Does(ri, i) /\ Does(rb, b)
    BY <1>1, RunDoes
  <2>. QED  BY <1>1, <2>1, <2>2, LinesDo
<1>3. Carries(chef, <<>>)
  BY <1>1, Opens
<1>4. PICK opening : /\ opening = ((chef \o rboot) \o planner) \o Copy
                     /\ Carries(opening, <<>>)
  BY <1>2, <1>3, CarriesMore
<1>5. PICK planned : /\ planned = ((opening \o ri) \o builder) \o recipe
                     /\ Carries(planned, i)
  BY <1>2, <1>4, CarriesMore
<1>6. Carries((planned \o rb) \o Copy, i \o b)
  BY <1>2, <1>5, CarriesMore
<1>7. PICK all : /\ all = ((planned \o rb) \o Copy) \o rlast
                 /\ Carries(all, (i \o b) \o x.post)
  BY <1>2, <1>6, CarriesMore
<1>8. PICK k : k = (i \o b) \o x.post
  OBVIOUS
<1>9. Closed((all \o last) \o take, k)
  BY <1>2, <1>7, <1>8, Closes, ClosedMore DEF Does
<1>10. Complete(((all \o last) \o take) \o Start, k)
  BY <1>9, Completes
<1>11. Kept(x) = k
  <2>1. Kept(x) = ((i \o <<>>) \o b) \o x.post
    BY <1>1 DEF Kept, KeptSetup, KeptPost
  <2>2. i \o <<>> = i
    BY <1>2, Empties DEF Does
  <2>. QED  BY <1>8, <2>1, <2>2
<1>. QED  BY <1>1, <1>4, <1>5, <1>7, <1>10, <1>11 DEF RustDockerfile

LEMMA PythonKeeps ==
    ASSUME NEW x, Renderable(x), x.runtime = "python"
    PROVE  Complete(PythonDockerfile(x), Kept(x))
<1>1. PICK i, b, simple, from, ri, rboot, rsetup, rb, rlast, last, venv, take :
         /\ i = One(x.install) /\ b = One(x.build)
         /\ simple = From(x.image, "final") /\ from = From(x.image, "builder")
         /\ ri = Run(x.install) /\ rboot = Runs(x.boot)
         /\ rsetup = Runs(x.setup) /\ rb = Run(x.build) /\ rlast = Runs(x.post)
         /\ last = From(x.final, "final") /\ venv = Take("venv", "builder")
         /\ take = Take("all", "builder")
  OBVIOUS
<1>2. /\ Does(ri, i) /\ Does(rb, b) /\ Does(rboot, x.boot) /\ Does(rsetup, x.setup)
      /\ Does(rlast, x.post) /\ Does(Copy, <<>>) /\ Does(Apt, <<>>) /\ Does(last, <<>>)
      /\ Does(venv, <<>>) /\ Does(take, <<>>)
  <2>1. Does(rboot, x.boot) /\ Does(rsetup, x.setup) /\ Does(rlast, x.post)
    BY <1>1, RunsDo DEF Renderable
  <2>2. Does(ri, i) /\ Does(rb, b)
    BY <1>1, RunDoes
  <2>. QED  BY <1>1, <2>1, <2>2, LinesDo
<1>3. Carries(from, <<>>) /\ Carries(simple, <<>>)
  BY <1>1, Opens
<1>4. CASE SimplePython(x)
  <2>1. Carries((simple \o Copy) \o rboot, <<>>)
    BY <1>2, <1>3, CarriesMore
  <2>2. Carries(((simple \o Copy) \o rboot) \o ri, i)
    BY <1>2, <2>1, CarriesMore
  <2>3. Complete((((simple \o Copy) \o rboot) \o ri) \o Start, i)
    BY <2>2, Closes, Completes
  <2>4. x.setup = <<>> /\ b = <<>>
    BY <1>1, <1>4 DEF SimplePython, One
  <2>5. Kept(x) = ((i \o x.setup) \o b) \o <<>>
    BY <1>1, <1>4 DEF Kept, KeptSetup, KeptPost
  <2>6. i \o <<>> = i
    BY <1>2, Empties DEF Does
  <2>7. Kept(x) = i
    BY <2>4, <2>5, <2>6
  <2>. QED  BY <1>1, <1>4, <2>3, <2>7 DEF PythonDockerfile
<1>5. CASE ~SimplePython(x)
  <2>1. PICK opening : /\ opening = ((from \o Apt) \o Copy) \o rboot
                       /\ Carries(opening, <<>>)
    BY <1>2, <1>3, CarriesMore
  <2>2. Carries(opening \o ri, i)
    BY <1>2, <2>1, CarriesMore
  <2>3. Carries((opening \o ri) \o rsetup, i \o x.setup)
    BY <1>2, <2>2, CarriesMore
  <2>4. Carries(((opening \o ri) \o rsetup) \o rb, (i \o x.setup) \o b)
    BY <1>2, <2>3, CarriesMore
  <2>5. PICK all : /\ all = (((opening \o ri) \o rsetup) \o rb) \o rlast
                   /\ Carries(all, ((i \o x.setup) \o b) \o x.post)
    BY <1>2, <2>4, CarriesMore
  <2>6. PICK k : k = ((i \o x.setup) \o b) \o x.post
    OBVIOUS
  <2>7. Closed((((all \o last) \o Apt) \o venv) \o take, k)
    BY <1>2, <2>5, <2>6, Closes, ClosedMore DEF Does
  <2>8. Complete(((((all \o last) \o Apt) \o venv) \o take) \o Start, k)
    BY <2>7, Completes
  <2>9. Kept(x) = k
    BY <1>1, <1>5, <2>6 DEF Kept, KeptSetup, KeptPost
  <2>. QED  BY <1>1, <1>5, <2>1, <2>5, <2>8, <2>9 DEF PythonDockerfile
<1>. QED  BY <1>4, <1>5

\* DockerfileKeeps: every renderer's Dockerfile begins with a stage, ends with the
\* container's start, and in between runs the commands of the plan that it knows, in
\* the order of the phases and with no other command between them.
THEOREM DockerfileKeeps ==
    ASSUME NEW x, Renderable(x)
    PROVE  Complete(Dockerfile(x), Kept(x))
<1>1. CASE x.static
  BY <1>1, StaticKeeps DEF Dockerfile
<1>2. CASE ~x.static /\ x.runtime = "php"
  BY <1>2, PHPKeeps DEF Dockerfile
<1>3. CASE ~x.static /\ x.runtime = "python"
  BY <1>3, PythonKeeps DEF Dockerfile
<1>4. CASE ~x.static /\ x.runtime = "go"
  BY <1>4, GoKeeps DEF Dockerfile
<1>5. CASE ~x.static /\ x.runtime = "dotnet"
  BY <1>5, DotnetKeeps DEF Dockerfile
<1>6. CASE ~x.static /\ x.runtime = "rust"
  BY <1>6, RustKeeps DEF Dockerfile
<1>7. CASE ~x.static /\ x.runtime \notin {"php", "python", "go", "dotnet", "rust"}
  BY <1>7, ApplicationKeeps DEF Dockerfile
<1>. QED  BY <1>1, <1>2, <1>3, <1>4, <1>5, <1>6, <1>7

\* The beginning of a sequence, and the rest of it.
LEMMA FirstPart ==
    ASSUME NEW T, NEW s \in Seq(T), NEW n \in 0..Len(s)
    PROVE  /\ SubSeq(s, 1, n) \in Seq(T) /\ Len(SubSeq(s, 1, n)) = n
           /\ \A j \in 1..n : SubSeq(s, 1, n)[j] = s[j]
<1>1. PICK m, t : m = 1 /\ t = SubSeq(s, m, n)
  OBVIOUS
<1>2. Len(s) \in Nat /\ n \in Nat /\ n <= Len(s) /\ m \in Int /\ n \in Int
  BY <1>1, LenProperties
<1>3. \A j \in m..n : s[j] \in T
  BY <1>1, <1>2, ElementOfSeq
<1>4. /\ t \in Seq(T) /\ Len(t) = IF m <= n THEN n - m + 1 ELSE 0
      /\ \A j \in 1..n - m + 1 : t[j] = s[m + j - 1]
  BY <1>1, <1>2, <1>3, SubSeqProperties
<1>5. Len(t) = n /\ n - m + 1 = n
  BY <1>1, <1>2, <1>4
<1>6. ASSUME NEW j \in 1..n PROVE t[j] = s[j]
  <2>1. m + j - 1 = j
    BY <1>1, <1>2
  <2>. QED  BY <1>4, <1>5, <2>1
<1>. QED  BY <1>1, <1>4, <1>5, <1>6

LEMMA Suffix ==
    ASSUME NEW T, NEW E \in Seq(T), NEW n, n = Len(E), NEW m \in 1..n + 1
    PROVE  /\ SubSeq(E, m, n) \in Seq(T) /\ Len(SubSeq(E, m, n)) = n + 1 - m
           /\ \A j \in 1..n + 1 - m : SubSeq(E, m, n)[j] = E[m + j - 1]
<1>1. n \in Nat /\ \A j \in m..n : E[j] \in T
  BY ElementOfSeq
<1>2. m \in Int /\ n \in Int
  BY <1>1
<1>3. /\ SubSeq(E, m, n) \in Seq(T)
      /\ Len(SubSeq(E, m, n)) = IF m <= n THEN n - m + 1 ELSE 0
      /\ \A j \in 1..n - m + 1 : SubSeq(E, m, n)[j] = E[m + j - 1]
  BY <1>1, <1>2, SubSeqProperties
<1>4. n - m + 1 = n + 1 - m /\ (m <= n \/ n + 1 - m = 0)
  BY <1>1
<1>. QED  BY <1>3, <1>4

\* A piece of a sequence, as CommandsKept says it.
LEMMA PieceOf ==
    ASSUME NEW b, NEW k, NEW a, IsSequence(b), IsSequence(k), IsSequence(a),
           NEW E, E = (b \o k) \o a
    PROVE  \E i \in 1..Len(E) + 1 : IsPrefix(k, SubSeq(E, i, Len(E)))
<1>1. PICK T : b \in Seq(T) /\ k \in Seq(T) /\ a \in Seq(T)
  BY SequencesTogether
<1>2. PICK nb, nk, na, n : nb = Len(b) /\ nk = Len(k) /\ na = Len(a) /\ n = nb + nk + na
  OBVIOUS
<1>3. nb \in Nat /\ nk \in Nat /\ na \in Nat /\ n \in Nat
  BY <1>1, <1>2, LenProperties
<1>4. PICK c : c = b \o k
  OBVIOUS
<1>5. /\ c \in Seq(T) /\ Len(c) = nb + nk
      /\ \A j \in 1..nb + nk : c[j] = IF j <= nb THEN b[j] ELSE k[j - nb]
  <2>1. /\ b \o k \in Seq(T) /\ Len(b \o k) = Len(b) + Len(k)
        /\ \A j \in 1..Len(b) + Len(k) :
              (b \o k)[j] = IF j <= Len(b) THEN b[j] ELSE k[j - Len(b)]
    BY <1>1, ConcatProperties
  <2>. QED  BY <1>2, <1>4, <2>1
<1>6. /\ E \in Seq(T) /\ Len(E) = n
      /\ \A j \in 1..n : E[j] = IF j <= nb + nk THEN c[j] ELSE a[j - (nb + nk)]
  <2>1. /\ c \o a \in Seq(T) /\ Len(c \o a) = Len(c) + Len(a)
        /\ \A j \in 1..Len(c) + Len(a) : (c \o a)[j] = IF j <= Len(c) THEN c[j] ELSE a[j - Len(c)]
    BY <1>1, <1>5, ConcatProperties
  <2>. QED  BY <1>2, <1>3, <1>4, <1>5, <2>1
<1>7. PICK m, s : m = nb + 1 /\ s = SubSeq(E, m, n)
  OBVIOUS
<1>8. /\ s \in Seq(T) /\ Len(s) = nk + na
      /\ \A j \in 1..nk : s[j] = k[j]
  <2>1. m \in 1..n + 1
    BY <1>2, <1>3, <1>7
  <2>2. /\ s \in Seq(T) /\ Len(s) = n + 1 - m
        /\ \A j \in 1..n + 1 - m : s[j] = E[m + j - 1]
    BY <1>3, <1>6, <1>7, <2>1, Suffix
  <2>3. n + 1 - m = nk + na
    BY <1>2, <1>3, <1>7
  <2>4. ASSUME NEW j \in 1..nk PROVE s[j] = k[j]
    <3>1. PICK q : q = m + j - 1
      OBVIOUS
    <3>2. q \in 1..n /\ q \in 1..nb + nk /\ q <= nb + nk /\ ~(q <= nb) /\ q - nb = j
          /\ j \in 1..nk + na
      <4>1. q = nb + j
        BY <1>3, <1>7, <3>1
      <4>2. j \in Nat /\ 1 <= j /\ j <= nk
        BY <1>3
      <4>. QED  BY <1>2, <1>3, <4>1, <4>2
    <3>3. c[q] = k[j]
      BY <1>5, <3>2
    <3>4. E[q] = c[q]
      BY <1>6, <3>2
    <3>5. s[j] = E[q]
      BY <2>2, <2>3, <3>1, <3>2
    <3>. QED  BY <3>3, <3>4, <3>5
  <2>. QED  BY <2>2, <2>3, <2>4
<1>9. SubSeq(k, 1, nk) = SubSeq(s, 1, nk)
  <2>1. PICK l, r : l = SubSeq(k, 1, nk) /\ r = SubSeq(s, 1, nk)
    OBVIOUS
  <2>2. k \in Seq(T) /\ s \in Seq(T) /\ nk \in 0..Len(k) /\ nk \in 0..Len(s)
    BY <1>1, <1>2, <1>3, <1>8
  <2>3. l \in Seq(T) /\ Len(l) = nk /\ \A j \in 1..nk : l[j] = k[j]
    BY <2>1, <2>2, FirstPart
  <2>4. r \in Seq(T) /\ Len(r) = nk /\ \A j \in 1..nk : r[j] = s[j]
    BY <2>1, <2>2, FirstPart
  <2>5. \A j \in 1..Len(l) : l[j] = r[j]
    BY <1>8, <2>3, <2>4
  <2>. QED  BY <2>1, <2>3, <2>4, <2>5, SeqEqual
<1>10. IsPrefix(k, s)
  BY <1>2, <1>3, <1>8, <1>9 DEF IsPrefix
<1>11. m \in 1..Len(E) + 1
  BY <1>2, <1>3, <1>6, <1>7
<1>. QED  BY <1>6, <1>7, <1>10, <1>11

-----------------------------------------------------------------------------
(* The invariant. *)

\* What the steps of a build need of a Dockerfile's first and last line.
LEMMA DockerfileShape ==
    ASSUME NEW x, Renderable(x), NEW ls, ls = Dockerfile(x)
    PROVE  /\ Len(ls) \in Nat \ {0} /\ ls # <<>>
           /\ ls[1].do = "from" /\ ls[Len(ls)].do = "start"
  BY DockerfileKeeps DEF Complete, Closed

\* What planning gives, whatever the job has: a plan whose Dockerfile can be carried
\* out and whose configuration leads to the same one again.
LEMMA PlanningRepeats ==
    ASSUME NEW p, NEW cfg, NEW made, made.ok,
           NEW detects \in BOOLEAN,
           made = (IF detects THEN Detect(p) ELSE Finalize(p, cfg)),
           ~detects => Inspected(p, cfg)
    PROVE  /\ Renderable(made)
           /\ Repeats(made, IF detects THEN Detect(p) ELSE Finalize(p, ConfigOf(made)))
           /\ ~detects => Inspected(p, ConfigOf(made))
<1>1. CASE detects
  <2>1. Detect(p).ok
    BY <1>1
  <2>2. Renderable(made)
    BY <1>1, <2>1, Found
  <2>3. Repeats(made, made)
    BY DEF Repeats
  <2>. QED  BY <1>1, <2>2, <2>3
<1>2. CASE ~detects
  <2>1. made = Finalize(p, cfg) /\ Inspected(p, cfg)
    BY <1>2
  <2>2. /\ Renderable(made) /\ Inspected(p, ConfigOf(made))
        /\ Repeats(made, Finalize(p, ConfigOf(made)))
    BY <2>1, Replan
  <2>. QED  BY <1>2, <2>2
<1>. QED  BY <1>1, <1>2

LEMMA InitialImage == Init => ImageInv
<1> SUFFICES ASSUME Init PROVE ImageInv
  OBVIOUS
<1>1. ~NoPlan.ok
  BY DEF NoPlan
<1>2. ImageTypeOK
  <2>1. project.dir \in Dirs
    BY ProjectsAssumption DEF Init
  <2>2. auto \in BOOLEAN
    BY DEF Init
  <2>3. crashes = 0 /\ 0 \in 0..MaxCrashes
    <3>1. crashes = 0
      BY DEF Init
    <3>2. 0 \in 0..MaxCrashes
      BY CrashesAssumption
    <3>. QED  BY <3>1, <3>2
  <2>4. phase = "planning" /\ ~plan.ok
    BY <1>1 DEF Init
  <2>. QED  BY <2>1, <2>2, <2>3, <2>4 DEF ImageTypeOK
<1>3. ConfigKnown
  <2>1. CASE auto
    BY <2>1 DEF ConfigKnown
  <2>2. CASE ~auto
    <3>1. PICK found \in {Detect(project)}, s \in Submissions :
             found.ok /\ config = Submitted(found, s)
      <4>1. \/ auto = TRUE
            \/ \E found \in {Detect(project)}, s \in Submissions :
                  found.ok /\ config = Submitted(found, s)
        BY DEF Init
      <4>. QED  BY <2>2, <4>1
    <3>2. found = Detect(project) /\ Detect(project).ok
      BY <3>1
    <3>3. Inspected(project, ConfigOf(found))
      BY <3>2, Found
    <3>4. Inspected(project, Submitted(found, s))
      BY <3>3, SubmissionInspected
    <3>. QED  BY <3>1, <3>2, <3>4 DEF ConfigKnown
  <2>. QED  BY <2>1, <2>2
<1>4. PlanStored
  BY <1>1 DEF Init, PlanStored
<1>5. FirstKept
  BY DEF Init, FirstKept
<1>. QED  BY <1>2, <1>3, <1>4, <1>5 DEF ImageInv

LEMMA GenerateKeeps == ASSUME ImageInv, Generate PROVE ImageInv'
<1>1. PICK made : /\ made = Planned /\ made.ok
                  /\ plan' = made /\ config' = ConfigOf(made) /\ lines' = Dockerfile(made)
  BY DEF Generate
<1>2. /\ phase = "planning" /\ phase' = "building" /\ pc' = 1
      /\ first' = IF first = <<>> THEN lines' ELSE first
      /\ project' = project /\ auto' = auto /\ crashes' = crashes
  BY DEF Generate
<1>3. ImageTypeOK /\ ConfigKnown /\ FirstKept
  BY DEF ImageInv
<1>4. auto \in BOOLEAN /\ made = (IF auto THEN Detect(project) ELSE Finalize(project, config))
      /\ (~auto => Inspected(project, config))
  BY <1>1, <1>3 DEF ImageTypeOK, ConfigKnown, Planned
<1>5. /\ Renderable(made)
      /\ Repeats(made, IF auto THEN Detect(project) ELSE Finalize(project, ConfigOf(made)))
      /\ ~auto => Inspected(project, ConfigOf(made))
  BY <1>1, <1>4, PlanningRepeats
<1>6. Planned' = IF auto THEN Detect(project) ELSE Finalize(project, ConfigOf(made))
  BY <1>1, <1>2 DEF Planned
<1>7. Len(lines') \in Nat \ {0} /\ lines' # <<>>
  BY <1>1, <1>5, DockerfileShape
<1>8. first' = lines'
  BY <1>1, <1>2, <1>3 DEF FirstKept
<1>9. ImageTypeOK'
  BY <1>1, <1>2, <1>3, <1>7 DEF ImageTypeOK
<1>10. ConfigKnown'
  BY <1>1, <1>2, <1>3, <1>5 DEF ConfigKnown
<1>11. PlanStored'
  BY <1>1, <1>5, <1>6, <1>8 DEF PlanStored
<1>12. FirstKept'
  BY <1>2 DEF FirstKept
<1>. QED  BY <1>9, <1>10, <1>11, <1>12 DEF ImageInv

\* Steps that leave the plan, the row and the Dockerfile alone.
LEMMA RestStays ==
    ASSUME ImageInv, phase # "planning" \/ phase' = "refused", phase' # "planning",
           UNCHANGED <<project, auto, config, plan, lines, first>>
    PROVE  ConfigKnown' /\ PlanStored' /\ FirstKept'
<1>1. Planned' = Planned
  BY DEF Planned
<1>2. ConfigKnown'
  BY DEF ImageInv, ConfigKnown
<1>3. PlanStored'
  BY <1>1 DEF ImageInv, PlanStored
<1>4. FirstKept'
  BY DEF FirstKept
<1>. QED  BY <1>2, <1>3, <1>4

LEMMA RefuseKeeps == ASSUME ImageInv, Refuse PROVE ImageInv'
<1>1. /\ phase = "planning" /\ phase' = "refused"
      /\ UNCHANGED <<project, auto, config, plan, lines, pc, stages, here, first, crashes>>
  BY DEF Refuse
<1>2. ImageTypeOK'
  BY <1>1 DEF ImageInv, ImageTypeOK
<1>3. ConfigKnown' /\ PlanStored' /\ FirstKept'
  BY <1>1, RestStays
<1>. QED  BY <1>2, <1>3 DEF ImageInv

\* A line is not the last one, and after it the build is in a stage that is there.
LEMMA StepKeeps == ASSUME ImageInv, Step PROVE ImageInv'
<1>1. /\ phase = "building" /\ pc' = pc + 1
      /\ UNCHANGED <<project, auto, config, phase, plan, lines, first, crashes>>
  BY DEF Step
<1>2. PICK line : /\ line = lines[pc]
                  /\ DoFrom(line) \/ DoCopy(line) \/ DoTake(line) \/ DoApt(line) \/ DoRun(line)
  BY DEF Step
<1>3. ImageTypeOK /\ plan.ok
  BY <1>1 DEF ImageInv, ImageTypeOK
<1>4. Renderable(plan) /\ lines = Dockerfile(plan)
  BY <1>3 DEF ImageInv, PlanStored
<1>5. /\ Len(lines) \in Nat \ {0} /\ lines[1].do = "from" /\ lines[Len(lines)].do = "start"
  BY <1>4, DockerfileShape
<1>6. pc \in 1..Len(lines) /\ (pc > 1 => here \in DOMAIN stages)
  BY <1>3 DEF ImageTypeOK
<1>7. line.do # "start"
  BY <1>2 DEF DoFrom, DoCopy, DoTake, DoApt, DoRun
<1>8. pc' \in 1..Len(lines) /\ pc' > 1
  <2>1. pc # Len(lines)
    BY <1>2, <1>5, <1>7
  <2>. QED  BY <1>1, <1>5, <1>6, <2>1
<1>9. here' \in DOMAIN stages'
  <2>1. CASE DoFrom(line)
    BY <2>1 DEF DoFrom
  <2>2. CASE DoCopy(line) \/ DoTake(line) \/ DoApt(line) \/ DoRun(line)
    <3>1. line.do # "from"
      BY <2>2 DEF DoCopy, DoTake, DoApt, DoRun
    <3>2. pc # 1
      BY <1>2, <1>5, <3>1
    <3>3. here \in DOMAIN stages
      BY <1>5, <1>6, <3>2
    <3>4. \E s : Put(s)
      <4>1. CASE DoCopy(line)
        BY <4>1 DEF DoCopy
      <4>2. CASE DoTake(line)
        BY <4>2 DEF DoTake
      <4>3. CASE DoApt(line)
        BY <4>3 DEF DoApt
      <4>4. CASE DoRun(line)
        BY <4>4 DEF DoRun
      <4>. QED  BY <2>2, <4>1, <4>2, <4>3, <4>4
    <3>. QED  BY <3>3, <3>4 DEF Put
  <2>. QED  BY <1>2, <2>1, <2>2
<1>10. ImageTypeOK'
  BY <1>1, <1>3, <1>8, <1>9 DEF ImageTypeOK
<1>11. ConfigKnown' /\ PlanStored' /\ FirstKept'
  BY <1>1, RestStays
<1>. QED  BY <1>10, <1>11 DEF ImageInv

\* The end of a build: a command fails, or the container is started.
LEMMA EndKeeps == ASSUME ImageInv, FailStep \/ StartContainer PROVE ImageInv'
<1>1. /\ phase = "building" /\ phase' \in {"failed", "running", "stopped"}
      /\ UNCHANGED <<project, auto, config, plan, lines, pc, stages, here, first, crashes>>
  BY DEF FailStep, StartContainer
<1>2. ImageTypeOK'
  BY <1>1 DEF ImageInv, ImageTypeOK
<1>3. ConfigKnown' /\ PlanStored' /\ FirstKept'
  BY <1>1, RestStays
<1>. QED  BY <1>2, <1>3 DEF ImageInv

\* After a crash nothing is left but the row, which is as the plan left it.
LEMMA CrashKeeps == ASSUME ImageInv, Crash PROVE ImageInv'
<1>1. /\ phase = "building" /\ crashes < MaxCrashes
      /\ phase' = "planning" /\ crashes' = crashes + 1 /\ plan' = NoPlan
      /\ UNCHANGED <<project, auto, config, first>>
  BY DEF Crash
<1>2. ~NoPlan.ok
  BY DEF NoPlan
<1>3. plan.ok /\ crashes \in 0..MaxCrashes
  BY <1>1 DEF ImageInv, ImageTypeOK
<1>4. Planned' = Planned
  BY <1>1 DEF Planned
<1>5. ImageTypeOK'
  BY <1>1, <1>2, <1>3, CrashesAssumption DEF ImageInv, ImageTypeOK
<1>6. ConfigKnown'
  BY <1>1 DEF ImageInv, ConfigKnown
<1>7. PlanStored'
  BY <1>1, <1>2 DEF PlanStored
<1>8. FirstKept'
  BY <1>1, <1>3, <1>4 DEF ImageInv, PlanStored, Repeats, FirstKept
<1>. QED  BY <1>5, <1>6, <1>7, <1>8 DEF ImageInv

LEMMA NothingDone == ASSUME ImageInv, UNCHANGED vars PROVE ImageInv'
<1>1. UNCHANGED <<project, auto, config, phase, plan, lines, pc, stages, here, first, crashes>>
  BY DEF vars
<1>2. Planned' = Planned
  BY <1>1 DEF Planned
<1>3. ImageTypeOK' /\ ConfigKnown'
  BY <1>1 DEF ImageInv, ImageTypeOK, ConfigKnown
<1>4. PlanStored'
  BY <1>1, <1>2 DEF ImageInv, PlanStored
<1>5. FirstKept'
  BY <1>1, <1>2 DEF ImageInv, FirstKept
<1>. QED  BY <1>3, <1>4, <1>5 DEF ImageInv

\* ImageInvariant: for every repository and everything a user submits of its
\* configuration, with crashes at any line: the row always has the configuration of
\* the plan that is being built, and planning it again repeats that plan.
THEOREM ImageInvariant == Spec => []ImageInv
<1>1. ImageInv /\ [Next]_vars => ImageInv'
  <2> SUFFICES ASSUME ImageInv, [Next]_vars PROVE ImageInv'
    OBVIOUS
  <2>1. CASE Generate
    BY <2>1, GenerateKeeps
  <2>2. CASE Refuse
    BY <2>2, RefuseKeeps
  <2>3. CASE Step
    BY <2>3, StepKeeps
  <2>4. CASE FailStep \/ StartContainer
    BY <2>4, EndKeeps
  <2>5. CASE Crash
    BY <2>5, CrashKeeps
  <2>6. CASE Done \/ UNCHANGED vars
    BY <2>6, NothingDone DEF Done
  <2>. QED  BY <2>1, <2>2, <2>3, <2>4, <2>5, <2>6 DEF Next
<1>. QED  BY <1>1, InitialImage, PTL DEF Spec

\* EveryCommandKept (CommandsKept): the Dockerfile of every plan, in every state where
\* it has just been written, runs each command of the stored configuration that its
\* renderer knows, in the order of the phases, with no other command between them.
THEOREM EveryCommandKept == Spec => []CommandsKept
<1>1. ImageInv => CommandsKept
  <2> SUFFICES ASSUME ImageInv, Fresh
               PROVE  \E i \in 1..Len(Executed(lines)) + 1 :
                          IsPrefix(Kept(plan), SubSeq(Executed(lines), i, Len(Executed(lines))))
    BY DEF CommandsKept
  <2>1. plan.ok
    BY DEF ImageInv, ImageTypeOK, Fresh
  <2>2. Renderable(plan) /\ lines = Dockerfile(plan)
    BY <2>1 DEF ImageInv, PlanStored
  <2>3. Closed(lines, Kept(plan))
    BY <2>2, DockerfileKeeps DEF Complete
  <2>4. PICK k, E : k = Kept(plan) /\ E = Executed(lines)
    OBVIOUS
  <2>5. PICK b, a : IsSequence(b) /\ IsSequence(k) /\ IsSequence(a) /\ E = (b \o k) \o a
    BY <2>3, <2>4 DEF Closed
  <2>6. \E i \in 1..Len(E) + 1 : IsPrefix(k, SubSeq(E, i, Len(E)))
    BY <2>5, PieceOf
  <2>. QED  BY <2>4, <2>6
<1>. QED  BY <1>1, ImageInvariant, PTL

\* SubmissionIsFaithful (SubmitAsFound): for every repository, a user who submits the
\* inspected configuration as it is gets the image of an automatic build, but for the
\* parts that the configuration does not have.
THEOREM SubmissionIsFaithful == Spec => []SubmitAsFound
<1>1. ImageInv => SubmitAsFound
  <2> SUFFICES ASSUME ImageInv, phase = "planning", ~auto, NEW found, NEW made,
                      found = Detect(project), made = Planned
               PROVE  AsFound(found, made)
    BY DEF SubmitAsFound
  <2> SUFFICES ASSUME config = ConfigOf(found)
               PROVE  SubmitRepeats(found, made)
    BY DEF AsFound, SubmitRepeats
  <2>1. Detect(project).ok
    BY DEF ImageInv, ConfigKnown
  <2>2. made = Finalize(project, ConfigOf(found))
    BY DEF Planned
  <2>. QED  BY <2>1, <2>2, Found
<1>. QED  BY <1>1, ImageInvariant, PTL

\* ReplanIsStable (ReplanRepeats): however often the builder crashes and plans the job
\* again from what it has stored, it writes the Dockerfile of the first time, and starts
\* the container in the same way unless the runtime is PHP.
THEOREM ReplanIsStable == Spec => []ReplanRepeats
<1>1. ImageInv => ReplanRepeats
  <2> SUFFICES ASSUME ImageInv, Fresh PROVE ReplanRepeats
    BY DEF ReplanRepeats
  <2>1. plan.ok
    BY DEF ImageInv, ImageTypeOK, Fresh
  <2>2. first = lines /\ Repeats(plan, Planned)
    BY <2>1 DEF ImageInv, PlanStored
  <2>. QED  BY <2>2 DEF ReplanRepeats, Repeats
<1>. QED  BY <1>1, ImageInvariant, PTL

=============================================================================
