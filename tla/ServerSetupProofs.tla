--------------------------- MODULE ServerSetupProofs ---------------------------
(***************************************************************************)
(* Proofs about ServerSetup, for any lists of datasources, any numbers of  *)
(* runs and faults: a setup that returns normally has everything defined   *)
(* and in effect (SetupDone), and without a fault one fails only for the   *)
(* two reasons NoSpuriousFailure names.                                    *)
(***************************************************************************)
EXTENDS ServerSetup, ManagementOperationsProofs

-----------------------------------------------------------------------------
(* The program of handleAfterStart                                         *)

P == Len(PlainDs)
X == Len(XaDs)
M == Len(Props)
L == P + X + 2    \* its instructions: L - 1 questions and the reload

IsPlain(q) == q \in 1..P
IsXa(q)    == q \in (P + 1)..(P + X)
IsQueue(q) == q = P + X + 1

(* What the q-th question asks for, and what follows a no.                 *)
Subject(q) ==
  IF IsPlain(q) THEN DataSource(PlainDs[q])
  ELSE IF IsXa(q) THEN XaDataSource(XaDs[q - P])
  ELSE JmsQueue(Queue)

Answer(q) ==
  IF IsPlain(q) THEN <<AddOp(Subject(q)), Changed>>
  ELSE IF IsXa(q) THEN AddXADataSource(XaDs[q - P]) \o <<Changed>>
  ELSE IF IsQueue(q) THEN <<AddOp(Subject(q))>>
  ELSE <<>>

(* All that the q-th answer has to define; its instruction after which it  *)
(* is defined.                                                             *)
Group(q) ==
  {Subject(q)} \cup IF IsXa(q) THEN {Append(Subject(q), p) : p \in Range(Props)} ELSE {}
DoneAt(q) == IF IsXa(q) THEN M + 3 ELSE 1

(* What is left of the program before the k-th instruction of the q-th     *)
(* answer, the answer before the first question being empty.               *)
Left(q, k) ==
  LET a == Len(Answer(q)) - k + 1
  IN  [i \in 1..(a + L - q) |-> IF i <= a THEN Answer(q)[k + i - 1]
                                ELSE HandleAfterStart[q + i - a]]

-----------------------------------------------------------------------------
(* The invariant                                                           *)

(* Every datasource configured is in effect.                               *)
Fresh == config \ {JmsQueue(Queue)} \subseteq booted

(* In the middle of an xa-datasource its operations so far are collected.  *)
Collecting(q, k) == IsXa(q) /\ k \in 2..(M + 3)
Mode(q, k) ==
  /\ isBatchMode = Collecting(q, k)
  /\ isBatchMode => batch = [j \in 1..(k - 2) |-> Answer(q)[j + 1]]

(* What has been passed is defined.                                        *)
Have(q, k) ==
  \A i \in 1..q : i < q \/ k > DoneAt(q) => Group(i) \subseteq config

(* Without a fault: what is about to be defined is not there, and what has *)
(* been is in effect or will be noted for the reload.                      *)
Within(q, k) == (IsPlain(q) \/ IsXa(q)) /\ k <= Len(Answer(q))
Sane(q, k) ==
  /\ server = "up"
  /\ q >= 1 /\ k <= DoneAt(q) => Subject(q) \notin config
  /\ Fresh \/ (deployed /\ (wasChangeDone \/ Within(q, k)))
  /\ Within(q, k) /\ k > DoneAt(q) => deployed

Here(q, k) ==
  /\ prog = Left(q, k) /\ outcome = "running"
  /\ Mode(q, k) /\ Have(q, k)
  /\ faults = 0 => Sane(q, k)

Asking == \E q \in 0..(L - 1) : \E k \in 1..(Len(Answer(q)) + 1) : Here(q, k)

(* After the questions: the reload, or the end.                            *)
Reloading ==
  /\ \/ prog \in {Reload, <<Wait>>} /\ outcome = "running"
     \/ prog = <<>> /\ outcome = "ok"
  /\ ~isBatchMode /\ Complete \subseteq config
  /\ faults = 0 => /\ prog = Reload => server = "up"
                   /\ prog = <<Wait>> => server # "up" \/ Fresh
                   /\ prog = <<>> => server = "up" /\ Fresh

TooSlow == polls > PollLimit /\ (server = "up" => Fresh)
Refused == unscanned /\ server = "up" /\ Fresh

Broken ==
  /\ prog = <<>> /\ outcome = "failed"
  /\ faults = 0 => TooSlow \/ Refused

(* Everywhere: XA datasources are whole and attributes have their resource;*)
(* without a fault the jar is whole once copied.                           *)
Steady ==
  /\ faults \in Nat /\ polls \in Nat
  /\ server \in {"up", "reloading", "down"} /\ jar \in {"none", "partial", "whole"}
  /\ JdbcDriver \notin config
  /\ \A n \in Range(XaDs) : XaDataSource(n) \in config =>
       \A p \in Range(Props) : Append(XaDataSource(n), p) \in config
  /\ \A p \in config : Of(p) \in config
  /\ faults = 0 => /\ phase \in {"starting", "setup", "done", "failed"} => jar = "whole"
                   /\ jar = "partial" => phase = "copying"

PhaseInv ==
  /\ phase = "setup" =>
       /\ server # "down"
       /\ faults = 0 => deployed \/ unscanned
       /\ Asking \/ Reloading \/ Broken
  /\ phase # "setup" /\ faults = 0 => TooSlow \/ (Fresh /\ server # "reloading")
  /\ phase = "done" => Complete \subseteq config /\ (faults = 0 => Fresh)
  /\ phase = "failed" /\ faults = 0 => unscanned \/ polls > PollLimit

SetupInv == Steady /\ PhaseInv

-----------------------------------------------------------------------------
(* The program, instruction by instruction                                 *)

Items ==
  Instructions \cup {Changed, ReloadIfChanged}
  \cup {IfDefined(Subject(q), <<>>, Answer(q)) : q \in 1..(L - 1)}

(* The numbers of datasources and properties.                              *)
LEMMA Counts ==
  /\ P \in Nat /\ X \in Nat /\ M \in Nat /\ L \in Nat /\ L = P + X + 2
  /\ \A i \in 1..P : PlainDs[i] \in Names
  /\ \A i \in 1..X : XaDs[i] \in Names
  /\ \A q \in 1..(L - 1) : IsPlain(q) \/ IsXa(q) \/ IsQueue(q)
  /\ \A q : IsXa(q) => q - P \in 1..X /\ ~IsPlain(q) /\ ~IsQueue(q)
  /\ \A q : IsQueue(q) => ~IsPlain(q) /\ q = L - 1
<1>1. P \in Nat /\ X \in Nat /\ M \in Nat
  BY SetupAssumption, ManagementAssumption, LenProperties DEF P, X, M
<1>2. /\ \A i \in 1..P : PlainDs[i] \in Names
      /\ \A i \in 1..X : XaDs[i] \in Names
  BY SetupAssumption, ElementOfSeq DEF P, X
<1> HIDE DEF P, X, M
<1> QED
  BY <1>1, <1>2 DEF L, IsPlain, IsXa, IsQueue

(* What each question asks for.                                            *)
LEMMA SubjectFacts ==
  ASSUME NEW q \in 1..(L - 1)
  PROVE  /\ Subject(q) \in Resources /\ Subject(q) \in Seq(Words) /\ Len(Subject(q)) = 2
         /\ IsPlain(q) => Subject(q) = DataSource(PlainDs[q])
         /\ IsXa(q) => Subject(q) = XaDataSource(XaDs[q - P]) /\ XaDs[q - P] \in Names
         /\ IsQueue(q) => Subject(q) = JmsQueue(Queue)
<1>1. /\ IsPlain(q) => Subject(q) = DataSource(PlainDs[q]) /\ PlainDs[q] \in Names
      /\ IsXa(q) => Subject(q) = XaDataSource(XaDs[q - P]) /\ XaDs[q - P] \in Names
      /\ IsQueue(q) => Subject(q) = JmsQueue(Queue)
  <2>1. IsPlain(q) => q \in 1..P
    BY DEF IsPlain
  <2>2. IsQueue(q) => ~IsPlain(q) /\ ~IsXa(q)
    BY Counts
  <2> QED
    BY <2>1, <2>2, Counts DEF Subject
<1>2. IsPlain(q) \/ IsXa(q) \/ IsQueue(q)
  BY Counts
<1>3. Subject(q) \in Resources
  BY <1>1, <1>2, PathFacts, SetupAssumption
<1> QED
  BY <1>1, <1>3, ResourceFacts

(* addXADataSource, instruction by instruction.                            *)
LEMMA AddXaElements ==
  ASSUME NEW n \in Names
  PROVE  LET s == AddXADataSource(n)
             x == XaDataSource(n)
         IN  /\ s \in Seq(Instructions) /\ Len(s) \in Nat /\ Len(s) >= M + 3
             /\ s[1] = StartBatch /\ s[2] = AddOp(x)
             /\ \A j \in 1..M : s[2 + j] = AddOp(Append(x, Props[j]))
             /\ s[M + 3] = RunBatch
             /\ \A i \in (M + 4)..Len(s) : \E a \in Words : s[i] = WriteOp(x, a)
<1> DEFINE x == XaDataSource(n)
           a == <<StartBatch, AddOp(x)>>
           b == [i \in 1..Len(Props) |-> AddOp(Append(x, Props[i]))]
           r == <<RunBatch>>
           w == [i \in 1..Len(RecoveryPlugin) |-> WriteOp(x, RecoveryPlugin[i])]
           d == IF n \in Db2 THEN w ELSE <<>>
           ab == a \o b
           abr == ab \o r
           s == abr \o d
<1>1. AddXADataSource(n) = s
  BY DEF AddXADataSource, Each
<1>2. x \in Resources /\ x \in XaPaths /\ RecoveryPlugin \in Seq(Words)
  <2>1. RecoveryPlugin[1] \in Words /\ RecoveryPlugin[2] \in Words
    BY WordFacts DEF RecoveryPlugin
  <2> QED
    BY <2>1, PathFacts DEF RecoveryPlugin, XaPaths
<1>3. /\ a \in Seq(Instructions) /\ Len(a) = 2 /\ a[1] = StartBatch /\ a[2] = AddOp(x)
      /\ r \in Seq(Instructions) /\ Len(r) = 1 /\ r[1] = RunBatch
  BY <1>2 DEF Instructions, Batching, XaAdds
<1>4. b \in Seq(Instructions) /\ d \in Seq(Instructions)
  <2>1. b \in Seq(Execs) /\ w \in Seq(Execs)
    BY <1>2, WordFacts, EachFacts
  <2>2. d \in Seq(Execs)
    BY <2>1, EmptySeq
  <2> HIDE DEF b, d
  <2> QED
    BY <2>1, <2>2, InstructionFacts, SeqMonotonic
<1>5. Len(b) = M /\ M \in Nat /\ \A i \in 1..M : b[i] = AddOp(Append(x, Props[i]))
  BY WordFacts, LenProperties DEF M
<1>6. \A i \in 1..Len(d) : \E c \in Words : d[i] = WriteOp(x, c)
  <2>1. Len(RecoveryPlugin) = 2
    BY DEF RecoveryPlugin
  <2>2. \A i \in 1..Len(w) : w[i] = WriteOp(x, RecoveryPlugin[i]) /\ RecoveryPlugin[i] \in Words
    BY <2>1, WordFacts
  <2>3. Len(<<>>) = 0
    OBVIOUS
  <2> HIDE DEF w
  <2>4. CASE n \in Db2
    BY <2>2, <2>4
  <2>5. CASE n \notin Db2
    <3>1. d = <<>>
      BY <2>5
    <3> QED
      BY <3>1
  <2> QED
    BY <2>4, <2>5
<1> HIDE DEF a, b, r, d, x
<1>0. \A u, v \in Seq(Instructions) :
        /\ u \o v \in Seq(Instructions) /\ Len(u \o v) = Len(u) + Len(v)
        /\ Len(u) \in Nat /\ Len(v) \in Nat
        /\ \A i \in 1..Len(u) : (u \o v)[i] = u[i]
        /\ \A i \in 1..Len(v) : (u \o v)[Len(u) + i] = v[i]
  BY Joined
<1>7. /\ ab \in Seq(Instructions) /\ Len(ab) = M + 2
      /\ ab[1] = StartBatch /\ ab[2] = AddOp(x)
      /\ \A j \in 1..M : ab[2 + j] = AddOp(Append(x, Props[j]))
  <2>1. /\ ab \in Seq(Instructions) /\ Len(ab) = Len(a) + Len(b)
        /\ \A i \in 1..Len(a) : ab[i] = a[i]
        /\ \A i \in 1..Len(b) : ab[Len(a) + i] = b[i]
    BY <1>0, <1>3, <1>4
  <2> HIDE DEF ab
  <2>2. Len(ab) = M + 2 /\ (\A i \in 1..2 : ab[i] = a[i]) /\ \A i \in 1..M : ab[2 + i] = b[i]
    BY <1>3, <1>5, <2>1
  <2> QED
    BY <1>3, <1>5, <2>1, <2>2
<1> HIDE DEF ab
<1>8. /\ abr \in Seq(Instructions) /\ Len(abr) = M + 3
      /\ abr[1] = StartBatch /\ abr[2] = AddOp(x)
      /\ \A j \in 1..M : abr[2 + j] = AddOp(Append(x, Props[j]))
      /\ abr[M + 3] = RunBatch
  <2>1. /\ abr \in Seq(Instructions) /\ Len(abr) = Len(ab) + Len(r)
        /\ \A i \in 1..Len(ab) : abr[i] = ab[i]
        /\ \A i \in 1..Len(r) : abr[Len(ab) + i] = r[i]
    BY <1>0, <1>3, <1>7
  <2> HIDE DEF abr
  <2>2. /\ Len(abr) = M + 3 /\ \A i \in 1..(M + 2) : abr[i] = ab[i]
        /\ abr[(M + 2) + 1] = r[1]
    BY <1>3, <1>5, <1>7, <2>1
  <2>3. (M + 2) + 1 = M + 3 /\ 1 \in 1..(M + 2) /\ 2 \in 1..(M + 2)
        /\ \A j \in 1..M : 2 + j \in 1..(M + 2)
    BY <1>5
  <2> QED
    BY <1>3, <1>7, <2>1, <2>2, <2>3
<1> HIDE DEF abr
<1>9. /\ s \in Seq(Instructions) /\ Len(s) = M + 3 + Len(d) /\ Len(d) \in Nat
      /\ \A i \in 1..(M + 3) : s[i] = abr[i]
      /\ \A i \in 1..Len(d) : s[M + 3 + i] = d[i]
  <2>1. /\ s \in Seq(Instructions) /\ Len(s) = Len(abr) + Len(d) /\ Len(d) \in Nat
        /\ \A i \in 1..Len(abr) : s[i] = abr[i]
        /\ \A i \in 1..Len(d) : s[Len(abr) + i] = d[i]
    BY <1>0, <1>4, <1>8
  <2> HIDE DEF s
  <2> QED
    BY <1>8, <2>1
<1> HIDE DEF s
<1>10. /\ 1 \in 1..(M + 3) /\ 2 \in 1..(M + 3) /\ M + 3 \in 1..(M + 3)
       /\ \A j \in 1..M : 2 + j \in 1..(M + 3)
       /\ \A i \in (M + 4)..(M + 3 + Len(d)) : i - (M + 3) \in 1..Len(d) /\ M + 3 + (i - (M + 3)) = i
       /\ M + 3 + Len(d) \in Nat /\ M + 3 + Len(d) >= M + 3
  BY <1>5, <1>9
<1>11. ASSUME NEW i \in (M + 4)..Len(s) PROVE \E c \in Words : s[i] = WriteOp(x, c)
  <2>1. i - (M + 3) \in 1..Len(d) /\ s[i] = d[i - (M + 3)]
    BY <1>9, <1>10, <1>11
  <2> QED
    BY <1>6, <2>1
<1> QED
  BY <1>1, <1>8, <1>9, <1>10, <1>11 DEF x

(* Two programs of one instruction each, one after the other.              *)
LEMMA PairJoined ==
  ASSUME NEW i, NEW j
  PROVE  <<i>> \o <<j>> = <<i, j>> /\ <<i>> \o <<>> = <<i>>
<1> DEFINE S == {i, j}
           a == <<i>>
           b == <<j>>
           c == <<i, j>>
<1>1. /\ a \in Seq(S) /\ b \in Seq(S) /\ c \in Seq(S) /\ <<>> \in Seq(S)
      /\ Len(a) = 1 /\ Len(b) = 1 /\ Len(c) = 2
      /\ c[1] = a[1] /\ c[2] = b[1]
  OBVIOUS
<1> HIDE DEF a, b, c, S
<1>2. a \o <<>> = a
  BY <1>1, ConcatEmptySeq
<1>3. /\ a \o b \in Seq(S) /\ Len(a \o b) = 2
      /\ (a \o b)[1] = a[1] /\ (a \o b)[2] = b[1]
  <2>1. /\ a \o b \in Seq(S) /\ Len(a \o b) = Len(a) + Len(b)
        /\ \A h \in 1..Len(a) : (a \o b)[h] = a[h]
        /\ \A h \in 1..Len(b) : (a \o b)[Len(a) + h] = b[h]
    <3>1. \A v, w \in Seq(S) :
            /\ v \o w \in Seq(S) /\ Len(v \o w) = Len(v) + Len(w)
            /\ \A h \in 1..Len(v) : (v \o w)[h] = v[h]
            /\ \A h \in 1..Len(w) : (v \o w)[Len(v) + h] = w[h]
      BY Joined
    <3> QED
      BY <1>1, <3>1
  <2> QED
    BY <1>1, <2>1
<1>4. a \o b = c
  <2>1. \A h \in 1..2 : (a \o b)[h] = c[h]
    BY <1>1, <1>3
  <2> QED
    BY <1>1, <1>3, <2>1, SeqEqual
<1> QED
  BY <1>2, <1>4 DEF a, b, c

(* What follows a no, instruction by instruction.                          *)
LEMMA AnswerElements ==
  ASSUME NEW q \in 1..(L - 1)
  PROVE  LET s == Answer(q)
             x == Subject(q)
         IN  /\ s \in Seq(Items) /\ Len(s) \in Nat /\ Len(s) >= 1 /\ Len(s) >= DoneAt(q)
             /\ IsPlain(q) => Len(s) = 2 /\ s[1] = AddOp(x) /\ s[2] = Changed
             /\ IsQueue(q) => Len(s) = 1 /\ s[1] = AddOp(x)
             /\ IsXa(q) => /\ Len(s) >= M + 4
                           /\ s[1] = StartBatch /\ s[2] = AddOp(x)
                           /\ \A j \in 1..M : s[2 + j] = AddOp(Append(x, Props[j]))
                           /\ s[M + 3] = RunBatch
                           /\ \A i \in (M + 4)..(Len(s) - 1) : \E a \in Words : s[i] = WriteOp(x, a)
                           /\ s[Len(s)] = Changed
<1> DEFINE x == Subject(q)
<1>1. Changed \in Items /\ Instructions \subseteq Items
  BY DEF Items
<1>2. x \in Resources
  BY SubjectFacts
<1>3. CASE IsPlain(q)
  <2>1. Answer(q) = <<AddOp(x), Changed>> /\ DoneAt(q) = 1
    BY <1>3, Counts DEF Answer, DoneAt
  <2>2. AddOp(x) \in Items
    <3>1. x \notin XaPaths
      <4>1. x = DataSource(PlainDs[q]) /\ PlainDs[q] \in Names
        BY <1>3, SubjectFacts, Counts DEF IsPlain
      <4> QED
        BY <4>1, PathFacts
    <3> QED
      BY <1>1, <1>2, <3>1, OpFacts, InstructionFacts
  <2> HIDE DEF x
  <2> QED
    BY <1>1, <1>3, <2>1, <2>2, Counts DEF x
<1>4. CASE IsQueue(q)
  <2>1. Answer(q) = <<AddOp(x)>> /\ DoneAt(q) = 1
    BY <1>4, Counts DEF Answer, DoneAt
  <2>2. AddOp(x) \in Items
    <3>1. x \notin XaPaths
      BY <1>4, SubjectFacts, PathFacts, SetupAssumption
    <3> QED
      BY <1>1, <1>2, <3>1, OpFacts, InstructionFacts
  <2> HIDE DEF x
  <2> QED
    BY <1>1, <1>4, <2>1, <2>2, Counts DEF x
<1>5. CASE IsXa(q)
  <2> DEFINE s == AddXADataSource(XaDs[q - P])
             c == <<Changed>>
             u == s \o c
  <2>1. Answer(q) = u /\ DoneAt(q) = M + 3
    BY <1>5, Counts DEF Answer, DoneAt
  <2>2. XaDs[q - P] \in Names /\ x = XaDataSource(XaDs[q - P])
    BY <1>5, SubjectFacts
  <2>3. /\ s \in Seq(Instructions) /\ Len(s) \in Nat /\ Len(s) >= M + 3
        /\ s[1] = StartBatch /\ s[2] = AddOp(x)
        /\ \A j \in 1..M : s[2 + j] = AddOp(Append(x, Props[j]))
        /\ s[M + 3] = RunBatch
        /\ \A i \in (M + 4)..Len(s) : \E a \in Words : s[i] = WriteOp(x, a)
    BY <2>2, AddXaElements
  <2>4. s \in Seq(Items) /\ c \in Seq(Items) /\ Len(c) = 1 /\ c[1] = Changed
    BY <1>1, <2>3, SeqMonotonic
  <2> HIDE DEF s, c
  <2>5. /\ u \in Seq(Items) /\ Len(u) = Len(s) + Len(c)
        /\ \A i \in 1..Len(s) : u[i] = s[i]
        /\ \A i \in 1..Len(c) : u[Len(s) + i] = c[i]
    <3>1. \A v, w \in Seq(Items) :
            /\ v \o w \in Seq(Items) /\ Len(v \o w) = Len(v) + Len(w)
            /\ \A i \in 1..Len(v) : (v \o w)[i] = v[i]
            /\ \A i \in 1..Len(w) : (v \o w)[Len(v) + i] = w[i]
      BY Joined
    <3> QED
      BY <2>4, <3>1
  <2> HIDE DEF u
  <2>6. /\ Len(u) = Len(s) + 1 /\ u[Len(s) + 1] = Changed /\ M \in Nat
    BY <2>3, <2>4, <2>5, Counts
  <2>7. /\ 1 \in 1..Len(s) /\ 2 \in 1..Len(s) /\ M + 3 \in 1..Len(s)
        /\ \A j \in 1..M : 2 + j \in 1..Len(s)
        /\ \A i \in (M + 4)..(Len(u) - 1) : i \in (M + 4)..Len(s) /\ i \in 1..Len(s)
    BY <2>3, <2>6
  <2>8. /\ u[1] = StartBatch /\ u[2] = AddOp(x)
        /\ \A j \in 1..M : u[2 + j] = AddOp(Append(x, Props[j]))
        /\ u[M + 3] = RunBatch
        /\ \A i \in (M + 4)..(Len(u) - 1) : \E a \in Words : u[i] = WriteOp(x, a)
    BY <2>3, <2>5, <2>7
  <2>9. Len(u) \in Nat /\ Len(u) >= M + 4 /\ Len(u) >= 1
    BY <2>3, <2>6
  <2>10. ~IsPlain(q) /\ ~IsQueue(q)
    BY <1>5, Counts
  <2>11. u[Len(u)] = Changed /\ DoneAt(q) <= Len(u)
    BY <2>1, <2>3, <2>6
  <2> HIDE DEF x
  <2>12. Answer(q) \in Seq(Items) /\ Len(Answer(q)) \in Nat /\ Len(Answer(q)) >= 1
         /\ Len(Answer(q)) >= DoneAt(q)
    BY <2>1, <2>5, <2>9, <2>11
  <2>13. /\ Len(Answer(q)) >= M + 4
         /\ Answer(q)[1] = StartBatch /\ Answer(q)[2] = AddOp(x)
         /\ \A j \in 1..M : Answer(q)[2 + j] = AddOp(Append(x, Props[j]))
         /\ Answer(q)[M + 3] = RunBatch
         /\ \A i \in (M + 4)..(Len(Answer(q)) - 1) : \E a \in Words : Answer(q)[i] = WriteOp(x, a)
         /\ Answer(q)[Len(Answer(q))] = Changed
    BY <2>1, <2>8, <2>9, <2>11
  <2> QED
    BY <2>10, <2>12, <2>13 DEF x
<1> QED
  BY <1>3, <1>4, <1>5, Counts

(* There is nothing before the first question.                             *)
LEMMA FirstAnswer == Answer(0) = <<>> /\ Len(Answer(0)) = 0 /\ ~IsPlain(0) /\ ~IsXa(0) /\ ~IsQueue(0)
BY Counts DEF Answer, IsPlain, IsXa, IsQueue

(* handleAfterStart, question by question.                                 *)
LEMMA QuestionElements ==
  LET s == HandleAfterStart
  IN  /\ s \in Seq(Items) /\ Len(s) = L
      /\ \A q \in 1..(L - 1) : s[q] = IfDefined(Subject(q), <<>>, Answer(q))
      /\ s[L] = ReloadIfChanged
<1> DEFINE ask(q) == IfDefined(Subject(q), <<>>, Answer(q))
           a == [i \in 1..Len(PlainDs) |-> DefineDatasource(PlainDs[i])]
           b == [i \in 1..Len(XaDs) |-> DefineXaDatasource(XaDs[i])]
           c == <<IfDefined(JmsQueue(Queue), <<>>, AddJmsQueue(Queue)), ReloadIfChanged>>
           ab == a \o b
           s == ab \o c
<1>1. HandleAfterStart = s
  BY DEF HandleAfterStart, Each
<1>2. /\ \A q \in 1..(L - 1) : ask(q) \in Items
      /\ ReloadIfChanged \in Items
  BY DEF Items
<1>3. \A i \in 1..P : i \in 1..(L - 1) /\ IsPlain(i) /\ a[i] = ask(i)
  <2> SUFFICES ASSUME NEW i \in 1..P
               PROVE  i \in 1..(L - 1) /\ IsPlain(i) /\ DefineDatasource(PlainDs[i]) = ask(i)
    BY DEF P
  <2> DEFINE d == DataSource(PlainDs[i])
  <2>1. i \in 1..(L - 1) /\ IsPlain(i)
    BY Counts DEF IsPlain
  <2>2. Subject(i) = d /\ Answer(i) = <<AddOp(d), Changed>>
    BY <2>1, SubjectFacts DEF Answer
  <2>3. AddDatasource(PlainDs[i], <<>>) = <<AddOp(d)>> \o [j \in 1..Len(<<>>) |-> AddOp(Append(d, <<>>[j]))]
    BY DEF AddDatasource, Each
  <2>4. [j \in 1..Len(<<>>) |-> AddOp(Append(d, <<>>[j]))] = <<>>
    OBVIOUS
  <2>5. <<AddOp(d)>> \o <<>> = <<AddOp(d)>> /\ <<AddOp(d)>> \o <<Changed>> = <<AddOp(d), Changed>>
    BY PairJoined
  <2>6. AddDatasource(PlainDs[i], <<>>) \o <<Changed>> = <<AddOp(d), Changed>>
    BY <2>3, <2>4, <2>5
  <2> QED
    BY <2>1, <2>2, <2>6 DEF DefineDatasource
<1>4. \A i \in 1..X : P + i \in 1..(L - 1) /\ b[i] = ask(P + i)
  <2> SUFFICES ASSUME NEW i \in 1..X
               PROVE  P + i \in 1..(L - 1) /\ DefineXaDatasource(XaDs[i]) = ask(P + i)
    BY DEF X
  <2>1. P + i \in 1..(L - 1) /\ IsXa(P + i) /\ ~IsPlain(P + i) /\ (P + i) - P = i
    BY Counts DEF IsXa, IsPlain
  <2>2. Subject(P + i) = XaDataSource(XaDs[i])
    BY <2>1, SubjectFacts
  <2>3. Answer(P + i) = AddXADataSource(XaDs[i]) \o <<Changed>>
    BY <2>1 DEF Answer
  <2> QED
    BY <2>1, <2>2, <2>3 DEF DefineXaDatasource
<1>5. L - 1 \in 1..(L - 1) /\ c[1] = ask(L - 1) /\ c[2] = ReloadIfChanged /\ Len(c) = 2
  <2>1. L - 1 \in 1..(L - 1) /\ IsQueue(L - 1) /\ ~IsPlain(L - 1) /\ ~IsXa(L - 1)
    BY Counts DEF IsQueue, IsPlain, IsXa
  <2>2. Subject(L - 1) = JmsQueue(Queue) /\ Answer(L - 1) = <<AddOp(JmsQueue(Queue))>>
    BY <2>1, SubjectFacts DEF Answer
  <2> QED
    BY <2>1, <2>2 DEF AddJmsQueue
<1>6. a \in Seq(Items) /\ Len(a) = P /\ b \in Seq(Items) /\ Len(b) = X /\ c \in Seq(Items)
  <2> HIDE DEF ask
  <2>1. P = Len(PlainDs) /\ X = Len(XaDs) /\ P \in Nat /\ X \in Nat
    BY Counts DEF P, X
  <2>2. (\A i \in 1..P : a[i] \in Items) /\ \A i \in 1..X : b[i] \in Items
    <3> HIDE DEF a, b
    <3> QED
      BY <1>2, <1>3, <1>4
  <2>3. a \in Seq(Items) /\ Len(a) = P /\ b \in Seq(Items) /\ Len(b) = X
    BY <2>1, <2>2
  <2>4. c[1] \in Items /\ c[2] \in Items
    <3> HIDE DEF c
    <3> QED
      BY <1>2, <1>5
  <2>5. c \in Seq(Items)
    BY <2>4
  <2> QED
    BY <2>3, <2>5
<1> HIDE DEF ask, a, b, c
<1>0. \A v, w \in Seq(Items) :
        /\ v \o w \in Seq(Items) /\ Len(v \o w) = Len(v) + Len(w)
        /\ \A i \in 1..Len(v) : (v \o w)[i] = v[i]
        /\ \A i \in 1..Len(w) : (v \o w)[Len(v) + i] = w[i]
  BY Joined
<1>7. /\ ab \in Seq(Items) /\ Len(ab) = P + X
      /\ \A i \in 1..P : ab[i] = a[i]
      /\ \A i \in 1..X : ab[P + i] = b[i]
  BY <1>0, <1>6
<1> HIDE DEF ab
<1>8. /\ s \in Seq(Items) /\ Len(s) = P + X + 2
      /\ \A i \in 1..(P + X) : s[i] = ab[i]
      /\ \A i \in 1..2 : s[P + X + i] = c[i]
  <2>1. /\ s \in Seq(Items) /\ Len(s) = Len(ab) + Len(c)
        /\ \A i \in 1..Len(ab) : s[i] = ab[i]
        /\ \A i \in 1..Len(c) : s[Len(ab) + i] = c[i]
    BY <1>0, <1>6, <1>7
  <2> HIDE DEF s
  <2> QED
    BY <1>5, <1>7, <2>1
<1> HIDE DEF s
<1>9. ASSUME NEW q \in 1..(L - 1) PROVE s[q] = ask(q)
  <2>1. CASE q \in 1..P
    <3>1. q \in 1..(P + X)
      BY <2>1, Counts
    <3> QED
      BY <1>3, <1>7, <1>8, <2>1, <3>1
  <2>2. CASE q \in (P + 1)..(P + X)
    <3>1. q - P \in 1..X /\ P + (q - P) = q /\ q \in 1..(P + X)
      BY <2>2, Counts
    <3>2. ab[q] = b[q - P] /\ b[q - P] = ask(q)
      BY <1>4, <1>7, <3>1
    <3> QED
      BY <1>8, <3>1, <3>2
  <2>3. CASE q = P + X + 1
    <3>1. s[P + X + 1] = c[1] /\ q = L - 1
      BY <1>8, <2>3, Counts
    <3> QED
      BY <1>5, <2>3, <3>1
  <2> QED
    BY <2>1, <2>2, <2>3, Counts
<1>10. s[L] = ReloadIfChanged
  <2>1. s[P + X + 2] = c[2]
    BY <1>8
  <2> QED
    BY <1>5, <2>1, Counts
<1> QED
  BY <1>1, <1>8, <1>9, <1>10, Counts DEF ask

(* What is left of the program, instruction by instruction.                *)
LEMMA LeftElements ==
  ASSUME NEW q \in 0..(L - 1), NEW k \in 1..(Len(Answer(q)) + 1)
  PROVE  LET s == Left(q, k)
             a == Len(Answer(q)) - k + 1
         IN  /\ s \in Seq(Items) /\ Len(s) = a + L - q
             /\ a \in Nat /\ a + L - q \in Nat \ {0}
             /\ \A i \in 1..a : s[i] = Answer(q)[k + i - 1]
             /\ \A i \in (a + 1)..(a + L - q) : s[i] = HandleAfterStart[q + i - a]
<1> DEFINE s == Left(q, k)
           a == Len(Answer(q)) - k + 1
           n == a + L - q
<1>1. Answer(q) \in Seq(Items) /\ Len(Answer(q)) \in Nat
  <2>1. q = 0 \/ q \in 1..(L - 1)
    BY Counts
  <2>2. <<>> \in Seq(Items)
    BY EmptySeq
  <2>3. CASE q = 0
    <3>1. Answer(q) = <<>>
      BY <2>3, FirstAnswer
    <3> QED
      BY <2>2, <3>1
  <2>4. CASE q \in 1..(L - 1)
    <3>1. LET t == Answer(q) IN t \in Seq(Items) /\ Len(t) \in Nat
      BY <2>4, AnswerElements
    <3> QED
      BY <3>1
  <2> QED
    BY <2>1, <2>3, <2>4
<1>2. a \in Nat /\ n \in Nat \ {0} /\ k \in Nat /\ q \in Nat /\ L \in Nat
  BY <1>1, Counts
<1>3. s = [i \in 1..n |-> IF i <= a THEN Answer(q)[k + i - 1] ELSE HandleAfterStart[q + i - a]]
  BY DEF Left
<1> HIDE DEF s
<1>4. ASSUME NEW i \in 1..a PROVE i \in 1..n /\ Answer(q)[k + i - 1] \in Items
  <2>1. k + i - 1 \in 1..Len(Answer(q)) /\ i \in 1..n
    BY <1>1, <1>2
  <2> QED
    BY <1>1, <2>1, ElementOfSeq
<1>5. ASSUME NEW i \in (a + 1)..n
      PROVE  i \in 1..n /\ ~(i <= a) /\ HandleAfterStart[q + i - a] \in Items
  <2>1. q + i - a \in 1..L /\ i \in 1..n /\ ~(i <= a)
    BY <1>1, <1>2
  <2> QED
    BY <2>1, QuestionElements, ElementOfSeq
<1>6. \A i \in 1..n : i \in 1..a \/ i \in (a + 1)..n
  BY <1>1, <1>2
<1> HIDE DEF a, n
<1>7. /\ \A i \in 1..a : s[i] = Answer(q)[k + i - 1]
      /\ \A i \in (a + 1)..n : s[i] = HandleAfterStart[q + i - a]
  BY <1>3, <1>4, <1>5
<1>8. \A i \in 1..n : s[i] \in Items
  BY <1>4, <1>5, <1>6, <1>7
<1>9. s \in Seq(Items) /\ Len(s) = n
  <2> DEFINE f == [i \in 1..n |-> IF i <= a THEN Answer(q)[k + i - 1] ELSE HandleAfterStart[q + i - a]]
  <2>1. s = f
    BY <1>3
  <2>2. \A i \in 1..n : f[i] \in Items
    BY <1>8, <2>1
  <2>3. f \in [1..n -> Items]
    <3>1. f = [i \in 1..n |-> f[i]]
      OBVIOUS
    <3> HIDE DEF f
    <3> QED
      BY <2>2, <3>1
  <2> HIDE DEF f
  <2>4. f \in Seq(Items) /\ Len(f) = n
    BY <1>2, <2>3
  <2> QED
    BY <2>1, <2>4
<1> QED
  BY <1>2, <1>7, <1>9 DEF s, a, n

(* The first instruction of what is left, and the rest.                    *)
LEMMA LeftFacts ==
  ASSUME NEW q \in 0..(L - 1), NEW k \in 1..(Len(Answer(q)) + 1)
  PROVE  LET s == Left(q, k)
         IN  /\ s \in Seq(Items) /\ s # <<>>
             /\ k <= Len(Answer(q)) => /\ Head(s) = Answer(q)[k]
                                       /\ Tail(s) = Left(q, k + 1)
             /\ k = Len(Answer(q)) + 1 /\ q < L - 1 =>
                  /\ Head(s) = IfDefined(Subject(q + 1), <<>>, Answer(q + 1))
                  /\ <<>> \o Tail(s) = Left(q + 1, Len(Answer(q + 1)) + 1)
                  /\ Answer(q + 1) \o Tail(s) = Left(q + 1, 1)
             /\ k = Len(Answer(q)) + 1 /\ q = L - 1 => Head(s) = ReloadIfChanged
<1> DEFINE s == Left(q, k)
           t == Tail(s)
           a == Len(Answer(q)) - k + 1
           n == a + L - q
<1>1. /\ s \in Seq(Items) /\ Len(s) = n /\ a \in Nat /\ n \in Nat \ {0}
      /\ \A i \in 1..a : s[i] = Answer(q)[k + i - 1]
      /\ \A i \in (a + 1)..n : s[i] = HandleAfterStart[q + i - a]
  BY LeftElements
<1>0. Len(Answer(q)) \in Nat /\ L \in Nat /\ q \in Nat /\ k \in Nat /\ k >= 1
  <2>1. q = 0 \/ q \in 1..(L - 1)
    BY Counts
  <2> QED
    BY <2>1, FirstAnswer, AnswerElements, Counts
<1>2. s # <<>>
  <2>1. Len(<<>>) = 0
    OBVIOUS
  <2> HIDE DEF s, a, n
  <2> QED
    BY <1>1, <2>1
<1> HIDE DEF s
<1>3. /\ t \in Seq(Items) /\ Len(t) = n - 1 /\ Head(s) = s[1]
      /\ \A i \in 1..(n - 1) : t[i] = s[i + 1]
  BY <1>1, <1>2, HeadTailProperties
<1> HIDE DEF t
<1>4. ASSUME k <= Len(Answer(q))
      PROVE  Head(s) = Answer(q)[k] /\ t = Left(q, k + 1)
  <2> DEFINE u == Left(q, k + 1)
  <2>1. 1 \in 1..a /\ k + 1 - 1 = k /\ k + 1 \in 1..(Len(Answer(q)) + 1)
        /\ Len(Answer(q)) - (k + 1) + 1 = a - 1 /\ a - 1 + L - q = n - 1
    BY <1>0, <1>4
  <2>2. Head(s) = Answer(q)[k]
    BY <1>1, <1>3, <2>1
  <2>3. /\ u \in Seq(Items) /\ Len(u) = n - 1
        /\ \A i \in 1..(a - 1) : u[i] = Answer(q)[(k + 1) + i - 1]
        /\ \A i \in ((a - 1) + 1)..(n - 1) : u[i] = HandleAfterStart[q + i - (a - 1)]
    <3>1. LET v == Left(q, k + 1)
              b == Len(Answer(q)) - (k + 1) + 1
          IN  /\ v \in Seq(Items) /\ Len(v) = b + L - q
              /\ \A i \in 1..b : v[i] = Answer(q)[(k + 1) + i - 1]
              /\ \A i \in (b + 1)..(b + L - q) : v[i] = HandleAfterStart[q + i - b]
      BY <2>1, LeftElements
    <3> HIDE DEF a, n
    <3> QED
      BY <2>1, <3>1
  <2> HIDE DEF u
  <2>4. ASSUME NEW i \in 1..(n - 1) PROVE t[i] = u[i]
    <3>1. CASE i \in 1..(a - 1)
      <4>0. a \in Nat /\ k \in Nat
        BY <1>0, <1>1
      <4> HIDE DEF a, n
      <4>1. i + 1 \in 1..a /\ k + (i + 1) - 1 = (k + 1) + i - 1
        BY <3>1, <4>0
      <4> QED
        BY <1>1, <1>3, <2>3, <3>1, <4>1
    <3>2. CASE i \in ((a - 1) + 1)..(n - 1)
      <4>0. a \in Nat /\ n \in Nat /\ q \in Nat
        BY <1>0, <1>1
      <4> HIDE DEF a, n
      <4>1. i + 1 \in (a + 1)..n /\ q + (i + 1) - a = q + i - (a - 1)
        BY <3>2, <4>0
      <4> QED
        BY <1>1, <1>3, <2>3, <3>2, <4>1
    <3>3. i \in 1..(a - 1) \/ i \in ((a - 1) + 1)..(n - 1)
      <4>0. a \in Nat /\ n \in Nat
        BY <1>1
      <4> HIDE DEF a, n
      <4> QED
        BY <2>4, <4>0
    <3> QED
      BY <3>1, <3>2, <3>3
  <2>5. t = u
    <3> HIDE DEF a, n
    <3> QED
      BY <1>1, <1>3, <2>3, <2>4, SeqEqual
  <2> QED
    BY <2>2, <2>5 DEF u
<1>5. ASSUME k = Len(Answer(q)) + 1
      PROVE  a = 0 /\ n = L - q /\ Head(s) = HandleAfterStart[q + 1]
             /\ \A i \in 1..(n - 1) : t[i] = HandleAfterStart[q + 1 + i]
  <2>1. a = 0 /\ n = L - q /\ 1 \in 1..n
    BY <1>0, <1>1, <1>5
  <2>2. \A i \in 1..n : i \in (a + 1)..n /\ q + i - a = q + i
    BY <1>0, <2>1
  <2>3. \A i \in 1..n : s[i] = HandleAfterStart[q + i]
    <3> HIDE DEF a, n
    <3> QED
      BY <1>1, <2>2
  <2>4. \A i \in 1..(n - 1) : i + 1 \in 1..n /\ q + (i + 1) = q + 1 + i
    BY <1>0, <2>1
  <2> HIDE DEF a, n
  <2> QED
    BY <1>3, <2>1, <2>3, <2>4
<1>6. ASSUME k = Len(Answer(q)) + 1, q < L - 1
      PROVE  /\ Head(s) = IfDefined(Subject(q + 1), <<>>, Answer(q + 1))
             /\ <<>> \o t = Left(q + 1, Len(Answer(q + 1)) + 1)
             /\ Answer(q + 1) \o t = Left(q + 1, 1)
  <2> DEFINE r == q + 1
             l == Len(Answer(r))
             u == Left(r, l + 1)
             v == Left(r, 1)
             w == Answer(r) \o t
  <2>1. r \in 1..(L - 1) /\ r \in 0..(L - 1) /\ r \in Nat
    BY <1>0, <1>6
  <2>2. Head(s) = IfDefined(Subject(r), <<>>, Answer(r))
    BY <1>5, <1>6, <2>1, QuestionElements
  <2>3. Answer(r) \in Seq(Items) /\ l \in Nat
    BY <2>1, AnswerElements
  <2>4. l + 1 \in 1..(l + 1) /\ 1 \in 1..(l + 1)
        /\ l - (l + 1) + 1 = 0 /\ l - 1 + 1 = l
    BY <2>3
  <2>5. /\ u \in Seq(Items) /\ Len(u) = 0 + L - r
        /\ \A i \in (0 + 1)..(0 + L - r) : u[i] = HandleAfterStart[r + i - 0]
    <3>1. LET x == Left(r, l + 1)
              b == l - (l + 1) + 1
          IN  /\ x \in Seq(Items) /\ Len(x) = b + L - r
              /\ \A i \in (b + 1)..(b + L - r) : x[i] = HandleAfterStart[r + i - b]
      BY <2>1, <2>4, LeftElements
    <3> HIDE DEF r, l
    <3> QED
      BY <2>4, <3>1
  <2>6. /\ v \in Seq(Items) /\ Len(v) = l + L - r
        /\ \A i \in 1..l : v[i] = Answer(r)[1 + i - 1]
        /\ \A i \in (l + 1)..(l + L - r) : v[i] = HandleAfterStart[r + i - l]
    <3>1. LET x == Left(r, 1)
              b == l - 1 + 1
          IN  /\ x \in Seq(Items) /\ Len(x) = b + L - r
              /\ \A i \in 1..b : x[i] = Answer(r)[1 + i - 1]
              /\ \A i \in (b + 1)..(b + L - r) : x[i] = HandleAfterStart[r + i - b]
      BY <2>1, <2>4, LeftElements
    <3> HIDE DEF r, l
    <3> QED
      BY <2>4, <3>1
  <2>7. /\ Len(t) = L - r /\ \A i \in 1..(L - r) : t[i] = HandleAfterStart[r + i]
    <3>1. n - 1 = L - r
      BY <1>0, <1>5, <1>6
    <3> HIDE DEF n
    <3> QED
      BY <1>3, <1>5, <1>6, <3>1
  <2> HIDE DEF u, v
  <2>8. t = u
    <3>1. \A i \in 1..(L - r) : i \in (0 + 1)..(0 + L - r) /\ r + i - 0 = r + i
      BY <1>0, <2>1
    <3>2. Len(u) = L - r /\ \A i \in 1..(L - r) : u[i] = t[i]
      <4> HIDE DEF r
      <4> QED
        BY <1>0, <2>1, <2>5, <2>7, <3>1
    <3> HIDE DEF r
    <3> QED
      BY <1>3, <2>5, <2>7, <3>2, SeqEqual
  <2>9. <<>> \o t = t
    BY <1>3, ConcatEmptySeq
  <2> HIDE DEF r, l
  <2>10. /\ w \in Seq(Items) /\ Len(w) = l + (L - r)
         /\ \A i \in 1..l : w[i] = Answer(r)[i]
         /\ \A i \in 1..(L - r) : w[l + i] = t[i]
    <3>1. \A x, y \in Seq(Items) :
            /\ x \o y \in Seq(Items) /\ Len(x \o y) = Len(x) + Len(y)
            /\ \A i \in 1..Len(x) : (x \o y)[i] = x[i]
            /\ \A i \in 1..Len(y) : (x \o y)[Len(x) + i] = y[i]
      BY Joined
    <3>2. Answer(r) \in Seq(Items) /\ t \in Seq(Items)
      BY <1>3, <2>3
    <3>3. /\ w \in Seq(Items) /\ Len(w) = Len(Answer(r)) + Len(t)
          /\ \A i \in 1..Len(Answer(r)) : w[i] = Answer(r)[i]
          /\ \A i \in 1..Len(t) : w[Len(Answer(r)) + i] = t[i]
      BY <3>1, <3>2
    <3>4. Len(t) = L - r /\ Len(Answer(r)) = l
      BY <2>7 DEF l
    <3> HIDE DEF w
    <3> QED
      BY <3>3, <3>4
  <2> HIDE DEF w
  <2>11. Len(w) = Len(v) /\ Len(w) \in Nat /\ l + (L - r) = l + L - r
    BY <1>0, <2>1, <2>3, <2>6, <2>10
  <2>12. ASSUME NEW i \in 1..Len(w) PROVE w[i] = v[i]
    <3>1. CASE i \in 1..l
      <4>1. 1 + i - 1 = i
        BY <2>3, <3>1
      <4> QED
        BY <2>6, <2>10, <3>1, <4>1
    <3>2. CASE i \in (l + 1)..(l + L - r)
      <4>1. i - l \in 1..(L - r) /\ l + (i - l) = i /\ r + (i - l) = r + i - l
        BY <1>0, <2>1, <2>3, <3>2
      <4> QED
        BY <2>6, <2>7, <2>10, <3>2, <4>1
    <3>3. i \in 1..l \/ i \in (l + 1)..(l + L - r)
      BY <1>0, <2>1, <2>3, <2>10, <2>11, <2>12
    <3> QED
      BY <3>1, <3>2, <3>3
  <2>13. w = v
    BY <2>6, <2>10, <2>11, <2>12, SeqEqual
  <2> QED
    BY <2>2, <2>8, <2>9, <2>13 DEF r, l, u, v, w
<1>7. k = Len(Answer(q)) + 1 /\ q = L - 1 => Head(s) = ReloadIfChanged
  <2>1. (L - 1) + 1 = L
    BY Counts
  <2> QED
    BY <1>5, <2>1, QuestionElements
<1> QED
  BY <1>1, <1>2, <1>4, <1>6, <1>7 DEF s, t

(* Nothing is done of it in the beginning.                                 *)
LEMMA AllLeft == Left(0, 1) = HandleAfterStart
<1> DEFINE u == Left(0, 1)
<1>1. 0 \in 0..(L - 1) /\ 1 \in 1..(Len(Answer(0)) + 1) /\ Len(Answer(0)) - 1 + 1 = 0 /\ L \in Nat
  BY Counts, FirstAnswer
<1>2. /\ u \in Seq(Items) /\ Len(u) = 0 + L - 0
      /\ \A i \in (0 + 1)..(0 + L - 0) : u[i] = HandleAfterStart[0 + i - 0]
  <2>1. LET x == Left(0, 1)
            b == Len(Answer(0)) - 1 + 1
        IN  /\ x \in Seq(Items) /\ Len(x) = b + L - 0
            /\ \A i \in (b + 1)..(b + L - 0) : x[i] = HandleAfterStart[0 + i - b]
    BY <1>1, LeftElements
  <2> QED
    BY <1>1, <2>1
<1> HIDE DEF u
<1>3. Len(u) = L /\ \A i \in 1..L : u[i] = HandleAfterStart[i]
  <2>1. 0 + L - 0 = L /\ \A i \in 1..L : i \in (0 + 1)..(0 + L - 0) /\ 0 + i - 0 = i
    BY <1>1
  <2> QED
    BY <1>2, <2>1
<1>4. u = HandleAfterStart
  BY <1>2, <1>3, QuestionElements, SeqEqual
<1> QED
  BY <1>4 DEF u

-----------------------------------------------------------------------------
(* Where the program is                                                    *)

(* The instructions of an answer, by what they are.                        *)
LEMMA AnswerCases ==
  ASSUME NEW q \in 1..(L - 1), NEW k \in 1..Len(Answer(q))
  PROVE  LET x == Subject(q)
             o == Answer(q)[k]
         IN  \/ k = 1 /\ ~IsXa(q) /\ o = AddOp(x)
             \/ IsXa(q) /\ k = 1 /\ o = StartBatch
             \/ IsXa(q) /\ k \in 2..(M + 2) /\ o.do = "execute"
             \/ IsXa(q) /\ k = M + 3 /\ o = RunBatch
             \/ /\ IsXa(q) /\ k > M + 3 /\ k < Len(Answer(q))
                /\ \E a \in Words : o = WriteOp(x, a)
             \/ k = Len(Answer(q)) /\ k > DoneAt(q) /\ (IsPlain(q) \/ IsXa(q)) /\ o = Changed
<1> DEFINE x == Subject(q)
           s == Answer(q)
           n == Len(Answer(q))
<1>1. /\ s \in Seq(Items) /\ n \in Nat /\ n >= 1 /\ n >= DoneAt(q)
      /\ IsPlain(q) => n = 2 /\ s[1] = AddOp(x) /\ s[2] = Changed
      /\ IsQueue(q) => n = 1 /\ s[1] = AddOp(x)
      /\ IsXa(q) => /\ n >= M + 4
                    /\ s[1] = StartBatch /\ s[2] = AddOp(x)
                    /\ \A j \in 1..M : s[2 + j] = AddOp(Append(x, Props[j]))
                    /\ s[M + 3] = RunBatch
                    /\ \A i \in (M + 4)..(n - 1) : \E a \in Words : s[i] = WriteOp(x, a)
                    /\ s[n] = Changed
  BY AnswerElements
<1>2. M \in Nat /\ k \in 1..n
  BY Counts
<1>3. \A p : AddOp(p).do = "execute"
  BY DEF AddOp
<1> HIDE DEF x, s, n
<1>4. CASE IsPlain(q) \/ IsQueue(q)
  <2>1. ~IsXa(q) /\ DoneAt(q) = 1
    BY <1>4, Counts DEF DoneAt
  <2>2. k = 1 \/ (k = 2 /\ n = 2 /\ IsPlain(q))
    BY <1>1, <1>2, <1>4
  <2>3. k = 1 => s[k] = AddOp(x)
    BY <1>1, <1>4
  <2>4. k = 2 /\ n = 2 /\ IsPlain(q) => s[k] = Changed /\ k = n /\ k > DoneAt(q)
    BY <1>1, <2>1
  <2>5. \/ k = 1 /\ ~IsXa(q) /\ s[k] = AddOp(x)
        \/ k = n /\ k > DoneAt(q) /\ IsPlain(q) /\ s[k] = Changed
    BY <2>1, <2>2, <2>3, <2>4
  <2> QED
    BY <2>5 DEF x, s, n
<1>5. CASE IsXa(q)
  <2>1. DoneAt(q) = M + 3
    BY <1>5 DEF DoneAt
  <2>2. \/ k = 1 \/ k = 2 \/ (k \in 3..(M + 2) /\ k - 2 \in 1..M /\ 2 + (k - 2) = k)
        \/ k = M + 3 \/ (k \in (M + 4)..(n - 1) /\ k > M + 3 /\ k < n)
        \/ (k = n /\ k > M + 3)
    BY <1>1, <1>2, <1>5
  <2>3. k = 1 => s[k] = StartBatch
    BY <1>1, <1>5
  <2>4. k = 2 => s[k].do = "execute" /\ k \in 2..(M + 2)
    BY <1>1, <1>2, <1>3, <1>5
  <2>5. k \in 3..(M + 2) /\ k - 2 \in 1..M /\ 2 + (k - 2) = k => s[k].do = "execute" /\ k \in 2..(M + 2)
    <3>1. \A j \in 1..M : s[2 + j] = AddOp(Append(x, Props[j]))
      BY <1>1, <1>5
    <3> QED
      BY <1>2, <1>3, <3>1
  <2>6. k = M + 3 => s[k] = RunBatch
    BY <1>1, <1>5
  <2>7. k \in (M + 4)..(n - 1) => \E a \in Words : s[k] = WriteOp(x, a)
    BY <1>1, <1>5
  <2>8. k = n => s[k] = Changed
    BY <1>1, <1>5
  <2> QED
    BY <1>5, <2>1, <2>2, <2>3, <2>4, <2>5, <2>6, <2>7, <2>8 DEF x, s, n
<1> QED
  BY <1>4, <1>5, Counts

(* Behind an answer nothing is being collected and all of it is done.      *)
LEMMA BehindAnswer ==
  ASSUME NEW q \in 0..(L - 1)
  PROVE  LET k == Len(Answer(q)) + 1
         IN  /\ Len(Answer(q)) \in Nat /\ k \in 1..(Len(Answer(q)) + 1)
             /\ ~Collecting(q, k) /\ ~Within(q, k)
             /\ q >= 1 => k > DoneAt(q) /\ ~(k <= DoneAt(q)) /\ DoneAt(q) \in Nat
<1>1. q = 0 \/ q \in 1..(L - 1)
  BY Counts
<1>2. CASE q = 0
  BY <1>2, FirstAnswer DEF Collecting, Within
<1>3. CASE q \in 1..(L - 1)
  <2> DEFINE n == Len(Answer(q))
  <2>1. /\ n \in Nat /\ n >= DoneAt(q) /\ (IsXa(q) => n >= M + 4)
    <3>1. LET s == Answer(q) IN Len(s) \in Nat /\ Len(s) >= DoneAt(q) /\ (IsXa(q) => Len(s) >= M + 4)
      BY <1>3, AnswerElements
    <3> QED
      BY <3>1
  <2>2. M \in Nat /\ DoneAt(q) \in Nat
    BY Counts DEF DoneAt
  <2> HIDE DEF n
  <2>3. n + 1 > DoneAt(q) /\ ~(n + 1 <= DoneAt(q)) /\ n + 1 \in 1..(n + 1) /\ ~(n + 1 <= n)
        /\ (IsXa(q) => n + 1 \notin 2..(M + 3))
    BY <2>1, <2>2
  <2> QED
    BY <2>1, <2>2, <2>3 DEF n, Collecting, Within
<1> QED
  BY <1>1, <1>2, <1>3

-----------------------------------------------------------------------------
(* What the setup adds to the configuration                                *)

(* A datasource or queue and what comes with it.                           *)
LEMMA GroupFacts ==
  ASSUME NEW q \in 1..(L - 1)
  PROVE  LET x == Subject(q)
         IN  /\ x \in Group(q) /\ Of(x) = x
             /\ ~IsXa(q) => Group(q) = {x}
             /\ IsXa(q) => Group(q) = {x} \cup {Append(x, p) : p \in Range(Props)}
             /\ \A p \in Group(q) : Of(p) = x /\ p # JdbcDriver
             /\ \A a \in Words : /\ Of(Append(x, a)) = x /\ Append(x, a) # JdbcDriver
                                /\ Append(x, a) # x /\ Append(x, a) \notin XaPaths
             /\ \A n \in Names : XaDataSource(n) \in Group(q) =>
                  \A p \in Range(Props) : Append(XaDataSource(n), p) \in Group(q)
<1> DEFINE x == Subject(q)
<1>1. /\ x \in Seq(Words) /\ Len(x) = 2
      /\ IsPlain(q) => x = DataSource(PlainDs[q])
      /\ IsXa(q) => x = XaDataSource(XaDs[q - P])
      /\ IsQueue(q) => x = JmsQueue(Queue)
      /\ IsPlain(q) \/ IsXa(q) \/ IsQueue(q)
  BY SubjectFacts, Counts
<1>2. x # JdbcDriver
  BY <1>1 DEF DataSource, XaDataSource, JmsQueue, JdbcDriver
<1>3. ASSUME NEW n \in Names, x = XaDataSource(n) PROVE IsXa(q)
  BY <1>1, <1>3 DEF DataSource, XaDataSource, JmsQueue
<1>4. "jts" \in Words /\ Range(Props) \subseteq Words
  BY DEF Words
<1>5. /\ x \in Group(q)
      /\ ~IsXa(q) => Group(q) = {x}
      /\ IsXa(q) => Group(q) = {x} \cup {Append(x, p) : p \in Range(Props)}
  BY DEF Group
<1> HIDE DEF x
<1>6. ASSUME NEW a \in Words
      PROVE  /\ Of(x) = x /\ Of(Append(x, a)) = x /\ Append(x, a) # JdbcDriver
             /\ Append(x, a) # x /\ Append(x, a) \notin XaPaths
  <2>1. Len(Append(x, a)) = 3
    <3>1. Len(Append(x, a)) = Len(x) + 1
      BY <1>1, <1>6, WordAppended
    <3> QED
      BY <1>1, <3>1
  <2>2. Len(JdbcDriver) = 2 /\ \A y \in XaPaths : Len(y) = 2
    BY DEF JdbcDriver, XaPaths, XaDataSource
  <2>3. Append(x, a) # JdbcDriver /\ Append(x, a) # x /\ Append(x, a) \notin XaPaths
    <3> DEFINE y == Append(x, a)
    <3>1. Len(y) = 3 /\ Len(x) = 2
      BY <1>1, <2>1
    <3> HIDE DEF y
    <3>2. 3 # 2
      OBVIOUS
    <3>3. y # JdbcDriver /\ y # x /\ y \notin XaPaths
      BY <2>2, <3>1, <3>2
    <3> QED
      BY <3>3 DEF y
  <2> QED
    BY <1>1, <1>6, <2>3, OfFacts
<1>7. \A p \in Group(q) : Of(p) = x /\ p # JdbcDriver
  BY <1>2, <1>4, <1>5, <1>6
<1>8. ASSUME NEW n \in Names, XaDataSource(n) \in Group(q), NEW p \in Range(Props)
      PROVE  Append(XaDataSource(n), p) \in Group(q)
  <2>1. XaDataSource(n) \in XaPaths
    BY <1>8 DEF XaPaths
  <2>2. XaDataSource(n) = x
    BY <1>4, <1>5, <1>6, <1>8, <2>1
  <2>3. IsXa(q)
    BY <1>3, <1>8, <2>2
  <2> QED
    BY <1>5, <1>8, <2>2, <2>3
<1> QED
  BY <1>4, <1>5, <1>6, <1>7, <1>8 DEF x

Grown ==
  \E q \in 1..(L - 1) :
    \/ config' = config \cup Group(q)
    \/ \E a \in Words : Subject(q) \in config /\ config' = config \cup {Append(Subject(q), a)}

(* It keeps what Steady says of the configuration.                         *)
LEMMA GrownSteady ==
  ASSUME Steady, config' = config \/ Grown
  PROVE  /\ config \subseteq config' /\ JdbcDriver \notin config'
         /\ \A n \in Range(XaDs) : XaDataSource(n) \in config' =>
              \A p \in Range(Props) : Append(XaDataSource(n), p) \in config'
         /\ \A p \in config' : Of(p) \in config'
<1>1. /\ JdbcDriver \notin config
      /\ \A n \in Range(XaDs) : XaDataSource(n) \in config =>
           \A p \in Range(Props) : Append(XaDataSource(n), p) \in config
      /\ \A p \in config : Of(p) \in config
  BY DEF Steady
<1>0. \A n \in Range(XaDs) : n \in Names /\ XaDataSource(n) \in XaPaths
  <2>1. Range(XaDs) \subseteq Names
    BY Counts DEF Range, X
  <2> QED
    BY <2>1 DEF XaPaths
<1>2. CASE config' = config
  BY <1>1, <1>2
<1>3. ASSUME NEW q \in 1..(L - 1), config' = config \cup Group(q)
      PROVE  /\ config \subseteq config' /\ JdbcDriver \notin config'
             /\ \A n \in Range(XaDs) : XaDataSource(n) \in config' =>
                  \A p \in Range(Props) : Append(XaDataSource(n), p) \in config'
             /\ \A p \in config' : Of(p) \in config'
  <2>1. /\ Subject(q) \in Group(q)
        /\ \A p \in Group(q) : Of(p) = Subject(q) /\ p # JdbcDriver
        /\ \A n \in Names : XaDataSource(n) \in Group(q) =>
             \A p \in Range(Props) : Append(XaDataSource(n), p) \in Group(q)
    BY GroupFacts
  <2> QED
    BY <1>0, <1>1, <1>3, <2>1
<1>4. ASSUME NEW q \in 1..(L - 1), NEW a \in Words, Subject(q) \in config,
             config' = config \cup {Append(Subject(q), a)}
      PROVE  /\ config \subseteq config' /\ JdbcDriver \notin config'
             /\ \A n \in Range(XaDs) : XaDataSource(n) \in config' =>
                  \A p \in Range(Props) : Append(XaDataSource(n), p) \in config'
             /\ \A p \in config' : Of(p) \in config'
  <2>1. /\ Of(Append(Subject(q), a)) = Subject(q) /\ Append(Subject(q), a) # JdbcDriver
        /\ Append(Subject(q), a) \notin XaPaths
    BY <1>4, GroupFacts
  <2> QED
    BY <1>0, <1>1, <1>4, <2>1
<1> QED
  BY <1>2, <1>3, <1>4 DEF Grown

-----------------------------------------------------------------------------
(* The composite of an xa-datasource                                       *)

(* Its first i operations have been applied to the configuration, and were *)
(* possible if and only if the server has the driver.                      *)
UpTo(x, i) == {x} \cup {Append(x, Props[j]) : j \in 1..(i - 1)}
Possible(x) == deployed /\ x \notin config /\ \A p \in config : Of(p) \in config
Stage(x, r, i) ==
  /\ r.config = config \cup UpTo(x, i)
  /\ r.ok => JdbcDriver \in config \/ deployed
  /\ Possible(x) => r.ok

(* Adding what is not there, where it can be.                              *)
LEMMA AddFacts ==
  ASSUME NEW p, NEW c
  PROVE  /\ Applied(AddOp(p), c) = c \cup {p} /\ AddOp(p).do = "execute"
         /\ Accepted(AddOp(p), c) =>
              /\ p \notin c
              /\ p[1] \in {"data-source", "xa-data-source"} => deployed \/ JdbcDriver \in c
         /\ p \notin c /\ (Len(p) > 2 => Of(p) \in c) /\
            (p[1] \in {"data-source", "xa-data-source"} => deployed \/ JdbcDriver \in c)
              => Accepted(AddOp(p), c)
         /\ ~IsLifecycle(AddOp(p))
BY DEF Applied, Accepted, AddOp, IsLifecycle

(* The properties of an xa-datasource, all different.                      *)
LEMMA PropertyFacts ==
  ASSUME NEW n \in Names
  PROVE  LET x == XaDataSource(n)
         IN  /\ Len(x) = 2 /\ x[1] = "xa-data-source" /\ x # JdbcDriver
             /\ \A i \in 1..M : /\ Of(Append(x, Props[i])) = x
                               /\ Len(Append(x, Props[i])) = 3
                               /\ Append(x, Props[i])[1] = "xa-data-source"
                               /\ Append(x, Props[i]) # x /\ Append(x, Props[i]) # JdbcDriver
             /\ \A i, j \in 1..M : Append(x, Props[i]) = Append(x, Props[j]) => i = j
<1> DEFINE x == XaDataSource(n)
<1>1. x \in Seq(Words) /\ Len(x) = 2 /\ x[1] = "xa-data-source" /\ x # JdbcDriver /\ Len(JdbcDriver) = 2
  BY PathFacts, ResourceFacts DEF XaDataSource, JdbcDriver
<1>2. \A i \in 1..M : Props[i] \in Words
  BY WordFacts DEF M
<1> HIDE DEF x
<1>3. \A a \in Words : /\ Append(x, a) \in Seq(Words) /\ Len(Append(x, a)) = 3
                       /\ Append(x, a)[1] = x[1] /\ Append(x, a)[3] = a
  <2>1. \A y \in Seq(Words), a \in Words :
          /\ Append(y, a) \in Seq(Words) /\ Len(Append(y, a)) = Len(y) + 1
          /\ \A i \in 1..Len(y) : Append(y, a)[i] = y[i]
          /\ Append(y, a)[Len(y) + 1] = a
    BY ONLY AppendProperties
  <2>2. ASSUME NEW a \in Words
        PROVE  /\ Append(x, a) \in Seq(Words) /\ Len(Append(x, a)) = Len(x) + 1
               /\ \A i \in 1..Len(x) : Append(x, a)[i] = x[i]
               /\ Append(x, a)[Len(x) + 1] = a
    BY <1>1, <2>1, <2>2
  <2>3. 1 \in 1..Len(x) /\ Len(x) + 1 = 3
    BY <1>1
  <2> QED
    BY <2>2, <2>3
<1>4. \A a \in Words : Of(Append(x, a)) = x
  BY <1>1, OfFacts
<1>5. \A a \in Words : Append(x, a) # x /\ Append(x, a) # JdbcDriver
  <2> SUFFICES ASSUME NEW a \in Words PROVE Append(x, a) # x /\ Append(x, a) # JdbcDriver
    OBVIOUS
  <2> DEFINE y == Append(x, a)
  <2>1. Len(y) = 3 /\ 3 # 2
    BY <1>3
  <2> HIDE DEF y
  <2>2. y # x /\ y # JdbcDriver
    BY <1>1, <2>1
  <2> QED
    BY <2>2 DEF y
<1>6. ASSUME NEW i \in 1..M, NEW j \in 1..M, Append(x, Props[i]) = Append(x, Props[j]) PROVE i = j
  <2>1. Props[i] = Props[j]
    BY <1>2, <1>3, <1>6
  <2>2. i \in DOMAIN Props /\ j \in DOMAIN Props
    BY ManagementAssumption, LenProperties DEF M
  <2> QED
    BY <2>1, <2>2, SetupAssumption DEF IsInjective
<1> QED
  BY <1>1, <1>2, <1>3, <1>4, <1>5, <1>6 DEF x

(* The datasource itself.                                                  *)
LEMMA FirstStage ==
  ASSUME NEW n \in Names
  PROVE  LET x == XaDataSource(n) IN Stage(x, NextStep(NoStep, AddOp(x)), 1)
<1> DEFINE x == XaDataSource(n)
           o == AddOp(x)
           r == NextStep(NoStep, o)
<1>1. r.ok = (TRUE /\ Accepted(o, config)) /\ r.config = Applied(o, config)
  BY DEF NextStep, NoStep
<1>2. Len(x) = 2 /\ x[1] = "xa-data-source"
  BY PropertyFacts
<1>3. ~(Len(x) > 2)
  BY <1>2
<1> HIDE DEF x, r
<1>4. /\ Applied(o, config) = config \cup {x}
      /\ Accepted(o, config) => deployed \/ JdbcDriver \in config
      /\ Possible(x) => Accepted(o, config)
  BY <1>2, <1>3, AddFacts DEF Possible
<1>5. UpTo(x, 1) = {x}
  BY DEF UpTo
<1> HIDE DEF o
<1> QED
  BY <1>1, <1>4, <1>5, Zenon DEF Stage, x, r, o

(* One property more.                                                      *)
LEMMA NextStage ==
  ASSUME NEW n \in Names, NEW r, NEW i \in 1..M, Stage(XaDataSource(n), r, i)
  PROVE  LET x == XaDataSource(n)
         IN  Stage(x, NextStep(r, AddOp(Append(x, Props[i]))), i + 1)
<1> DEFINE x == XaDataSource(n)
           p == Append(x, Props[i])
           o == AddOp(p)
           s == NextStep(r, o)
<1>1. s.ok = (r.ok /\ Accepted(o, r.config)) /\ s.config = Applied(o, r.config)
  BY DEF NextStep
<1>2. /\ \A j \in 1..M : Append(x, Props[i]) = Append(x, Props[j]) => i = j
      /\ Of(p) = x /\ Len(p) = 3 /\ p # x
  BY PropertyFacts
<1>3. M \in Nat /\ \A j \in 1..(i - 1) : j \in 1..M /\ j # i
  BY Counts
<1>4. r.config = config \cup UpTo(x, i) /\ (r.ok => JdbcDriver \in config \/ deployed) /\ (Possible(x) => r.ok)
  BY DEF Stage
<1>5. UpTo(x, i + 1) = UpTo(x, i) \cup {p} /\ x \in UpTo(x, i)
  <2>1. \A j : j \in 1..((i + 1) - 1) <=> j \in 1..(i - 1) \/ j = i
    OBVIOUS
  <2> QED
    BY <2>1 DEF UpTo
<1>6. p \notin UpTo(x, i)
  <2>1. \A j \in 1..(i - 1) : Append(x, Props[j]) # p
    BY <1>2, <1>3
  <2> QED
    BY <1>2, <2>1 DEF UpTo
<1>7. Possible(x) => p \notin config /\ deployed
  BY <1>2 DEF Possible
<1> HIDE DEF x, p, s
<1>8. /\ Applied(o, r.config) = r.config \cup {p}
      /\ Possible(x) => Accepted(o, r.config)
  BY <1>2, <1>4, <1>5, <1>6, <1>7, AddFacts
<1>9. s.config = config \cup UpTo(x, i + 1)
  BY <1>1, <1>4, <1>5, <1>8
<1> HIDE DEF o
<1>10. (s.ok => JdbcDriver \in config \/ deployed) /\ (Possible(x) => s.ok)
  BY <1>1, <1>4, <1>8, Zenon
<1> QED
  BY <1>9, <1>10 DEF Stage, x, p, o, s

(* The composite in the batch of the q-th answer when it is run.           *)
LEMMA XaComposite ==
  ASSUME NEW q \in 1..(L - 1), IsXa(q),
         batch = [j \in 1..(M + 1) |-> Answer(q)[j + 1]]
  PROVE  LET x == Subject(q)
             r == Composite(batch)
         IN  /\ batch # <<>>
             /\ {i \in DOMAIN batch : IsLifecycle(batch[i])} = {}
             /\ r.config = config \cup Group(q)
             /\ r.ok => JdbcDriver \in config \/ deployed
             /\ Possible(x) => r.ok
<1> DEFINE n == XaDs[q - P]
           x == Subject(q)
           a(j) == Append(XaDataSource(n), Props[j])
<1>1. n \in Names /\ x = XaDataSource(n) /\ M \in Nat
  BY SubjectFacts, Counts
<1>2. /\ batch[1] = AddOp(x) /\ DOMAIN batch = 1..(M + 1)
      /\ \A j \in 1..M : batch[j + 1] = AddOp(Append(x, Props[j]))
  <2>1. LET s == Answer(q) IN s[2] = AddOp(x) /\ \A j \in 1..M : s[2 + j] = AddOp(Append(x, Props[j]))
    BY AnswerElements
  <2>2. 1 \in 1..(M + 1) /\ 1 + 1 = 2
    BY <1>1
  <2>3. \A j \in 1..M : j + 1 \in 1..(M + 1) /\ (j + 1) + 1 = 2 + j
    BY <1>1
  <2> HIDE DEF x
  <2>4. batch[1] = Answer(q)[2]
    BY <2>2
  <2>5. \A j \in 1..M : batch[j + 1] = Answer(q)[2 + j]
    BY <2>3
  <2> QED
    BY <2>1, <2>4, <2>5
<1>3. Len(batch) = M + 1 /\ Len(batch) \in Nat
  BY <1>1
<1>4. batch # <<>>
  <2>1. Len(<<>>) = 0 /\ M + 1 # 0
    BY <1>1
  <2> QED
    BY <1>3, <2>1
<1> HIDE DEF x, n
<1>5. \A i \in 1..(M + 1) : \E p : batch[i] = AddOp(p)
  <2>1. \A i \in 1..(M + 1) : i = 1 \/ (i - 1 \in 1..M /\ (i - 1) + 1 = i)
    BY <1>1
  <2> QED
    BY <1>2, <2>1
<1>6. {i \in DOMAIN batch : IsLifecycle(batch[i])} = {}
  <2>1. \A p : ~IsLifecycle(AddOp(p))
    BY AddFacts
  <2> QED
    BY <1>2, <1>5, <2>1
<1>7. PICK after : /\ Composite(batch) = after[M + 1]
                   /\ after[0] = NoStep
                   /\ \A i \in 1..(M + 1) : after[i] = NextStep(after[i - 1], batch[i])
  BY <1>3, CompositeFacts
<1> DEFINE G == {i \in Nat : i <= M => Stage(x, after[i + 1], i + 1)}
<1>8. 0 \in G
  <2>1. 1 \in 1..(M + 1) /\ 1 - 1 = 0 /\ 0 + 1 = 1
    BY <1>1
  <2>2. after[1] = NextStep(NoStep, AddOp(x))
    BY <1>2, <1>7, <2>1
  <2>3. Stage(x, after[1], 1)
    BY <1>1, <2>2, FirstStage
  <2> QED
    BY <2>1, <2>3
<1>9. ASSUME NEW i \in Nat, i \in G PROVE i + 1 \in G
  <2> SUFFICES ASSUME i + 1 <= M PROVE Stage(x, after[(i + 1) + 1], (i + 1) + 1)
    OBVIOUS
  <2>1. /\ i + 1 \in 1..M /\ i <= M
        /\ (i + 1) + 1 \in 1..(M + 1) /\ ((i + 1) + 1) - 1 = i + 1
    BY <1>1
  <2>2. Stage(x, after[i + 1], i + 1)
    BY <1>9, <2>1
  <2>3. after[(i + 1) + 1] = NextStep(after[i + 1], AddOp(Append(x, Props[i + 1])))
    BY <1>2, <1>7, <2>1
  <2> HIDE DEF G
  <2> QED
    BY <1>1, <2>1, <2>2, <2>3, NextStage
<1>10. Stage(x, Composite(batch), M + 1)
  <2> HIDE DEF G
  <2>1. Nat \subseteq G
    BY <1>8, <1>9, AllNumbers
  <2>2. M \in G
    BY <1>1, <2>1
  <2>3. M <= M
    BY <1>1
  <2> QED
    BY <1>7, <2>2, <2>3 DEF G
<1>11. UpTo(x, M + 1) = Group(q)
  <2>1. (M + 1) - 1 = M
    BY <1>1
  <2>2. \A p : p \in Range(Props) <=> \E j \in 1..M : p = Props[j]
    BY ManagementAssumption DEF Range, M
  <2> QED
    BY <2>1, <2>2, GroupFacts DEF UpTo, x
<1> QED
  BY <1>4, <1>6, <1>10, <1>11 DEF Stage, x

-----------------------------------------------------------------------------
(* The steps of handleAfterStart                                           *)

At(q, k) == Steady /\ PhaseInv /\ phase = "setup" /\ Here(q, k)

(* What such a step may do.                                                *)
Frame ==
  /\ UNCHANGED <<server, booted, deployed, jar, joined, unscanned, runs, phase, polls>>
  /\ faults' \in {faults, faults + 1}
  /\ config' = config \/ Grown
Onward == Frame /\ (Asking' \/ Reloading' \/ Broken')

(* The mode at an instruction.                                             *)
LEMMA ModeFacts ==
  ASSUME NEW q, NEW k
  PROVE  /\ Mode(q, k) /\ ~Collecting(q, k) => isBatchMode = FALSE
         /\ Mode(q, k) /\ Collecting(q, k) =>
              isBatchMode = TRUE /\ batch = [j \in 1..(k - 2) |-> Answer(q)[j + 1]]
         /\ isBatchMode' = FALSE /\ ~Collecting(q, k) => Mode(q, k)'
         /\ isBatchMode' = TRUE /\ Collecting(q, k) /\ batch' = [j \in 1..(k - 2) |-> Answer(q)[j + 1]]
              => Mode(q, k)'
<1>1. Collecting(q, k) \in BOOLEAN
  BY DEF Collecting
<1> HIDE DEF Collecting
<1> QED
  BY <1>1 DEF Mode

(* What has been defined stays defined.                                    *)
LEMMA HaveKept ==
  ASSUME NEW q \in Nat, NEW k, NEW h, Have(q, k), config \subseteq config',
         h > DoneAt(q) => k > DoneAt(q) \/ Group(q) \subseteq config'
  PROVE  Have(q, h)'
<1>1. ASSUME NEW i \in 1..q, i < q \/ h > DoneAt(q) PROVE Group(i) \subseteq config'
  <2>1. CASE i < q
    BY <1>1, <2>1 DEF Have
  <2>2. CASE ~(i < q)
    <3>1. h > DoneAt(q)
      BY <1>1, <2>2
    <3>2. CASE k > DoneAt(q)
      BY <1>1, <3>2 DEF Have
    <3>3. CASE Group(q) \subseteq config'
      <4>1. i = q
        BY <1>1, <2>2
      <4> QED
        BY <3>3, <4>1
    <3> QED
      BY <3>1, <3>2, <3>3
  <2> QED
    BY <2>1, <2>2
<1> QED
  BY <1>1 DEF Have

(* The instruction is the next of its answer, and the program goes on with *)
(* the one behind it.                                                      *)
LEMMA AtAnswer ==
  ASSUME NEW q \in 1..(L - 1), NEW k \in 1..Len(Answer(q)), At(q, k)
  PROVE  /\ prog # <<>> /\ Head(prog) = Answer(q)[k] /\ Tail(prog) = Left(q, k + 1)
         /\ Tail(prog) # <<>> /\ q \in 0..(L - 1) /\ k + 1 \in 1..(Len(Answer(q)) + 1)
         /\ Len(Answer(q)) \in Nat /\ M \in Nat /\ k \in Nat
         /\ Mode(q, k) /\ Have(q, k) /\ (faults = 0 => Sane(q, k))
         /\ faults \in Nat /\ (faults = 0 => deployed \/ unscanned) /\ JdbcDriver \notin config
<1>1. Len(Answer(q)) \in Nat /\ M \in Nat /\ q \in 0..(L - 1)
  <2>1. LET s == Answer(q) IN Len(s) \in Nat
    BY AnswerElements
  <2> QED
    BY <2>1, Counts
<1>2. k \in 1..(Len(Answer(q)) + 1) /\ k + 1 \in 1..(Len(Answer(q)) + 1) /\ k <= Len(Answer(q)) /\ k \in Nat
  BY <1>1
<1>3. LET s == Left(q, k)
      IN  s # <<>> /\ Head(s) = Answer(q)[k] /\ Tail(s) = Left(q, k + 1)
  BY <1>1, <1>2, LeftFacts
<1>4. LET s == Left(q, k + 1) IN s # <<>>
  BY <1>1, <1>2, LeftFacts
<1> QED
  BY <1>1, <1>2, <1>3, <1>4 DEF At, Here, Steady, PhaseInv

(* The program is at an instruction of the answer it was at, or further.   *)
LEMMA HereNext ==
  ASSUME NEW q \in 0..(L - 1), NEW k \in 1..(Len(Answer(q)) + 1),
         prog' = Left(q, k), outcome' = "running", Mode(q, k)', Have(q, k)',
         faults' = 0 => Sane(q, k)'
  PROVE  Asking'
BY DEF Asking, Here

(* A datasource or a queue is added: ManagementOperations 476-494, 764-771.*)
LEMMA AddStep ==
  ASSUME NEW q \in 1..(L - 1), ~IsXa(q), 1 \in 1..Len(Answer(q)), At(q, 1),
         Answer(q)[1] = AddOp(Subject(q)), ExecuteOperation, UNCHANGED suite
  PROVE  Onward
<1> DEFINE x == Subject(q)
           o == AddOp(x)
<1>1. /\ prog # <<>> /\ Head(prog) = o /\ Tail(prog) = Left(q, 2)
      /\ Tail(prog) # <<>> /\ q \in 0..(L - 1) /\ 2 \in 1..(Len(Answer(q)) + 1)
      /\ Mode(q, 1) /\ Have(q, 1) /\ (faults = 0 => Sane(q, 1))
      /\ faults \in Nat /\ (faults = 0 => deployed \/ unscanned) /\ JdbcDriver \notin config
  <2>1. 1 + 1 = 2
    OBVIOUS
  <2> QED
    BY <2>1, AtAnswer
<1>2. /\ x \in Group(q) /\ Group(q) = {x} /\ Len(x) = 2 /\ DoneAt(q) = 1 /\ q >= 1
      /\ IsPlain(q) \/ IsQueue(q)
      /\ IsPlain(q) => x[1] = "data-source" /\ Len(Answer(q)) = 2
      /\ IsQueue(q) => x = JmsQueue(Queue) /\ x[1] = "jms-queue" /\ ~IsPlain(q)
  <2>1. IsPlain(q) => Len(Answer(q)) = 2
    <3>1. LET s == Answer(q) IN IsPlain(q) => Len(s) = 2
      BY AnswerElements
    <3> QED
      BY <3>1
  <2> QED
    BY <2>1, GroupFacts, SubjectFacts, Counts DEF DoneAt, DataSource, JmsQueue
<1>3. /\ isBatchMode' = isBatchMode /\ UNCHANGED <<server, booted, deployed, jar, joined, unscanned, runs, phase, polls>>
      /\ wasChangeDone' = wasChangeDone
      /\ \/ /\ Accepted(o, config) /\ config' = Applied(o, config)
            /\ prog' = Tail(prog) /\ outcome' = "running" /\ faults' = faults
         \/ /\ config' = Applied(o, config) /\ prog' = <<>> /\ outcome' = "failed"
            /\ faults' = faults + 1
         \/ /\ prog' = <<>> /\ outcome' = "failed" /\ config' = config
            /\ \/ faults' = faults + 1
               \/ faults' = faults /\ ~(server = "up" /\ Accepted(o, config))
  BY <1>1 DEF ExecuteOperation, Continue, Throw, Fault, NoFault, suite, caller
<1>4. /\ Applied(o, config) = config \cup Group(q)
      /\ Accepted(o, config) /\ IsPlain(q) => deployed
      /\ server = "up" /\ x \notin config /\ ~Accepted(o, config) => IsPlain(q) /\ ~deployed
  <2>1. Applied(o, config) = config \cup {x}
    BY AddFacts
  <2>2. Accepted(o, config) /\ IsPlain(q) => deployed
    BY <1>1, <1>2, AddFacts
  <2>3. ~(Len(x) > 2)
    BY <1>2
  <2>4. x \notin config /\ ~Accepted(o, config) =>
          x[1] \in {"data-source", "xa-data-source"} /\ ~deployed
    <3> HIDE DEF x
    <3> QED
      BY <2>3, AddFacts DEF o
  <2> QED
    BY <1>2, <2>1, <2>2, <2>4
<1>5. ~Collecting(q, 1) /\ ~Collecting(q, 2) /\ isBatchMode = FALSE
  BY <1>1, ModeFacts DEF Collecting
<1> HIDE DEF x, o
<1>6. config' = config \/ Grown
  BY <1>3, <1>4 DEF Grown
<1>7. Frame
  BY <1>3, <1>6 DEF Frame
<1>8. CASE /\ Accepted(o, config) /\ config' = Applied(o, config)
           /\ prog' = Tail(prog) /\ outcome' = "running" /\ faults' = faults
  <2>0. q \in Nat /\ isBatchMode' = FALSE /\ config \subseteq config' /\ Group(q) \subseteq config'
    BY <1>1, <1>3, <1>4, <1>5, <1>8, Counts
  <2>1. Mode(q, 2)' /\ Have(q, 2)'
    BY <1>1, <1>5, <2>0, ModeFacts, HaveKept
  <2>2. ASSUME faults' = 0 PROVE Sane(q, 2)'
    <3>1. Sane(q, 1)
      BY <1>1, <1>8, <2>2
    <3>2. ~(2 <= 1) /\ 1 <= 1
      OBVIOUS
    <3>3. CASE IsPlain(q)
      <4>1. Within(q, 2) /\ deployed
        BY <1>2, <1>4, <1>8, <3>3 DEF Within
      <4> QED
        BY <1>2, <1>3, <3>1, <3>2, <4>1 DEF Sane
    <3>4. CASE IsQueue(q)
      <4>1. ~Within(q, 1) /\ ~Within(q, 2)
        BY <1>2, <3>4 DEF Within
      <4>2. Fresh => Fresh'
        BY <1>2, <1>3, <1>4, <1>8, <3>4 DEF Fresh
      <4> QED
        BY <1>2, <1>3, <3>1, <3>2, <4>1, <4>2 DEF Sane
    <3> QED
      BY <1>2, <3>3, <3>4
  <2>3. prog' = Left(q, 2)
    BY <1>1, <1>8
  <2> QED
    BY <1>1, <1>7, <1>8, <2>1, <2>2, <2>3, HereNext DEF Onward
<1>9. CASE faults' = faults + 1 /\ prog' = <<>> /\ outcome' = "failed"
  <2>1. faults' # 0
    BY <1>1, <1>9
  <2> QED
    BY <1>7, <1>9, <2>1 DEF Onward, Broken
<1>10. CASE /\ prog' = <<>> /\ outcome' = "failed" /\ config' = config
            /\ faults' = faults /\ ~(server = "up" /\ Accepted(o, config))
  <2>1. ASSUME faults' = 0 PROVE Refused'
    <3>1. faults = 0 /\ Sane(q, 1)
      BY <1>1, <1>10, <2>1
    <3>2. server = "up" /\ x \notin config
      BY <1>2, <3>1 DEF Sane, x
    <3>3. ~deployed
      BY <1>4, <1>10, <3>2
    <3>4. Fresh /\ unscanned
      BY <1>1, <3>1, <3>3 DEF Sane
    <3> QED
      BY <1>3, <1>10, <3>2, <3>4 DEF Refused, Fresh
  <2> QED
    BY <1>7, <1>10, <2>1 DEF Onward, Broken
<1> QED
  BY <1>3, <1>8, <1>9, <1>10

(* An attribute of the recovery plugin is written: 624-629.                *)
LEMMA WriteStep ==
  ASSUME NEW q \in 1..(L - 1), NEW k \in 1..Len(Answer(q)), At(q, k), IsXa(q),
         k > M + 3, k < Len(Answer(q)), NEW a \in Words, Answer(q)[k] = WriteOp(Subject(q), a),
         ExecuteOperation, UNCHANGED suite
  PROVE  Onward
<1> DEFINE x == Subject(q)
           o == WriteOp(x, a)
<1>1. /\ prog # <<>> /\ Head(prog) = o /\ Tail(prog) = Left(q, k + 1)
      /\ Tail(prog) # <<>> /\ q \in 0..(L - 1) /\ k + 1 \in 1..(Len(Answer(q)) + 1)
      /\ Len(Answer(q)) \in Nat /\ M \in Nat /\ k \in Nat
      /\ Mode(q, k) /\ Have(q, k) /\ (faults = 0 => Sane(q, k)) /\ faults \in Nat
  BY AtAnswer
<1>2. x \in Group(q) /\ Of(Append(x, a)) = x /\ q \in Nat /\ q >= 1 /\ DoneAt(q) = M + 3
  BY GroupFacts, Counts DEF DoneAt
<1>3. /\ isBatchMode' = isBatchMode /\ UNCHANGED <<server, booted, deployed, jar, joined, unscanned, runs, phase, polls>>
      /\ wasChangeDone' = wasChangeDone
      /\ \/ /\ config' = Applied(o, config)
            /\ prog' = Tail(prog) /\ outcome' = "running" /\ faults' = faults
         \/ /\ config' = Applied(o, config) /\ prog' = <<>> /\ outcome' = "failed"
            /\ faults' = faults + 1
         \/ /\ prog' = <<>> /\ outcome' = "failed" /\ config' = config
            /\ \/ faults' = faults + 1
               \/ faults' = faults /\ ~(server = "up" /\ Accepted(o, config))
  BY <1>1 DEF ExecuteOperation, Continue, Throw, Fault, NoFault, suite, caller
<1>4. x \in config
  BY <1>1, <1>2 DEF Have
<1>5. Applied(o, config) = config \cup {Append(x, a)} /\ Accepted(o, config)
  BY <1>2, <1>4 DEF Applied, Accepted, WriteOp
<1>6. /\ ~Collecting(q, k) /\ ~Collecting(q, k + 1) /\ Within(q, k) /\ Within(q, k + 1)
      /\ k > DoneAt(q) /\ ~(k + 1 <= DoneAt(q))
  BY <1>1, <1>2 DEF Collecting, Within
<1>7. isBatchMode = FALSE
  BY <1>1, <1>6, ModeFacts
<1>8. config' = config \/ Grown
  <2> HIDE DEF o
  <2>1. config' = config \/ config' = config \cup {Append(x, a)}
    BY <1>3, <1>5
  <2> QED
    BY <1>4, <2>1 DEF Grown
<1> HIDE DEF x, o
<1>9. Frame
  BY <1>3, <1>8 DEF Frame
<1>10. CASE /\ config' = Applied(o, config)
            /\ prog' = Tail(prog) /\ outcome' = "running" /\ faults' = faults
  <2>1. isBatchMode' = FALSE /\ config \subseteq config'
    BY <1>3, <1>5, <1>7, <1>10
  <2>2. Mode(q, k + 1)' /\ Have(q, k + 1)'
    BY <1>1, <1>2, <1>6, <2>1, ModeFacts, HaveKept
  <2>3. ASSUME faults' = 0 PROVE Sane(q, k + 1)'
    <3>1. Sane(q, k)
      BY <1>1, <1>10, <2>3
    <3> QED
      BY <1>3, <1>6, <3>1 DEF Sane
  <2>4. prog' = Left(q, k + 1)
    BY <1>1, <1>10
  <2> QED
    BY <1>1, <1>9, <1>10, <2>2, <2>3, <2>4, HereNext DEF Onward
<1>11. CASE faults' = faults + 1 /\ prog' = <<>> /\ outcome' = "failed"
  <2>1. faults' # 0
    BY <1>1, <1>11
  <2> QED
    BY <1>9, <1>11, <2>1 DEF Onward, Broken
<1>12. CASE /\ prog' = <<>> /\ outcome' = "failed"
            /\ faults' = faults /\ ~(server = "up" /\ Accepted(o, config))
  <2>1. faults' # 0
    BY <1>1, <1>5, <1>12 DEF Sane
  <2> QED
    BY <1>9, <1>12, <2>1 DEF Onward, Broken
<1> QED
  BY <1>3, <1>10, <1>11, <1>12

(* The batch of an xa-datasource is started: 561-565.                      *)
LEMMA StartStep ==
  ASSUME NEW q \in 1..(L - 1), 1 \in 1..Len(Answer(q)), At(q, 1), IsXa(q),
         DoStartBatch, UNCHANGED suite
  PROVE  Onward
<1>1. /\ prog # <<>> /\ Tail(prog) = Left(q, 2)
      /\ Tail(prog) # <<>> /\ q \in 0..(L - 1) /\ 2 \in 1..(Len(Answer(q)) + 1)
      /\ Len(Answer(q)) \in Nat /\ M \in Nat
      /\ Mode(q, 1) /\ Have(q, 1) /\ (faults = 0 => Sane(q, 1)) /\ faults \in Nat
  <2>1. 1 + 1 = 2
    OBVIOUS
  <2> QED
    BY <2>1, AtAnswer
<1>2. DoneAt(q) = M + 3 /\ q \in Nat /\ Len(Answer(q)) >= M + 4
  <2>1. LET s == Answer(q) IN IsXa(q) => Len(s) >= M + 4
    BY AnswerElements
  <2> QED
    BY <2>1, Counts DEF DoneAt
<1>3. /\ ~Collecting(q, 1) /\ Collecting(q, 2) /\ Within(q, 1) /\ Within(q, 2)
      /\ 1 <= DoneAt(q) /\ ~(1 > DoneAt(q)) /\ 2 <= DoneAt(q) /\ ~(2 > DoneAt(q))
  BY <1>1, <1>2 DEF Collecting, Within
<1>4. isBatchMode = FALSE
  BY <1>1, <1>3, ModeFacts
<1>5. /\ isBatchMode' = TRUE /\ batch' = <<>> /\ prog' = Tail(prog) /\ outcome' = "running"
      /\ UNCHANGED <<server, booted, deployed, jar, joined, unscanned, runs, phase, polls,
                     wasChangeDone, faults, config>>
  BY <1>1, <1>4 DEF DoStartBatch, Continue, suite, remote
<1>6. batch' = [j \in 1..(2 - 2) |-> Answer(q)[j + 1]]
  BY <1>5
<1>7. Mode(q, 2)' /\ Have(q, 2)'
  BY <1>1, <1>2, <1>3, <1>5, <1>6, ModeFacts, HaveKept
<1>8. ASSUME faults' = 0 PROVE Sane(q, 2)'
  <2>1. Sane(q, 1)
    BY <1>1, <1>5, <1>8
  <2> QED
    BY <1>3, <1>5, <2>1 DEF Sane, Fresh
<1>9. Asking'
  BY <1>1, <1>5, <1>7, <1>8, HereNext
<1>10. Frame
  BY <1>5 DEF Frame
<1> QED
  BY <1>9, <1>10 DEF Onward

(* An operation is collected: 566-617, 825-828.                            *)
LEMMA CollectStep ==
  ASSUME NEW q \in 1..(L - 1), NEW k \in 1..Len(Answer(q)), At(q, k), IsXa(q),
         k \in 2..(M + 2), AddToBatch \/ ExecuteOperation, UNCHANGED suite
  PROVE  Onward
<1>1. /\ prog # <<>> /\ Head(prog) = Answer(q)[k] /\ Tail(prog) = Left(q, k + 1)
      /\ Tail(prog) # <<>> /\ q \in 0..(L - 1) /\ k + 1 \in 1..(Len(Answer(q)) + 1)
      /\ Len(Answer(q)) \in Nat /\ M \in Nat /\ k \in Nat
      /\ Mode(q, k) /\ Have(q, k) /\ (faults = 0 => Sane(q, k)) /\ faults \in Nat
  BY AtAnswer
<1>2. DoneAt(q) = M + 3 /\ q \in Nat /\ Len(Answer(q)) >= M + 4 /\ Answer(q) \in Seq(Items)
  <2>1. LET s == Answer(q) IN s \in Seq(Items) /\ (IsXa(q) => Len(s) >= M + 4)
    BY AnswerElements
  <2> QED
    BY <2>1, Counts DEF DoneAt
<1>3. /\ Collecting(q, k) /\ Collecting(q, k + 1) /\ Within(q, k) /\ Within(q, k + 1)
      /\ k <= DoneAt(q) /\ ~(k > DoneAt(q)) /\ k + 1 <= DoneAt(q) /\ ~(k + 1 > DoneAt(q))
  BY <1>1, <1>2 DEF Collecting, Within
<1>4. isBatchMode = TRUE /\ batch = [j \in 1..(k - 2) |-> Answer(q)[j + 1]]
  BY <1>1, <1>3, ModeFacts
<1>5. /\ isBatchMode' = TRUE /\ batch' = Append(batch, Answer(q)[k])
      /\ prog' = Tail(prog) /\ outcome' = "running"
      /\ UNCHANGED <<server, booted, deployed, jar, joined, unscanned, runs, phase, polls,
                     wasChangeDone, faults, config>>
  BY <1>1, <1>4 DEF AddToBatch, ExecuteOperation, Continue, suite, remote
<1>6. batch' = [j \in 1..((k + 1) - 2) |-> Answer(q)[j + 1]]
  <2> DEFINE f == [j \in 1..((k + 1) - 2) |-> Answer(q)[j + 1]]
             e == Answer(q)[k]
  <2>1. /\ k - 2 \in Nat /\ (k + 1) - 2 = (k - 2) + 1 /\ (k - 2) + 1 \in Nat /\ ((k - 2) + 1) + 1 = k
        /\ \A j \in 1..((k - 2) + 1) : j + 1 \in 1..Len(Answer(q))
    BY <1>1, <1>2
  <2>2. \A j \in 1..((k - 2) + 1) : Answer(q)[j + 1] \in Items
    BY <1>2, <2>1, ElementOfSeq
  <2>3. batch \in Seq(Items) /\ Len(batch) = k - 2 /\ \A j \in 1..(k - 2) : batch[j] = Answer(q)[j + 1]
    <3>1. \A j \in 1..(k - 2) : Answer(q)[j + 1] \in Items
      BY <2>1, <2>2
    <3> QED
      BY <1>4, <2>1, <3>1
  <2>4. f \in Seq(Items) /\ Len(f) = (k - 2) + 1 /\ \A j \in 1..((k - 2) + 1) : f[j] = Answer(q)[j + 1]
    BY <2>1, <2>2
  <2>5. e \in Items
    BY <1>2, ElementOfSeq
  <2> HIDE DEF f, e
  <2>6. \A b \in Seq(Items), i \in Items :
          /\ Append(b, i) \in Seq(Items) /\ Len(Append(b, i)) = Len(b) + 1
          /\ \A j \in 1..Len(b) : Append(b, i)[j] = b[j]
          /\ Append(b, i)[Len(b) + 1] = i
    BY ONLY AppendProperties
  <2>7. /\ Append(batch, e) \in Seq(Items) /\ Len(Append(batch, e)) = (k - 2) + 1
        /\ \A j \in 1..(k - 2) : Append(batch, e)[j] = batch[j]
        /\ Append(batch, e)[(k - 2) + 1] = e
    <3>1. /\ Append(batch, e) \in Seq(Items) /\ Len(Append(batch, e)) = Len(batch) + 1
          /\ \A j \in 1..Len(batch) : Append(batch, e)[j] = batch[j]
          /\ Append(batch, e)[Len(batch) + 1] = e
      BY <2>3, <2>5, <2>6
    <3> QED
      BY <2>3, <3>1
  <2>8. ASSUME NEW j \in 1..((k - 2) + 1) PROVE Append(batch, e)[j] = f[j]
    <3>1. CASE j \in 1..(k - 2)
      BY <2>3, <2>4, <2>7, <2>8, <3>1
    <3>2. CASE j = (k - 2) + 1
      <4>1. f[j] = Answer(q)[k]
        BY <2>1, <2>4, <2>8, <3>2
      <4> QED
        BY <2>7, <3>2, <4>1 DEF e
    <3>3. j \in 1..(k - 2) \/ j = (k - 2) + 1
      BY <2>1, <2>8
    <3> QED
      BY <3>1, <3>2, <3>3
  <2>9. Append(batch, e) = f
    BY <2>4, <2>7, <2>8, SeqEqual
  <2> QED
    BY <1>5, <2>9 DEF e, f
<1>7. Mode(q, k + 1)' /\ Have(q, k + 1)'
  BY <1>1, <1>2, <1>3, <1>5, <1>6, ModeFacts, HaveKept
<1>8. ASSUME faults' = 0 PROVE Sane(q, k + 1)'
  <2>1. Sane(q, k)
    BY <1>1, <1>5, <1>8
  <2> QED
    BY <1>3, <1>5, <2>1 DEF Sane, Fresh
<1>9. Asking'
  BY <1>1, <1>5, <1>7, <1>8, HereNext
<1>10. Frame
  BY <1>5 DEF Frame
<1> QED
  BY <1>9, <1>10 DEF Onward

(* The batch is run: 619-622, 847-865.                                     *)
LEMMA RunStep ==
  ASSUME NEW q \in 1..(L - 1), NEW k \in 1..Len(Answer(q)), At(q, k), IsXa(q), k = M + 3,
         DoRunBatch, UNCHANGED suite
  PROVE  Onward
<1> DEFINE x == Subject(q)
           r == Composite(batch)
<1>1. /\ prog # <<>> /\ Tail(prog) = Left(q, k + 1)
      /\ Tail(prog) # <<>> /\ q \in 0..(L - 1) /\ k + 1 \in 1..(Len(Answer(q)) + 1)
      /\ Len(Answer(q)) \in Nat /\ M \in Nat /\ k \in Nat
      /\ Mode(q, k) /\ Have(q, k) /\ (faults = 0 => Sane(q, k)) /\ faults \in Nat
      /\ (faults = 0 => deployed \/ unscanned) /\ JdbcDriver \notin config
  BY AtAnswer
<1>2. DoneAt(q) = M + 3 /\ q \in Nat /\ q >= 1 /\ Len(Answer(q)) >= M + 4
  <2>1. LET s == Answer(q) IN IsXa(q) => Len(s) >= M + 4
    BY AnswerElements
  <2> QED
    BY <2>1, Counts DEF DoneAt
<1>3. /\ Collecting(q, k) /\ ~Collecting(q, k + 1) /\ Within(q, k + 1)
      /\ k <= DoneAt(q) /\ k + 1 > DoneAt(q) /\ ~(k + 1 <= DoneAt(q)) /\ k - 2 = M + 1
  BY <1>1, <1>2 DEF Collecting, Within
<1>4. isBatchMode = TRUE /\ batch = [j \in 1..(M + 1) |-> Answer(q)[j + 1]]
  <2>1. isBatchMode = TRUE /\ batch = [j \in 1..(k - 2) |-> Answer(q)[j + 1]]
    BY <1>1, <1>3, ModeFacts
  <2> QED
    BY <1>3, <2>1
<1>5. /\ batch # <<>> /\ {i \in DOMAIN batch : IsLifecycle(batch[i])} = {}
      /\ r.config = config \cup Group(q)
      /\ r.ok => deployed
      /\ Possible(x) => r.ok
  BY <1>1, <1>4, XaComposite
<1>6. /\ isBatchMode' = FALSE
      /\ UNCHANGED <<server, booted, deployed, jar, joined, unscanned, runs, phase, polls, wasChangeDone>>
      /\ \/ /\ r.ok /\ config' = r.config
            /\ prog' = Tail(prog) /\ outcome' = "running" /\ faults' = faults
         \/ /\ config' = r.config /\ prog' = <<>> /\ outcome' = "failed" /\ faults' = faults + 1
         \/ /\ prog' = <<>> /\ outcome' = "failed" /\ config' = config
            /\ \/ faults' = faults + 1
               \/ faults' = faults /\ ~(server = "up" /\ r.ok)
  <2> HIDE DEF r
  <2>1. /\ isBatchMode' = FALSE
        /\ UNCHANGED <<booted, deployed, jar, joined, unscanned, runs, phase, polls, wasChangeDone>>
    BY DEF DoRunBatch, suite
  <2>2. LET result    == Composite(batch)
            possible  == isBatchMode /\ server = "up" /\ batch # <<>> /\ result.ok
            lifecycle == {i \in DOMAIN batch : IsLifecycle(batch[i])}
        IN  \/ /\ possible
               /\ config' = result.config
               /\ server' = IF lifecycle = {} THEN server ELSE Leaving(batch[Max(lifecycle)].op)
               /\ \/ Continue(Tail(prog)) /\ batch' = <<>> /\ NoFault
                  \/ Throw /\ UNCHANGED batch /\ Fault
            \/ /\ Throw
               /\ UNCHANGED <<batch, config, server>>
               /\ IF possible /\ lifecycle = {} THEN Fault ELSE NoFault
    BY DEF DoRunBatch
  <2> DEFINE possible == isBatchMode /\ server = "up" /\ batch # <<>> /\ r.ok
  <2>3. \/ /\ possible /\ config' = r.config /\ server' = server
           /\ \/ Continue(Tail(prog)) /\ batch' = <<>> /\ NoFault
              \/ Throw /\ UNCHANGED batch /\ Fault
        \/ /\ Throw
           /\ UNCHANGED <<batch, config, server>>
           /\ IF possible THEN Fault ELSE NoFault
    BY <1>5, <2>2 DEF r
  <2>4. possible <=> server = "up" /\ r.ok
    BY <1>4, <1>5
  <2> HIDE DEF possible
  <2> QED
    BY <1>1, <2>1, <2>3, <2>4 DEF Continue, Throw, Fault, NoFault
<1> HIDE DEF x, r
<1>7. config' = config \/ Grown
  BY <1>5, <1>6 DEF Grown
<1>8. Frame
  BY <1>6, <1>7 DEF Frame
<1>9. CASE /\ r.ok /\ config' = r.config
           /\ prog' = Tail(prog) /\ outcome' = "running" /\ faults' = faults
  <2>1. config \subseteq config' /\ Group(q) \subseteq config' /\ deployed
    BY <1>5, <1>9
  <2>2. Mode(q, k + 1)' /\ Have(q, k + 1)'
    BY <1>1, <1>2, <1>3, <1>6, <2>1, ModeFacts, HaveKept
  <2>3. ASSUME faults' = 0 PROVE Sane(q, k + 1)'
    <3>1. Sane(q, k)
      BY <1>1, <1>9, <2>3
    <3> QED
      BY <1>3, <1>6, <2>1, <3>1 DEF Sane
  <2>4. prog' = Left(q, k + 1)
    BY <1>1, <1>9
  <2> QED
    BY <1>1, <1>8, <1>9, <2>2, <2>3, <2>4, HereNext DEF Onward
<1>10. CASE faults' = faults + 1 /\ prog' = <<>> /\ outcome' = "failed"
  <2>1. faults' # 0
    BY <1>1, <1>10
  <2> QED
    BY <1>8, <1>10, <2>1 DEF Onward, Broken
<1>11. CASE /\ prog' = <<>> /\ outcome' = "failed" /\ config' = config
            /\ faults' = faults /\ ~(server = "up" /\ r.ok)
  <2>1. ASSUME faults' = 0 PROVE Refused'
    <3>1. faults = 0 /\ Sane(q, k)
      BY <1>1, <1>11, <2>1
    <3>2. server = "up" /\ x \notin config
      BY <1>2, <1>3, <3>1 DEF Sane, x
    <3>3. \A p \in config : Of(p) \in config
      BY DEF At, Steady
    <3>4. ~deployed
      BY <1>5, <1>11, <3>2, <3>3 DEF Possible
    <3>5. Fresh /\ unscanned
      BY <1>1, <3>1, <3>4 DEF Sane
    <3> QED
      BY <1>6, <1>11, <3>2, <3>5 DEF Refused, Fresh
  <2> QED
    BY <1>8, <1>11, <2>1 DEF Onward, Broken
<1> QED
  BY <1>6, <1>9, <1>10, <1>11

(* The change is noted.                                                    *)
LEMMA ChangedStep ==
  ASSUME NEW q \in 1..(L - 1), NEW k \in 1..Len(Answer(q)), At(q, k),
         k = Len(Answer(q)), k > DoneAt(q), IsPlain(q) \/ IsXa(q), NoteChange
  PROVE  Onward
<1>1. /\ prog # <<>> /\ Tail(prog) = Left(q, k + 1)
      /\ Tail(prog) # <<>> /\ q \in 0..(L - 1) /\ k + 1 \in 1..(Len(Answer(q)) + 1)
      /\ Len(Answer(q)) \in Nat /\ M \in Nat /\ k \in Nat
      /\ Mode(q, k) /\ Have(q, k) /\ (faults = 0 => Sane(q, k)) /\ faults \in Nat
  BY AtAnswer
<1>2. q \in Nat /\ (IsXa(q) => DoneAt(q) = M + 3)
  BY Counts DEF DoneAt
<1>3. /\ ~Collecting(q, k) /\ ~Collecting(q, k + 1) /\ Within(q, k) /\ ~Within(q, k + 1)
      /\ DoneAt(q) \in Nat /\ ~(k + 1 <= DoneAt(q))
  <2>1. DoneAt(q) \in Nat
    BY <1>1 DEF DoneAt
  <2> QED
    BY <1>1, <1>2, <2>1 DEF Collecting, Within
<1>4. isBatchMode = FALSE
  BY <1>1, <1>3, ModeFacts
<1>5. /\ isBatchMode' = FALSE /\ prog' = Tail(prog) /\ outcome' = "running" /\ wasChangeDone' = TRUE
      /\ UNCHANGED <<server, booted, deployed, jar, joined, unscanned, runs, phase, polls, faults, config>>
  BY <1>1, <1>4 DEF NoteChange, Continue, remote
<1>6. Mode(q, k + 1)' /\ Have(q, k + 1)'
  BY <1>1, <1>2, <1>3, <1>5, ModeFacts, HaveKept
<1>7. ASSUME faults' = 0 PROVE Sane(q, k + 1)'
  <2>1. Sane(q, k)
    BY <1>1, <1>5, <1>7
  <2> QED
    BY <1>3, <1>5, <2>1 DEF Sane, Fresh
<1>8. Asking'
  BY <1>1, <1>5, <1>6, <1>7, HereNext
<1>9. Frame
  BY <1>5 DEF Frame
<1> QED
  BY <1>8, <1>9 DEF Onward

(* Behind an answer, the next question or the reload.                      *)
LEMMA AtQuestion ==
  ASSUME NEW q \in 0..(L - 1), At(q, Len(Answer(q)) + 1)
  PROVE  LET k == Len(Answer(q)) + 1
         IN  /\ prog # <<>> /\ k \in 1..(Len(Answer(q)) + 1) /\ isBatchMode = FALSE
             /\ ~Within(q, k) /\ (q >= 1 => k > DoneAt(q) /\ ~(k <= DoneAt(q)))
             /\ Have(q, k) /\ (faults = 0 => Sane(q, k)) /\ faults \in Nat /\ q \in Nat
             /\ q < L - 1 =>
                  /\ Head(prog) = IfDefined(Subject(q + 1), <<>>, Answer(q + 1))
                  /\ <<>> \o Tail(prog) = Left(q + 1, Len(Answer(q + 1)) + 1)
                  /\ Answer(q + 1) \o Tail(prog) = Left(q + 1, 1)
                  /\ Left(q + 1, Len(Answer(q + 1)) + 1) # <<>> /\ Left(q + 1, 1) # <<>>
             /\ q = L - 1 => Head(prog) = ReloadIfChanged
<1> DEFINE k == Len(Answer(q)) + 1
<1>1. /\ Len(Answer(q)) \in Nat /\ k \in 1..(Len(Answer(q)) + 1)
      /\ ~Collecting(q, k) /\ ~Within(q, k)
      /\ q >= 1 => k > DoneAt(q) /\ ~(k <= DoneAt(q))
  BY BehindAnswer
<1>2. LET s == Left(q, k)
      IN  /\ s # <<>>
          /\ k = Len(Answer(q)) + 1 /\ q < L - 1 =>
                  /\ Head(s) = IfDefined(Subject(q + 1), <<>>, Answer(q + 1))
                  /\ <<>> \o Tail(s) = Left(q + 1, Len(Answer(q + 1)) + 1)
                  /\ Answer(q + 1) \o Tail(s) = Left(q + 1, 1)
          /\ k = Len(Answer(q)) + 1 /\ q = L - 1 => Head(s) = ReloadIfChanged
  BY <1>1, LeftFacts
<1>3. ASSUME q < L - 1
      PROVE  Left(q + 1, Len(Answer(q + 1)) + 1) # <<>> /\ Left(q + 1, 1) # <<>>
  <2> DEFINE r == q + 1
  <2>1. r \in 0..(L - 1)
    BY <1>3, Counts
  <2> HIDE DEF r
  <2>2. Len(Answer(r)) + 1 \in 1..(Len(Answer(r)) + 1) /\ 1 \in 1..(Len(Answer(r)) + 1)
    BY <2>1, BehindAnswer
  <2>3. \A h \in 1..(Len(Answer(r)) + 1) : Left(r, h) # <<>>
    BY <2>1, LeftFacts
  <2> QED
    BY <2>2, <2>3 DEF r
<1>4. /\ prog = Left(q, k) /\ Mode(q, k) /\ Have(q, k) /\ (faults = 0 => Sane(q, k)) /\ faults \in Nat
  BY DEF At, Here, Steady
<1>5. isBatchMode = FALSE
  BY <1>1, <1>4, ModeFacts
<1> HIDE DEF k
<1> QED
  BY <1>1, <1>2, <1>3, <1>4, <1>5, Counts DEF k

(* A question is asked: 787-803.                                           *)
LEMMA QuestionStep ==
  ASSUME NEW q \in 0..(L - 1), q < L - 1, At(q, Len(Answer(q)) + 1), IsDefined, UNCHANGED suite
  PROVE  Onward
<1> DEFINE k == Len(Answer(q)) + 1
           r == q + 1
           l == Len(Answer(r)) + 1
           x == Subject(r)
<1>1. /\ prog # <<>> /\ isBatchMode = FALSE
      /\ ~Within(q, k) /\ (q >= 1 => k > DoneAt(q))
      /\ Have(q, k) /\ (faults = 0 => Sane(q, k)) /\ faults \in Nat /\ q \in Nat
      /\ Head(prog) = IfDefined(x, <<>>, Answer(r))
      /\ <<>> \o Tail(prog) = Left(r, l) /\ Answer(r) \o Tail(prog) = Left(r, 1)
      /\ Left(r, l) # <<>> /\ Left(r, 1) # <<>>
  BY AtQuestion
<1>2. /\ r \in 1..(L - 1) /\ r \in 0..(L - 1) /\ r \in Nat /\ r >= 1 /\ \A i \in 1..r : i = r \/ i \in 1..q
  BY <1>1, Counts
<1>3. /\ UNCHANGED <<isBatchMode, server, config, booted, deployed, jar, joined, unscanned, runs, phase,
                     polls, wasChangeDone>>
      /\ \/ /\ server = "up" /\ x \in config /\ prog' = Left(r, l) /\ outcome' = "running"
            /\ faults' = faults
         \/ /\ server = "up" /\ x \notin config /\ prog' = Left(r, 1) /\ outcome' = "running"
            /\ faults' = faults
         \/ prog' = Left(r, 1) /\ outcome' = "running" /\ faults' = faults + 1
         \/ prog' = <<>> /\ outcome' = "failed" /\ faults' = faults + 1
         \/ server # "up" /\ prog' = <<>> /\ outcome' = "failed" /\ faults' = faults
  <2>1. Head(prog).at = x /\ Head(prog).yes = <<>> /\ Head(prog).no = Answer(r)
    BY <1>1 DEF IfDefined
  <2> HIDE DEF r, l, x
  <2> QED
    BY <1>1, <2>1 DEF IsDefined, Continue, Throw, Fault, NoFault, suite, remote
<1>4. /\ ~Collecting(r, l) /\ ~Within(r, l) /\ l \in 1..(Len(Answer(r)) + 1) /\ ~(l <= DoneAt(r))
      /\ 1 \in 1..(Len(Answer(r)) + 1)
  BY <1>2, BehindAnswer
<1>5. /\ ~Collecting(r, 1) /\ ~(1 > DoneAt(r))
      /\ Group(r) = {x} \/ (IsXa(r) /\ Group(r) = {x} \cup {Append(x, p) : p \in Range(Props)})
  BY <1>2, Counts, GroupFacts DEF Collecting, DoneAt
<1> HIDE DEF k, l, x
<1>6. \A i \in 1..q : Group(i) \subseteq config
  <2> SUFFICES ASSUME NEW i \in 1..q PROVE Group(i) \subseteq config
    OBVIOUS
  <2>1. i < q \/ k > DoneAt(q)
    BY <1>1
  <2> QED
    BY <1>1, <2>1 DEF Have
<1>7. Frame
  BY <1>3 DEF Frame
<1>8. config' = config /\ isBatchMode' = FALSE
  BY <1>1, <1>3
<1>9. CASE server = "up" /\ x \in config /\ prog' = Left(r, l) /\ outcome' = "running" /\ faults' = faults
  <2>1. Group(r) \subseteq config
    <3>1. CASE Group(r) = {x}
      BY <1>9, <3>1
    <3>2. CASE IsXa(r) /\ Group(r) = {x} \cup {Append(x, p) : p \in Range(Props)}
      <4>1. XaDs[r - P] \in Range(XaDs) /\ x = XaDataSource(XaDs[r - P])
        <5>1. r - P \in DOMAIN XaDs
          BY <3>2, Counts, SetupAssumption, LenProperties DEF X
        <5> QED
          BY <1>2, <3>2, <5>1, SubjectFacts DEF Range, x
      <4> QED
        BY <1>9, <3>2, <4>1 DEF At, Steady
    <3> QED
      BY <1>5, <3>1, <3>2
  <2>2. Mode(r, l)'
    BY <1>4, <1>8, ModeFacts
  <2>3. Have(r, l)'
    <3>1. \A i \in 1..r : Group(i) \subseteq config
      BY <1>2, <1>6, <2>1
    <3> QED
      BY <1>8, <3>1 DEF Have
  <2>4. ASSUME faults' = 0 PROVE Sane(r, l)'
    <3>1. Sane(q, k)
      BY <1>1, <1>9, <2>4
    <3> QED
      BY <1>1, <1>3, <1>4, <3>1 DEF Sane, Fresh
  <2> QED
    BY <1>2, <1>4, <1>7, <1>9, <2>2, <2>3, <2>4, HereNext DEF Onward
<1>10. CASE /\ prog' = Left(r, 1) /\ outcome' = "running"
            /\ (faults' = faults /\ x \notin config) \/ faults' = faults + 1
  <2>1. Mode(r, 1)'
    BY <1>5, <1>8, ModeFacts
  <2>2. Have(r, 1)'
    <3>1. \A i \in 1..r : i < r \/ 1 > DoneAt(r) => Group(i) \subseteq config
      BY <1>2, <1>5, <1>6
    <3> QED
      BY <1>8, <3>1 DEF Have
  <2>3. ASSUME faults' = 0 PROVE Sane(r, 1)'
    <3>1. Sane(q, k) /\ x \notin config
      BY <1>1, <1>10, <2>3
    <3> QED
      BY <1>1, <1>3, <1>5, <3>1 DEF Sane, Fresh, x
  <2> QED
    BY <1>2, <1>4, <1>7, <1>10, <2>1, <2>2, <2>3, HereNext DEF Onward
<1>11. CASE /\ prog' = <<>> /\ outcome' = "failed"
            /\ faults' = faults + 1 \/ (server # "up" /\ faults' = faults)
  <2>1. faults' # 0
    BY <1>1, <1>11 DEF Sane
  <2> QED
    BY <1>7, <1>11, <2>1 DEF Onward, Broken
<1> QED
  BY <1>3, <1>9, <1>10, <1>11

(* All the answers together define all of the setup.                       *)
LEMMA GroupsComplete ==
  ASSUME NEW c, \A q \in 1..(L - 1) : Group(q) \subseteq c
  PROVE  Complete \subseteq c
<1>1. ASSUME NEW n \in Range(PlainDs) PROVE DataSource(n) \in c
  <2>1. PICK i \in 1..P : n = PlainDs[i]
    BY SetupAssumption DEF Range, P
  <2>2. i \in 1..(L - 1) /\ IsPlain(i)
    BY Counts DEF IsPlain
  <2>3. Subject(i) = DataSource(n)
    BY <2>1, <2>2, SubjectFacts
  <2> QED
    BY <2>2, <2>3, GroupFacts
<1>2. ASSUME NEW n \in Range(XaDs)
      PROVE  XaDataSource(n) \in c /\ \A p \in Range(Props) : Append(XaDataSource(n), p) \in c
  <2>1. PICK i \in 1..X : n = XaDs[i]
    BY SetupAssumption DEF Range, X
  <2>2. P + i \in 1..(L - 1) /\ IsXa(P + i) /\ (P + i) - P = i
    BY Counts DEF IsXa
  <2>3. Subject(P + i) = XaDataSource(n)
    BY <2>1, <2>2, SubjectFacts
  <2> DEFINE q == P + i
  <2>4. Group(q) \subseteq c /\ q \in 1..(L - 1) /\ IsXa(q) /\ Subject(q) = XaDataSource(n)
    BY <2>2, <2>3
  <2> HIDE DEF q
  <2>5. LET x == Subject(q) IN Group(q) = {x} \cup {Append(x, p) : p \in Range(Props)}
    BY <2>4, GroupFacts
  <2>6. \A p \in Range(Props) : Append(XaDataSource(n), p) \in Group(q)
    BY <2>4, <2>5
  <2>7. XaDataSource(n) \in Group(q)
    BY <2>4, <2>5
  <2> QED
    BY <2>4, <2>6, <2>7
<1>3. JmsQueue(Queue) \in c
  <2>1. L - 1 \in 1..(L - 1) /\ IsQueue(L - 1)
    BY Counts DEF IsQueue
  <2> QED
    BY <2>1, SubjectFacts, GroupFacts
<1>4. Datasources \subseteq c
  BY <1>1, <1>2 DEF Datasources
<1>5. XaChildren \subseteq c
  <2> SUFFICES ASSUME NEW y \in XaChildren PROVE y \in c
    OBVIOUS
  <2>1. PICK n \in Range(XaDs), p \in Range(Props) : y = Append(XaDataSource(n), p)
    BY DEF XaChildren
  <2>2. Append(XaDataSource(n), p) \in c
    BY <1>2
  <2> QED
    BY <2>1, <2>2
<1> QED
  BY <1>3, <1>4, <1>5 DEF Complete

(* Behind the last answer the server is reloaded, or the setup ends.       *)
LEMMA FlagStep ==
  ASSUME At(L - 1, Len(Answer(L - 1)) + 1), DoReloadIfChanged
  PROVE  Onward
<1> DEFINE q == L - 1
           k == Len(Answer(q)) + 1
<1>0. q \in 0..(L - 1) /\ q \in 1..(L - 1) /\ q >= 1
  BY Counts
<1>1. /\ prog # <<>> /\ isBatchMode = FALSE
      /\ ~Within(q, k) /\ k > DoneAt(q)
      /\ Have(q, k) /\ (faults = 0 => Sane(q, k)) /\ faults \in Nat
  BY <1>0, AtQuestion
<1>2. /\ prog' = (IF wasChangeDone THEN Reload ELSE <<>>)
      /\ outcome' = (IF prog' = <<>> THEN "ok" ELSE "running")
      /\ UNCHANGED <<isBatchMode, server, config, booted, deployed, jar, joined, unscanned, runs, phase,
                     polls, wasChangeDone, faults>>
  BY DEF DoReloadIfChanged, Continue, suite, remote
<1>3. Reload # <<>> /\ <<Wait>> # <<>> /\ Reload # <<Wait>>
  <2>1. Len(Reload) = 2 /\ Len(<<>>) = 0 /\ Len(<<Wait>>) = 1
    BY DEF Reload
  <2> QED
    BY <2>1
<1> HIDE DEF k
<1>4. Complete \subseteq config
  <2>1. \A i \in 1..q : Group(i) \subseteq config
    BY <1>1 DEF Have
  <2> QED
    BY <2>1, GroupsComplete
<1> HIDE DEF q
<1>5. ASSUME faults' = 0
      PROVE  server = "up" /\ (prog' = <<>> => Fresh)
  <2>1. Sane(q, k)
    BY <1>1, <1>2, <1>5
  <2>2. server = "up" /\ (Fresh \/ wasChangeDone)
    BY <1>1, <2>1 DEF Sane
  <2> QED
    BY <1>2, <1>3, <2>2
<1>6. Reloading'
  <2>1. /\ \/ prog' \in {Reload, <<Wait>>} /\ outcome' = "running"
           \/ prog' = <<>> /\ outcome' = "ok"
        /\ prog' # <<Wait>>
    BY <1>2, <1>3
  <2>2. ~isBatchMode' /\ Complete \subseteq config'
    BY <1>1, <1>2, <1>4
  <2>3. faults' = 0 => server' = "up" /\ (prog' = <<>> => Fresh')
    BY <1>2, <1>5 DEF Fresh
  <2> QED
    BY <2>1, <2>2, <2>3 DEF Reloading
<1>7. Frame
  BY <1>2 DEF Frame
<1> QED
  BY <1>6, <1>7 DEF Onward

(* Which step an instruction asks for.                                     *)
ProgramStep == SetupClient \/ NoteChange \/ DoReloadIfChanged

LEMMA StepKinds ==
  ASSUME ProgramStep
  PROVE  /\ prog # <<>> /\ phase = "setup"
         /\ Head(prog).do = "execute" => (AddToBatch \/ ExecuteOperation) /\ UNCHANGED suite
         /\ Head(prog).do = "startBatch" => DoStartBatch /\ UNCHANGED suite
         /\ Head(prog).do = "runBatch" => DoRunBatch /\ UNCHANGED suite
         /\ Head(prog).do = "isDefined" => IsDefined /\ UNCHANGED suite
         /\ Head(prog).do = "reinitialize" => ExecuteServerReinitialization /\ UNCHANGED suite
         /\ Head(prog).do = "wait" => Poll /\ UNCHANGED suite
         /\ Head(prog).do = "changed" => NoteChange
         /\ Head(prog).do = "reloadIfChanged" => DoReloadIfChanged
<1> DEFINE d == Head(prog).do
<1>1. /\ DoStartBatch => d = "startBatch" /\ Running
      /\ DoCancelBatch => d = "cancelBatch" /\ Running
      /\ AddToBatch \/ ExecuteOperation => d = "execute" /\ Running
      /\ DoRunBatch => d = "runBatch" /\ Running
      /\ IsDefined => d = "isDefined" /\ Running
      /\ IsResourceExists => d = "isResourceExists" /\ Running
      /\ ExecuteServerReinitialization => d = "reinitialize" /\ Running
      /\ Poll => d = "wait" /\ Running
      /\ DoAwaitStop => d = "awaitStop" /\ Running
      /\ DoStart => d = "start" /\ Running
      /\ NoteChange => d = "changed" /\ Running /\ phase = "setup"
      /\ DoReloadIfChanged => d = "reloadIfChanged" /\ Running /\ phase = "setup"
  BY DEF DoStartBatch, DoCancelBatch, AddToBatch, ExecuteOperation, DoRunBatch, IsDefined, IsResourceExists,
         ExecuteServerReinitialization, Poll, DoAwaitStop, DoStart, NoteChange, DoReloadIfChanged, Doing
<1>2. SetupClient => Client /\ phase = "setup" /\ UNCHANGED suite
  BY DEF SetupClient
<1> HIDE DEF d
<1>3. Client => \/ DoStartBatch \/ DoCancelBatch \/ AddToBatch \/ ExecuteOperation \/ DoRunBatch
                \/ IsDefined \/ IsResourceExists \/ ExecuteServerReinitialization \/ Poll
                \/ DoAwaitStop \/ DoStart
  BY DEF Client
<1>4. SetupClient \/ NoteChange \/ DoReloadIfChanged
  BY DEF ProgramStep
<1>5. prog # <<>> <=> Running
  BY DEF Running
<1>6. CASE NoteChange \/ DoReloadIfChanged
  BY <1>1, <1>5, <1>6 DEF d
<1>7. CASE SetupClient
  <2>1. /\ Running /\ phase = "setup" /\ UNCHANGED suite
    BY <1>1, <1>2, <1>3, <1>7
  <2>2. /\ d = "execute" => AddToBatch \/ ExecuteOperation
        /\ d = "startBatch" => DoStartBatch
        /\ d = "runBatch" => DoRunBatch
        /\ d = "isDefined" => IsDefined
        /\ d = "reinitialize" => ExecuteServerReinitialization
        /\ d = "wait" => Poll
        /\ d # "changed" /\ d # "reloadIfChanged"
    BY <1>1, <1>2, <1>3, <1>7
  <2> QED
    BY <1>5, <2>1, <2>2 DEF d
<1> QED
  BY <1>4, <1>6, <1>7

(* The instructions of the setup by their kinds.                           *)
LEMMA DoFacts ==
  /\ \A p : AddOp(p).do = "execute"
  /\ \A p, a : WriteOp(p, a).do = "execute"
  /\ StartBatch.do = "startBatch" /\ RunBatch.do = "runBatch" /\ Changed.do = "changed"
  /\ \A p, y, n : IfDefined(p, y, n).do = "isDefined"
  /\ ReloadIfChanged.do = "reloadIfChanged" /\ Wait.do = "wait"
  /\ Reinitialize("reload").do = "reinitialize" /\ Reinitialize("reload").op = "reload"
BY DEF AddOp, WriteOp, StartBatch, RunBatch, Changed, IfDefined, ReloadIfChanged, Wait, Reinitialize

(* One step of the program before the reload.                              *)
LEMMA AskingStep ==
  ASSUME Steady, PhaseInv, Asking, ProgramStep
  PROVE  Onward
<1>1. prog # <<>> /\ phase = "setup"
  BY StepKinds
<1>0. PICK q \in 0..(L - 1) : \E k \in 1..(Len(Answer(q)) + 1) : Here(q, k)
  BY DEF Asking
<1>2. PICK k \in 1..(Len(Answer(q)) + 1) : Here(q, k)
  BY <1>0
<1>3. At(q, k)
  BY <1>1, <1>2 DEF At
<1>4. Len(Answer(q)) \in Nat
  BY BehindAnswer
<1>5. CASE k = Len(Answer(q)) + 1
  <2>1. At(q, Len(Answer(q)) + 1)
    BY <1>3, <1>5
  <2>2. /\ q < L - 1 => Head(prog) = IfDefined(Subject(q + 1), <<>>, Answer(q + 1))
        /\ q = L - 1 => Head(prog) = ReloadIfChanged
    BY <2>1, AtQuestion
  <2>3. CASE q < L - 1
    BY <2>1, <2>2, <2>3, DoFacts, StepKinds, QuestionStep
  <2>4. CASE q = L - 1
    <3>1. DoReloadIfChanged
      BY <2>2, <2>4, DoFacts, StepKinds
    <3> QED
      BY <2>1, <2>4, <3>1, FlagStep
  <2>5. q < L - 1 \/ q = L - 1
    BY Counts
  <2> QED
    BY <2>3, <2>4, <2>5
<1>6. CASE k \in 1..Len(Answer(q))
  <2>1. q \in 1..(L - 1)
    <3>1. q = 0 \/ q \in 1..(L - 1)
      BY Counts
    <3>2. q # 0
      BY <1>6, FirstAnswer
    <3> QED
      BY <3>1, <3>2
  <2>2. Head(prog) = Answer(q)[k] /\ Mode(q, k)
    BY <1>3, <1>6, <2>1, AtAnswer
  <2> DEFINE x == Subject(q)
             o == Answer(q)[k]
  <2>3. \/ k = 1 /\ ~IsXa(q) /\ o = AddOp(x)
        \/ IsXa(q) /\ k = 1 /\ o = StartBatch
        \/ IsXa(q) /\ k \in 2..(M + 2) /\ o.do = "execute"
        \/ IsXa(q) /\ k = M + 3 /\ o = RunBatch
        \/ /\ IsXa(q) /\ k > M + 3 /\ k < Len(Answer(q))
           /\ \E a \in Words : o = WriteOp(x, a)
        \/ k = Len(Answer(q)) /\ k > DoneAt(q) /\ (IsPlain(q) \/ IsXa(q)) /\ o = Changed
    BY <1>6, <2>1, AnswerCases
  <2>4. AddToBatch => isBatchMode
    BY DEF AddToBatch
  <2> HIDE DEF x, o
  <2>5. CASE k = 1 /\ ~IsXa(q) /\ o = AddOp(x)
    <3>1. isBatchMode = FALSE
      <4>1. ~Collecting(q, k)
        BY <2>5 DEF Collecting
      <4> QED
        BY <2>2, <4>1, ModeFacts
    <3>2. ExecuteOperation /\ UNCHANGED suite
      BY <2>2, <2>4, <2>5, <3>1, DoFacts, StepKinds DEF o
    <3>3. 1 \in 1..Len(Answer(q)) /\ At(q, 1) /\ Answer(q)[1] = AddOp(Subject(q))
      BY <1>3, <1>6, <2>5 DEF o, x
    <3> QED
      BY <2>1, <2>5, <3>2, <3>3, AddStep
  <2>6. CASE IsXa(q) /\ k = 1 /\ o = StartBatch
    <3>1. DoStartBatch /\ UNCHANGED suite
      BY <2>2, <2>6, DoFacts, StepKinds DEF o
    <3>2. 1 \in 1..Len(Answer(q)) /\ At(q, 1)
      BY <1>3, <1>6, <2>6
    <3> QED
      BY <2>1, <2>6, <3>1, <3>2, StartStep
  <2>7. CASE IsXa(q) /\ k \in 2..(M + 2) /\ o.do = "execute"
    <3>1. (AddToBatch \/ ExecuteOperation) /\ UNCHANGED suite
      BY <2>2, <2>7, StepKinds DEF o
    <3> QED
      BY <1>3, <1>6, <2>1, <2>7, <3>1, CollectStep
  <2>8. CASE IsXa(q) /\ k = M + 3 /\ o = RunBatch
    <3>1. DoRunBatch /\ UNCHANGED suite
      BY <2>2, <2>8, DoFacts, StepKinds DEF o
    <3> QED
      BY <1>3, <1>6, <2>1, <2>8, <3>1, RunStep
  <2>9. ASSUME IsXa(q), k > M + 3, k < Len(Answer(q)), NEW a \in Words, o = WriteOp(x, a)
        PROVE  Onward
    <3>1. isBatchMode = FALSE
      <4>1. ~Collecting(q, k)
        BY <1>4, <1>6, <2>9, Counts DEF Collecting
      <4> QED
        BY <2>2, <4>1, ModeFacts
    <3>2. ExecuteOperation /\ UNCHANGED suite
      BY <2>2, <2>4, <2>9, <3>1, DoFacts, StepKinds DEF o
    <3>3. Answer(q)[k] = WriteOp(Subject(q), a)
      BY <2>9 DEF o, x
    <3> QED
      BY <1>3, <1>6, <2>1, <2>9, <3>2, <3>3, WriteStep
  <2>10. CASE k = Len(Answer(q)) /\ k > DoneAt(q) /\ (IsPlain(q) \/ IsXa(q)) /\ o = Changed
    <3>1. NoteChange
      BY <2>2, <2>10, DoFacts, StepKinds DEF o
    <3> QED
      BY <1>3, <1>6, <2>1, <2>10, <3>1, ChangedStep
  <2> QED
    BY <2>3, <2>5, <2>6, <2>7, <2>8, <2>9, <2>10
<1>7. k \in 1..Len(Answer(q)) \/ k = Len(Answer(q)) + 1
  BY <1>4
<1> QED
  BY <1>5, <1>6, <1>7

(* One step of the reload.                                                 *)
LEMMA ReloadingStep ==
  ASSUME Steady, PhaseInv, Reloading, ProgramStep
  PROVE  /\ UNCHANGED <<config, booted, deployed, jar, joined, unscanned, runs, phase>>
         /\ server' \in {server, "reloading"} /\ faults' \in {faults, faults + 1} /\ polls' \in Nat
         /\ Reloading' \/ Broken'
<1>1. prog # <<>> /\ phase = "setup"
  BY StepKinds
<1>2. /\ prog = Reload \/ prog = <<Wait>>
      /\ Complete \subseteq config
      /\ faults = 0 /\ prog = Reload => server = "up"
      /\ faults = 0 /\ prog = <<Wait>> => server # "up" \/ Fresh
  BY <1>1 DEF Reloading
<1>3. faults \in Nat /\ polls \in Nat /\ PollLimit \in Nat
  BY ManagementAssumption DEF Steady
<1>4. /\ Head(Reload) = Reinitialize("reload") /\ Tail(Reload) = <<Wait>>
      /\ Head(<<Wait>>) = Wait /\ Tail(<<Wait>>) = <<>> /\ <<Wait>> # <<>>
      /\ Reload # <<Wait>> /\ Reload # <<>>
  <2>1. Reload = <<Reinitialize("reload"), Wait>>
    BY DEF Reload
  <2>2. Len(Reload) = 2 /\ Len(<<Wait>>) = 1 /\ Len(<<>>) = 0
    BY <2>1
  <2> QED
    BY <2>1, <2>2
<1>5. CASE prog = Reload
  <2>1. ExecuteServerReinitialization /\ UNCHANGED suite
    BY <1>4, <1>5, DoFacts, StepKinds
  <2>2. /\ prog' = <<Wait>> /\ outcome' = "running" /\ ~isBatchMode' /\ polls' = 0
        /\ UNCHANGED <<config, booted, deployed, jar, joined, unscanned, runs, phase>>
        /\ \/ server = "up" /\ server' = "reloading" /\ faults' = faults
           \/ server' = server /\ faults' = faults + 1
           \/ server # "up" /\ server' = server /\ faults' = faults
    <3>1. ~isBatchMode
      BY DEF Reloading
    <3>2. Head(prog).op = "reload" /\ Leaving("reload") = "reloading"
      BY <1>4, <1>5, DoFacts DEF Leaving
    <3> QED
      BY <1>4, <1>5, <2>1, <3>1, <3>2 DEF ExecuteServerReinitialization, Continue, NoFault, Fault, suite
  <2>3. faults' = 0 => server' # "up"
    BY <1>2, <1>3, <1>5, <2>2
  <2>4. Reloading'
    BY <1>2, <1>4, <2>2, <2>3 DEF Reloading
  <2> QED
    BY <2>2, <2>4
<1>6. CASE prog = <<Wait>>
  <2>1. Poll /\ UNCHANGED suite
    BY <1>4, <1>6, DoFacts, StepKinds
  <2>2. /\ ~isBatchMode'
        /\ UNCHANGED <<server, faults, config, booted, deployed, jar, joined, unscanned, runs, phase>>
        /\ \/ server = "up" /\ prog' = <<>> /\ outcome' = "ok" /\ polls' = polls
           \/ /\ server # "up" /\ polls' = polls + 1
              /\ polls > PollLimit /\ prog' = <<>> /\ outcome' = "failed"
           \/ server # "up" /\ polls' = polls + 1 /\ prog' = prog /\ outcome' = outcome
    <3>1. ~isBatchMode
      BY DEF Reloading
    <3> QED
      BY <1>4, <1>6, <2>1, <3>1 DEF Poll, Continue, Throw, suite, remote
  <2>3. CASE server = "up" /\ prog' = <<>> /\ outcome' = "ok" /\ polls' = polls
    <3>1. faults' = 0 => server' = "up" /\ Fresh'
      BY <1>2, <1>6, <2>2, <2>3 DEF Fresh
    <3>2. Complete \subseteq config'
      BY <1>2, <2>2
    <3>3. Reloading'
      BY <1>4, <2>2, <2>3, <3>1, <3>2 DEF Reloading
    <3> QED
      BY <1>3, <2>2, <2>3, <3>3
  <2>4. CASE /\ server # "up" /\ polls' = polls + 1
             /\ polls > PollLimit /\ prog' = <<>> /\ outcome' = "failed"
    <3>1. polls' \in Nat /\ polls' > PollLimit
      BY <1>3, <2>4
    <3>2. Broken'
      BY <2>2, <2>4, <3>1 DEF Broken, TooSlow
    <3> QED
      BY <2>2, <3>1, <3>2
  <2>5. CASE server # "up" /\ polls' = polls + 1 /\ prog' = prog /\ outcome' = outcome
    <3>1. prog' = <<Wait>> /\ outcome' = "running" /\ Complete \subseteq config' /\ server' # "up"
      BY <1>1, <1>2, <1>6, <2>2, <2>5 DEF Reloading
    <3>2. Reloading'
      BY <1>4, <2>2, <3>1 DEF Reloading
    <3> QED
      BY <1>3, <2>2, <2>5, <3>2
  <2> QED
    BY <2>2, <2>3, <2>4, <2>5
<1> QED
  BY <1>2, <1>5, <1>6

-----------------------------------------------------------------------------
(* Every step                                                              *)

(* A program that asks is not at its end.                                  *)
LEMMA AskingRuns == Asking => prog # <<>>
<1> SUFFICES ASSUME NEW q \in 0..(L - 1), NEW k \in 1..(Len(Answer(q)) + 1), Here(q, k)
             PROVE  prog # <<>>
  BY DEF Asking
<1>1. LET s == Left(q, k) IN s # <<>>
  BY LeftFacts
<1> QED
  BY <1>1 DEF Here

(* The steps of the program.                                               *)
LEMMA ProgramKeeps ==
  ASSUME SetupInv, ProgramStep
  PROVE  SetupInv'
<1>1. Steady /\ PhaseInv /\ prog # <<>> /\ phase = "setup"
  BY StepKinds DEF SetupInv
<1>2. /\ faults \in Nat /\ polls \in Nat /\ server \in {"up", "reloading", "down"} /\ server # "down"
      /\ jar \in {"none", "partial", "whole"}
      /\ faults = 0 => jar = "whole" /\ (deployed \/ unscanned)
      /\ Asking \/ Reloading
  BY <1>1 DEF Steady, PhaseInv, Broken
<1>3. /\ UNCHANGED <<booted, deployed, jar, joined, unscanned, runs, phase>>
      /\ server' \in {server, "reloading"} /\ faults' \in {faults, faults + 1} /\ polls' \in Nat
      /\ config' = config \/ Grown
      /\ Asking' \/ Reloading' \/ Broken'
  <2>1. CASE Asking
    <3>1. Onward
      BY <1>1, <2>1, AskingStep
    <3> QED
      BY <1>2, <3>1 DEF Onward, Frame
  <2>2. CASE Reloading
    BY <1>1, <2>2, ReloadingStep
  <2> QED
    BY <1>2, <2>1, <2>2
<1>4. faults' \in Nat /\ (faults' = 0 => faults = 0)
  BY <1>2, <1>3
<1>5. Steady'
  <2>1. /\ JdbcDriver \notin config'
        /\ \A n \in Range(XaDs) : XaDataSource(n) \in config' =>
             \A p \in Range(Props) : Append(XaDataSource(n), p) \in config'
        /\ \A p \in config' : Of(p) \in config'
    BY <1>1, <1>3, GrownSteady
  <2>2. faults' = 0 => jar' = "whole"
    BY <1>2, <1>3, <1>4
  <2> QED
    BY <1>2, <1>3, <1>4, <2>1, <2>2 DEF Steady
<1>6. PhaseInv'
  <2>1. phase' = "setup" /\ server' # "down" /\ (faults' = 0 => deployed' \/ unscanned')
    BY <1>1, <1>2, <1>3, <1>4
  <2> QED
    BY <1>3, <2>1 DEF PhaseInv
<1> QED
  BY <1>5, <1>6 DEF SetupInv

(* Before the program: the driver is copied and the container is started.  *)
LEMMA BeforeKeeps ==
  ASSUME SetupInv, BeginRun \/ HandleBeforeSetup \/ FinishCopy \/ StartTimeout
  PROVE  SetupInv'
<1>1. Steady /\ PhaseInv
  BY DEF SetupInv
<1>2. UNCHANGED <<server, config, booted, deployed, polls, unscanned>>
  BY DEF BeginRun, HandleBeforeSetup, FinishCopy, StartTimeout, vars, client, remote
<1>3. faults \in Nat /\ faults' \in Nat /\ (faults' = 0 => faults = 0)
  <2>1. faults \in Nat /\ faults' \in {faults, faults + 1}
    BY <1>1 DEF Steady, BeginRun, HandleBeforeSetup, FinishCopy, StartTimeout, vars, NoFault, Fault
  <2> QED
    BY <2>1
<1>4. /\ phase' \in {"before", "copying", "starting", "failed"}
      /\ phase # "setup"
  BY DEF BeginRun, HandleBeforeSetup, FinishCopy, StartTimeout
<1>5. /\ jar' \in {"none", "partial", "whole"}
      /\ faults' = 0 => /\ phase' \in {"starting", "setup", "done", "failed"} => jar' = "whole"
                        /\ jar' = "partial" => phase' = "copying"
                        /\ phase' = "failed" => polls > PollLimit
  <2>1. CASE BeginRun
    BY <1>1, <2>1 DEF BeginRun, Steady, vars, remote
  <2>2. CASE HandleBeforeSetup
    BY <1>1, <2>2 DEF HandleBeforeSetup, Steady
  <2>3. CASE FinishCopy
    <3>1. faults + 1 # 0
      BY <1>3
    <3> QED
      BY <1>1, <2>3, <3>1 DEF FinishCopy, Steady, Fault
  <2>4. CASE StartTimeout
    <3>1. /\ phase = "starting" /\ server = "reloading" /\ jar' = jar /\ faults' = faults
          /\ phase' = "failed"
      BY <2>4 DEF StartTimeout, vars, remote
    <3>2. faults = 0 => polls > PollLimit /\ jar = "whole"
      BY <1>1, <3>1 DEF PhaseInv, Steady, TooSlow
    <3> QED
      BY <1>1, <3>1, <3>2 DEF Steady
  <2> QED
    BY <2>1, <2>2, <2>3, <2>4
<1>6. Steady'
  BY <1>1, <1>2, <1>3, <1>5 DEF Steady
<1>7. PhaseInv'
  <2>1. phase # "setup" /\ faults = 0 => TooSlow \/ (Fresh /\ server # "reloading")
    BY <1>1 DEF PhaseInv
  <2>2. phase' # "setup" /\ faults' = 0 => TooSlow' \/ (Fresh' /\ server' # "reloading")
    BY <1>2, <1>3, <1>4, <2>1 DEF TooSlow, Fresh
  <2>3. phase' # "setup" /\ phase' # "done" /\ (phase' = "failed" /\ faults' = 0 => polls' > PollLimit)
    BY <1>2, <1>4, <1>5
  <2> QED
    BY <2>2, <2>3 DEF PhaseInv
<1> QED
  BY <1>6, <1>7 DEF SetupInv

(* The start of the container, and of the program.                         *)
LEMMA StartKeeps ==
  ASSUME SetupInv, StartContainer
  PROVE  SetupInv'
<1>1. Steady /\ PhaseInv /\ phase = "starting"
  BY DEF SetupInv, StartContainer
<1>2. /\ server' = "up" /\ server \in {"up", "down"} /\ phase' = "setup"
      /\ prog' = HandleAfterStart /\ outcome' = "running" /\ isBatchMode' = FALSE /\ polls' = 0
      /\ UNCHANGED <<faults, config, jar>>
      /\ server = "down" => booted' = config
      /\ server = "up" => booted' = booted
  BY DEF StartContainer
<1>3. ASSUME faults' = 0 PROVE Fresh' /\ (deployed' \/ unscanned')
  <2>1. faults = 0 /\ jar = "whole" /\ (TooSlow \/ Fresh)
    BY <1>1, <1>2, <1>3 DEF Steady, PhaseInv
  <2>2. CASE server = "down"
    <3>1. deployed' = (jar = "whole")
      BY <2>2 DEF StartContainer
    <3>2. Fresh'
      BY <1>2, <2>2 DEF Fresh
    <3> QED
      BY <2>1, <3>1, <3>2
  <2>3. CASE server = "up"
    <3>1. deployed' = deployed /\ unscanned' = (server = "up" /\ ~deployed)
      BY <2>3 DEF StartContainer
    <3>2. deployed' \/ unscanned'
      BY <2>3, <3>1
    <3>3. Fresh
      BY <2>1, <2>3 DEF TooSlow
    <3> QED
      BY <1>2, <2>3, <3>2, <3>3 DEF Fresh
  <2> QED
    BY <1>2, <2>2, <2>3
<1>4. Asking'
  <2>1. 0 \in 0..(L - 1) /\ 1 \in 1..(Len(Answer(0)) + 1)
    BY Counts, FirstAnswer
  <2>2. prog' = Left(0, 1)
    BY <1>2, AllLeft
  <2>3. Mode(0, 1)'
    <3>1. ~Collecting(0, 1)
      BY FirstAnswer DEF Collecting
    <3> QED
      BY <1>2, <3>1, ModeFacts
  <2>4. Have(0, 1)'
    BY DEF Have
  <2>5. faults' = 0 => Sane(0, 1)'
    <3>1. ~(0 >= 1) /\ ~Within(0, 1)
      BY FirstAnswer DEF Within
    <3> QED
      BY <1>2, <1>3, <3>1 DEF Sane
  <2> QED
    BY <1>2, <2>1, <2>2, <2>3, <2>4, <2>5, HereNext
<1>5. Steady'
  BY <1>1, <1>2 DEF Steady
<1>6. PhaseInv'
  BY <1>2, <1>3, <1>4 DEF PhaseInv
<1> QED
  BY <1>5, <1>6 DEF SetupInv

(* The end of the program, the end of the process and of the server.       *)
LEMMA EndKeeps ==
  ASSUME SetupInv, EndSetup \/ Kill \/ StopContainer
  PROVE  SetupInv'
<1>1. Steady /\ PhaseInv
  BY DEF SetupInv
<1>2. UNCHANGED <<config, booted, deployed, jar, polls, unscanned>>
  BY DEF EndSetup, Kill, StopContainer, vars, client, caller, remote, suite
<1>3. CASE EndSetup
  <2>1. /\ phase = "setup" /\ prog = <<>> /\ phase' = (IF outcome = "ok" THEN "done" ELSE "failed")
        /\ UNCHANGED <<server, faults>>
    BY <1>3 DEF EndSetup, Running, vars, remote
  <2>2. Reloading \/ Broken
    BY <1>1, <2>1, AskingRuns DEF PhaseInv
  <2>3. Steady'
    BY <1>1, <1>2, <2>1 DEF Steady
  <2>4. CASE Reloading
    <3>0. <<Wait>> # <<>> /\ Reload # <<>>
      BY DEF Reload
    <3>1. /\ phase' = "done" /\ Complete \subseteq config /\ (faults = 0 => server = "up" /\ Fresh)
      BY <2>1, <2>4, <3>0 DEF Reloading
    <3>2. Complete \subseteq config' /\ (faults' = 0 => server' = "up" /\ Fresh')
      BY <1>2, <2>1, <3>1 DEF Fresh
    <3>3. PhaseInv'
      BY <3>1, <3>2 DEF PhaseInv
    <3> QED
      BY <2>3, <3>3 DEF SetupInv
  <2>5. CASE Broken
    <3>1. phase' = "failed" /\ (faults = 0 => TooSlow \/ Refused)
      BY <2>1, <2>5 DEF Broken
    <3>2. TooSlow => TooSlow' /\ polls' > PollLimit
      BY <1>2, <2>1 DEF TooSlow, Fresh
    <3>3. Refused => unscanned' /\ server' = "up" /\ Fresh'
      BY <1>2, <2>1 DEF Refused, Fresh
    <3>4. faults' = faults
      BY <2>1
    <3>5. PhaseInv'
      BY <3>1, <3>2, <3>3, <3>4 DEF PhaseInv
    <3> QED
      BY <2>3, <3>5 DEF SetupInv
  <2> QED
    BY <2>2, <2>4, <2>5
<1>4. CASE Kill
  <2>1. faults' \in Nat /\ faults' # 0
    BY <1>1, <1>4 DEF Kill, Fault, Steady
  <2>2. phase' = "idle" /\ server' \in {server, "down"}
    BY <1>4 DEF Kill
  <2>3. Steady'
    BY <1>1, <1>2, <2>1, <2>2 DEF Steady
  <2>4. PhaseInv'
    BY <2>1, <2>2 DEF PhaseInv
  <2> QED
    BY <2>3, <2>4 DEF SetupInv
<1>5. CASE StopContainer
  <2>1. /\ phase # "setup" /\ phase' = phase /\ faults' = faults /\ server' = "down"
    BY <1>5 DEF StopContainer, suite
  <2>2. Steady'
    BY <1>1, <1>2, <2>1 DEF Steady
  <2>3. (TooSlow => TooSlow') /\ (Fresh => Fresh')
    BY <1>2, <2>1 DEF TooSlow, Fresh
  <2>4. PhaseInv'
    BY <1>1, <1>2, <2>1, <2>3 DEF PhaseInv
  <2> QED
    BY <2>2, <2>4 DEF SetupInv
<1> QED
  BY <1>3, <1>4, <1>5

(* The place in the program does not move by itself.                       *)
LEMMA AskingKept ==
  ASSUME Asking, UNCHANGED <<prog, outcome, isBatchMode, batch, config, faults>>,
         faults = 0 => \A q, k : Sane(q, k) => Sane(q, k)'
  PROVE  Asking'
<1>0. PICK q \in 0..(L - 1) : \E k \in 1..(Len(Answer(q)) + 1) : Here(q, k)
  BY DEF Asking
<1>1. PICK k \in 1..(Len(Answer(q)) + 1) : Here(q, k)
  BY <1>0
<1>2. prog' = Left(q, k) /\ outcome' = "running"
  BY <1>1 DEF Here
<1>3. Mode(q, k)'
  BY <1>1 DEF Here, Mode
<1>4. Have(q, k)'
  BY <1>1 DEF Here, Have
<1>5. faults' = 0 => Sane(q, k)'
  BY <1>1 DEF Here
<1> QED
  BY <1>2, <1>3, <1>4, <1>5, HereNext

(* The server's own steps: it scans its deployments, it boots.             *)
LEMMA ServerKeeps ==
  ASSUME SetupInv, Scan \/ BootServer
  PROVE  SetupInv'
<1>1. Steady /\ PhaseInv
  BY DEF SetupInv
<1>2. /\ UNCHANGED <<prog, outcome, isBatchMode, batch, config, jar, polls, faults, unscanned, phase,
                     wasChangeDone>>
      /\ server' = "up"
  BY DEF Scan, BootServer, Boot, client, suite
<1>3. Steady'
  BY <1>1, <1>2 DEF Steady
<1>4. CASE Scan
  <2>1. server = "up" /\ booted' = booted /\ deployed' = TRUE
    BY <1>4 DEF Scan
  <2>2. (Fresh <=> Fresh') /\ (TooSlow => TooSlow') /\ (Refused => Refused')
    BY <1>2, <2>1 DEF Fresh, TooSlow, Refused
  <2>3. Asking => Asking'
    <3>1. ASSUME NEW q, NEW k, Sane(q, k) PROVE Sane(q, k)'
      BY <1>2, <2>1, <2>2, <3>1 DEF Sane
    <3> QED
      BY <1>2, <3>1, AskingKept
  <2>4. Reloading => Reloading'
    BY <1>2, <2>1, <2>2 DEF Reloading
  <2>5. Broken => Broken'
    BY <1>2, <2>2 DEF Broken
  <2>6. PhaseInv'
    BY <1>1, <1>2, <2>1, <2>2, <2>3, <2>4, <2>5 DEF PhaseInv
  <2> QED
    BY <1>3, <2>6 DEF SetupInv
<1>5. CASE BootServer
  <2>1. server = "reloading" /\ booted' = config /\ deployed' = (jar = "whole")
    BY <1>5 DEF BootServer, Boot
  <2>2. Fresh' /\ (TooSlow => TooSlow')
    BY <1>2, <2>1 DEF Fresh, TooSlow
  <2>3. Asking => Asking'
    <3>1. \A q, k : ~Sane(q, k)
      BY <2>1 DEF Sane
    <3> QED
      BY <1>2, <3>1, AskingKept
  <2>4. Reloading => Reloading'
    BY <1>2, <2>1, <2>2 DEF Reloading
  <2>5. Broken => Broken'
    BY <1>2, <2>1, <2>2 DEF Broken, Refused
  <2>6. phase = "setup" /\ faults = 0 => deployed'
    BY <1>1, <2>1 DEF Steady
  <2>7. PhaseInv'
    BY <1>1, <1>2, <2>2, <2>3, <2>4, <2>5, <2>6 DEF PhaseInv
  <2> QED
    BY <1>3, <2>7 DEF SetupInv
<1> QED
  BY <1>4, <1>5

(* Nothing of the invariant changes when nothing does.                     *)
LEMMA StutterKeeps ==
  ASSUME SetupInv, UNCHANGED setupVars
  PROVE  SetupInv'
<1>1. UNCHANGED <<prog, outcome, isBatchMode, batch, config, jar, polls, faults, unscanned, phase,
                  wasChangeDone, server, booted, deployed>>
  BY DEF setupVars, vars, client, remote, suite
<1>2. (Fresh <=> Fresh') /\ (TooSlow => TooSlow') /\ (Refused => Refused')
  BY <1>1 DEF Fresh, TooSlow, Refused
<1>3. Asking => Asking'
  <2>1. ASSUME NEW q, NEW k, Sane(q, k) PROVE Sane(q, k)'
    BY <1>1, <1>2, <2>1 DEF Sane
  <2> QED
    BY <1>1, <2>1, AskingKept
<1>4. Reloading => Reloading'
  BY <1>1, <1>2 DEF Reloading
<1>5. Broken => Broken'
  BY <1>1, <1>2 DEF Broken
<1>6. Steady'
  BY <1>1 DEF SetupInv, Steady
<1>7. PhaseInv'
  BY <1>1, <1>2, <1>3, <1>4, <1>5 DEF SetupInv, PhaseInv
<1> QED
  BY <1>6, <1>7 DEF SetupInv

(* Before the first run.                                                   *)
LEMMA SetupInvInit == SetupInit => SetupInv
<1> SUFFICES ASSUME SetupInit PROVE SetupInv
  OBVIOUS
<1>1. /\ phase = "idle" /\ faults = 0 /\ polls = 0 /\ server = "up" /\ jar \in {"none", "whole"}
      /\ config = {Transactions} /\ booted = config
  BY DEF SetupInit, Init
<1>2. /\ JdbcDriver # Transactions /\ \A n : XaDataSource(n) # Transactions
  BY DEF JdbcDriver, Transactions, XaDataSource
<1>3. Of(Transactions) = Transactions
  <2>1. Transactions \in Seq(Words) /\ Len(Transactions) = 2 /\ "jts" \in Words
    BY PathFacts, ResourceFacts DEF Words
  <2> HIDE DEF Transactions
  <2> QED
    BY <2>1, OfFacts
<1>4. Steady
  BY <1>1, <1>2, <1>3 DEF Steady
<1>5. PhaseInv
  BY <1>1 DEF PhaseInv, Fresh
<1> QED
  BY <1>4, <1>5 DEF SetupInv

(* The invariant: wherever the program is, what it has passed is defined,  *)
(* and without a fault it will be in effect in the end.                    *)
THEOREM SetupInvariant == SetupSpec => []SetupInv
<1>1. SetupInv /\ [SetupNext]_setupVars => SetupInv'
  <2> SUFFICES ASSUME SetupInv, [SetupNext]_setupVars PROVE SetupInv'
    OBVIOUS
  <2>1. \/ BeginRun \/ HandleBeforeSetup \/ FinishCopy \/ StartTimeout
        \/ ProgramStep \/ StartContainer
        \/ EndSetup \/ Kill \/ StopContainer \/ Scan \/ BootServer \/ UNCHANGED setupVars
    BY DEF SetupNext, Observer, ProgramStep
  <2> QED
    BY <2>1, BeforeKeeps, ProgramKeeps, StartKeeps, EndKeeps, ServerKeeps, StutterKeeps
<1> QED
  BY <1>1, SetupInvInit, PTL DEF SetupSpec

(* SetupDone: TestSetUpObserver 56-95 defines every datasource it needs    *)
(* and the queue, however often it was interrupted before, and without a   *)
(* fault the datasources are in effect.                                    *)
THEOREM SetupDoneHolds == SetupSpec => []SetupDone
<1>1. SetupInv => SetupDone
  <2> SUFFICES ASSUME SetupInv, phase = "done"
               PROVE  Complete \subseteq config /\ (faults = 0 => Datasources \cup XaChildren \subseteq booted)
    BY DEF SetupDone, SetupComplete, EffectiveWithoutFaults
  <2>1. Complete \subseteq config /\ (faults = 0 => Fresh)
    BY DEF SetupInv, PhaseInv
  <2>2. JmsQueue(Queue) \notin Datasources \cup XaChildren
    <3>1. JmsQueue(Queue) \notin Datasources
      BY DEF Datasources, JmsQueue, DataSource, XaDataSource
    <3>2. ASSUME NEW y \in XaChildren PROVE y # JmsQueue(Queue)
      <4>1. PICK n \in Range(XaDs), p \in Range(Props) : y = Append(XaDataSource(n), p)
        BY DEF XaChildren
      <4>2. n \in Names
        BY Counts DEF Range, X
      <4>3. XaDataSource(n) \in Seq(Words) /\ Len(XaDataSource(n)) = 2 /\ p \in Words
        BY <4>2, PathFacts, ResourceFacts DEF Words
      <4> DEFINE x == XaDataSource(n)
      <4>4. Len(Append(x, p)) = Len(x) + 1
        <5> HIDE DEF x
        <5> QED
          BY <4>3, WordAppended DEF x
      <4>5. Len(y) = 3
        BY <4>1, <4>3, <4>4
      <4>6. Len(JmsQueue(Queue)) = 2
        BY DEF JmsQueue
      <4> QED
        BY <4>5, <4>6
    <3> QED
      BY <3>1, <3>2
  <2> QED
    BY <2>1, <2>2 DEF Complete, Fresh
<1> QED
  BY <1>1, SetupInvariant, PTL

(* NoSpuriousFailure: without a fault the setup fails only on a server     *)
(* too slow to reload, or on one that had not scanned the driver.          *)
THEOREM NoSpuriousFailureHolds == SetupSpec => []NoSpuriousFailure
<1>1. SetupInv => NoSpuriousFailure
  BY DEF SetupInv, PhaseInv, NoSpuriousFailure
<1> QED
  BY <1>1, SetupInvariant, PTL
=============================================================================
