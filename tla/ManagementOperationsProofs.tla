---------------------- MODULE ManagementOperationsProofs ----------------------
(***************************************************************************)
(* Proofs about ManagementOperations for any datasources, properties and   *)
(* numbers of calls and faults: a batch being collected changes nothing on *)
(* the server (BatchIsolated), a method that returns has done what it      *)
(* reports (EndsAsReported), and no XA datasource is ever configured       *)
(* without its properties (XaComplete).                                    *)
(***************************************************************************)
EXTENDS ManagementOperations, SequenceTheorems, WellFoundedInduction, TLAPS

-----------------------------------------------------------------------------
(* A batch being collected                                                 *)

(* ManagementOperations 821-834: as long as the client collects a batch,   *)
(* no method of it touches the configuration, stops the server or reloads  *)
(* it, for no instruction that would is sent past the batch.               *)
THEOREM BatchIsolatedHolds == Spec => BatchIsolated
<1> DEFINE Isolated == isBatchMode /\ isBatchMode' =>
                         UNCHANGED config /\ (server = "up" => server' = "up")
<1>1. ASSUME [Next]_vars PROVE Isolated
  <2>1. CASE UNCHANGED vars
    BY <2>1 DEF vars, remote
  <2>2. CASE \E m \in Methods : Call(m)
    BY <2>2 DEF Call
  <2>3. CASE Client
    <3>1. CASE DoStartBatch \/ DoCancelBatch \/ AddToBatch \/ IsDefined \/ IsResourceExists
               \/ Poll \/ DoAwaitStop
      BY <3>1 DEF DoStartBatch, DoCancelBatch, AddToBatch, IsDefined, IsResourceExists, Poll,
                  DoAwaitStop, remote
    <3>2. CASE ExecuteOperation \/ DoRunBatch
      BY <3>2 DEF ExecuteOperation, DoRunBatch
    <3>3. CASE ExecuteServerReinitialization
      BY <3>3 DEF ExecuteServerReinitialization
    <3>4. CASE DoStart
      BY <3>4 DEF DoStart, remote
    <3> QED
      BY <2>3, <3>1, <3>2, <3>3, <3>4 DEF Client
  <2>4. CASE Boot \/ GoDown
    BY <2>4 DEF Boot, GoDown
  <2> QED
    BY <1>1, <2>1, <2>2, <2>3, <2>4 DEF Next
<1> QED
  BY <1>1, PTL DEF Spec, BatchIsolated

-----------------------------------------------------------------------------
(* The programs of the methods                                             *)

Words ==
  {"data-source", "xa-data-source", "jdbc-driver", "driver", "jms-queue", "logger",
   "subsystem", "transactions", "jacorb", "jts", "level"}
  \cup Range(Validation) \cup Range(RecoveryPlugin) \cup Range(Props)
  \cup Names \cup Queues \cup Loggers

Resources == {p \in Seq(Words) : Len(p) = 2}

XaPaths == {XaDataSource(n) : n \in Names}
XaAdds  == {AddOp(x) : x \in XaPaths}

(* An operation that neither makes an xa-data-source nor takes away a part *)
(* of one.                                                                 *)
Tame(o) ==
  /\ o.op \in {"add", "write"} => o.at \notin XaPaths
  /\ o.op = "clear" => o.at[1] # "xa-data-source"

(* Instructions by how deep their questions are; apart from them those     *)
(* that open or close a batch and those that make an xa-data-source.       *)
Execs  == {o \in [do : {"execute"}, op : Ops, at : Seq(Words)] : Tame(o)}
Simple == Execs \cup [do : {"reinitialize"}, op : {"reload", "restart", "shutdown"}, at : Seq(Words)]
                \cup {Wait, AwaitStop, Start}

Ask(S) == [do : {"isDefined", "isResourceExists"}, at : Seq(Words), yes : Seq(S), no : Seq(S)]

Branching == Simple \cup Ask(Simple)
Plain     == Branching \cup Ask(Branching)
Batching  == {StartBatch, RunBatch, CancelBatch}
Operations == Execs \cup XaAdds
Instructions == Plain \cup Batching \cup XaAdds

(* After its j-th instruction the program goes on to run or cancel the     *)
(* batch and executes operations only until then.                          *)
Closes(s, j) ==
  \E k \in (j + 1)..Len(s) :
    /\ s[k].do \in {"runBatch", "cancelBatch"}
    /\ \A i \in (j + 1)..(k - 1) : s[i].do = "execute"

(* Every batch a program starts is closed again.                           *)
Balanced(s) == \A j \in 1..Len(s) : s[j].do = "startBatch" => Closes(s, j)

(* The names in paths are words.                                           *)
LEMMA WordFacts ==
  /\ \A i \in 1..Len(Validation) : Validation[i] \in Words
  /\ \A i \in 1..Len(RecoveryPlugin) : RecoveryPlugin[i] \in Words
  /\ \A i \in 1..Len(Props) : Props[i] \in Words
  /\ Props \in Seq(Words)
<1>1. \A i \in 1..3 : Validation[i] \in Range(Validation)
  BY DEF Validation, Range
<1>2. \A i \in 1..2 : RecoveryPlugin[i] \in Range(RecoveryPlugin)
  BY DEF RecoveryPlugin, Range
<1>3. \A i \in 1..Len(Props) : Props[i] \in Range(Props)
  BY ManagementAssumption DEF Range
<1>4. Props \in Seq(Words)
  BY ManagementAssumption, <1>3, SeqDef DEF Words
<1>5. Len(Validation) = 3 /\ Len(RecoveryPlugin) = 2
  BY DEF Validation, RecoveryPlugin
<1> QED
  BY <1>1, <1>2, <1>3, <1>4, <1>5 DEF Words

(* The resources callers name; none but an xa-data-source is one of        *)
(* XaPaths.                                                                *)
LEMMA PathFacts ==
  /\ \A n \in Names : /\ DataSource(n) \in Resources /\ XaDataSource(n) \in Resources
                     /\ DataSource(n) \notin XaPaths
  /\ \A q \in Queues : JmsQueue(q) \in Resources /\ JmsQueue(q) \notin XaPaths
  /\ \A l \in Loggers : Logger(l) \in Resources /\ Logger(l) \notin XaPaths
  /\ \A p \in {JdbcDriver, Transactions, Jacorb} :
       p \in Resources /\ p \notin XaPaths
BY DEF Resources, Words, DataSource, XaDataSource, JmsQueue, Logger, JdbcDriver, Transactions, Jacorb,
       XaPaths

(* A resource is named by two words.                                       *)
LEMMA ResourceFacts == \A p \in Resources : p \in Seq(Words) /\ Len(p) = 2
BY DEF Resources

(* The operations on a resource and on what belongs to it.                 *)
LEMMA OpFacts ==
  ASSUME NEW p \in Resources
  PROVE  /\ p \notin XaPaths => AddOp(p) \in Execs
         /\ RemoveOp(p) \in Execs
         /\ \A a \in Words : /\ Append(p, a) \in Seq(Words) /\ AddOp(Append(p, a)) \in Execs
                            /\ WriteOp(p, a) \in Execs
         /\ p \in {Transactions, Jacorb} => \A a \in Words : ClearOp(p, a) \in Execs
<1>0. p \in Seq(Words) /\ Len(p) = 2
  BY DEF Resources
<1>1. \A a \in Words : Append(p, a) \in Seq(Words) /\ Len(Append(p, a)) = 3
  <2>1. \A a \in Words : Len(Append(p, a)) = Len(p) + 1
    BY <1>0, AppendProperties
  <2> QED
    BY <1>0, <2>1
<1>2. \A q : Len(q) = 3 => q \notin XaPaths
  BY DEF XaPaths, XaDataSource
<1>3. ASSUME NEW a \in Words PROVE Append(p, a) \notin XaPaths
  <2>1. Len(Append(p, a)) = 3
    BY <1>1
  <2> QED
    BY <1>2, <2>1
<1>4. ASSUME p \in {Transactions, Jacorb}, NEW a \in Words PROVE Append(p, a)[1] # "xa-data-source"
  <2>1. Append(p, a)[1] = p[1]
    BY <1>0, AppendProperties
  <2>2. p[1] = "subsystem"
    BY <1>4 DEF Transactions, Jacorb
  <2> QED
    BY <2>1, <2>2
<1> QED
  BY <1>0, <1>1, <1>3, <1>4 DEF AddOp, RemoveOp, WriteOp, ClearOp, Execs, Tame, Ops

(* The kinds of instructions, by their names.                              *)
LEMMA InstructionFacts ==
  /\ \A i \in Simple : i.do \in {"execute", "reinitialize", "wait", "awaitStop", "start"}
  /\ \A i \in Plain : i.do \notin {"startBatch", "runBatch", "cancelBatch"}
  /\ \A i \in Operations : i.do = "execute"
  /\ Execs \subseteq Simple /\ Simple \subseteq Branching /\ Branching \subseteq Plain
  /\ Plain \subseteq Instructions /\ Operations \subseteq Instructions
<1>1. \A i \in Simple : i.do \in {"execute", "reinitialize", "wait", "awaitStop", "start"}
  BY DEF Simple, Execs, Wait, AwaitStop, Start
<1>2. \A S : \A i \in Ask(S) : i.do \in {"isDefined", "isResourceExists"}
  BY DEF Ask
<1>3. \A i \in Plain : i.do \notin {"startBatch", "runBatch", "cancelBatch"}
  BY <1>1, <1>2 DEF Plain, Branching
<1>4. Ask(Simple) \subseteq Ask(Branching)
  <2>1. Seq(Simple) \subseteq Seq(Branching)
    BY SeqMonotonic DEF Branching
  <2> QED
    BY <2>1 DEF Ask
<1>5. \A i \in Execs : i.do = "execute"
  BY DEF Execs
<1>6. \A i \in XaAdds : i.do = "execute"
  BY DEF XaAdds, AddOp
<1> QED
  BY <1>1, <1>3, <1>4, <1>5, <1>6 DEF Simple, Branching, Plain, Operations, Instructions

(* A question is answered with a program that asks at most once more and   *)
(* opens no batch.                                                         *)
LEMMA AskFacts ==
  ASSUME NEW i \in Instructions, i.do \in {"isDefined", "isResourceExists"}
  PROVE  i.yes \in Seq(Plain) /\ i.no \in Seq(Plain)
<1>1. i \notin Simple
  BY InstructionFacts
<1>2. i \notin Batching
  BY DEF Batching, StartBatch, RunBatch, CancelBatch
<1>0. i \notin XaAdds
  BY DEF XaAdds, AddOp
<1>3. i \in Ask(Simple) \/ i \in Ask(Branching)
  BY <1>0, <1>1, <1>2 DEF Instructions, Plain, Branching
<1>4. \/ i.yes \in Seq(Simple) /\ i.no \in Seq(Simple)
      \/ i.yes \in Seq(Branching) /\ i.no \in Seq(Branching)
  BY <1>3 DEF Ask
<1> QED
  BY <1>4, SeqMonotonic, InstructionFacts

(* A question is one of two answers.                                       *)
LEMMA IfFacts ==
  ASSUME NEW S, NEW p \in Seq(Words), NEW yes \in Seq(S), NEW no \in Seq(S)
  PROVE  IfDefined(p, yes, no) \in Ask(S) /\ IfExists(p, yes, no) \in Ask(S)
BY DEF IfDefined, IfExists, Ask

(* The operations on the attributes of one resource.                       *)
LEMMA EachFacts ==
  ASSUME NEW p \in Resources, NEW s \in Seq(Words)
  PROVE  /\ [i \in 1..Len(s) |-> AddOp(Append(p, s[i]))] \in Seq(Execs)
         /\ [i \in 1..Len(s) |-> WriteOp(p, s[i])] \in Seq(Execs)
<1>1. Len(s) \in Nat /\ \A i \in 1..Len(s) : s[i] \in Words
  BY LenProperties
<1>0. \A a \in Words : AddOp(Append(p, a)) \in Execs /\ WriteOp(p, a) \in Execs
  BY OpFacts
<1>2. \A i \in 1..Len(s) : AddOp(Append(p, s[i])) \in Execs /\ WriteOp(p, s[i]) \in Execs
  BY <1>0, <1>1
<1> QED
  BY <1>1, <1>2

(* A program without the batch instructions starts none.                   *)
LEMMA PlainBalanced ==
  ASSUME NEW s \in Seq(Plain)
  PROVE  Balanced(s)
<1>1. \A j \in 1..Len(s) : s[j] \in Plain
  BY ElementOfSeq
<1> QED
  BY <1>1, InstructionFacts DEF Balanced

(* Two programs, one after the other.                                      *)
LEMMA Joined ==
  ASSUME NEW S, NEW s \in Seq(S), NEW t \in Seq(S)
  PROVE  /\ s \o t \in Seq(S) /\ Len(s \o t) = Len(s) + Len(t)
         /\ Len(s) \in Nat /\ Len(t) \in Nat
         /\ \A i \in 1..Len(s) : (s \o t)[i] = s[i]
         /\ \A i \in 1..Len(t) : (s \o t)[Len(s) + i] = t[i]
<1>1. Len(s) \in Nat /\ Len(t) \in Nat
  BY LenProperties
<1>2. \A i \in 1..Len(t) : Len(s) + i \in 1..Len(s) + Len(t) /\ ~(Len(s) + i <= Len(s))
                         /\ (Len(s) + i) - Len(s) = i
  BY <1>1
<1>3. \A i \in 1..Len(s) : i \in 1..Len(s) + Len(t) /\ i <= Len(s)
  BY <1>1
<1> QED
  BY <1>1, <1>2, <1>3, ConcatProperties

(* The programs that reboot the server.                                    *)
LEMMA ReloadFacts ==
  /\ Reload \in Seq(Simple) /\ StopRestart \in Seq(Simple) /\ StopAndStartServer \in Seq(Simple)
  /\ Stop \in Seq(Simple)
  /\ Reload = <<Reinitialize("reload"), Wait>> /\ StopRestart = <<Reinitialize("restart"), Wait>>
  /\ StopAndStartServer = <<Reinitialize("shutdown"), AwaitStop, Start>>
<1>1. \A op \in {"reload", "restart", "shutdown"} : Reinitialize(op) \in Simple
  <2>1. <<>> \in Seq(Words)
    BY EmptySeq
  <2> QED
    BY <2>1 DEF Reinitialize, Simple
<1>2. Wait \in Simple /\ AwaitStop \in Simple /\ Start \in Simple
  BY DEF Simple
<1>4. StopAndStartServer = <<Reinitialize("shutdown"), AwaitStop, Start>>
  <2> DEFINE a == <<Reinitialize("shutdown")>>
             b == <<AwaitStop, Start>>
             c == <<Reinitialize("shutdown"), AwaitStop, Start>>
  <2>1. a \in Seq(Simple) /\ b \in Seq(Simple) /\ c \in Seq(Simple)
    BY <1>1, <1>2
  <2>2. a \o b \in Seq(Simple) /\ Len(a \o b) = 3
        /\ \A i \in 1..3 : (a \o b)[i] = IF i <= 1 THEN a[i] ELSE b[i - 1]
    <3> HIDE DEF a, b
    <3>1. Len(a) = 1 /\ Len(b) = 2
      BY DEF a, b
    <3> QED
      BY <2>1, <3>1, ConcatProperties
  <2>3. (a \o b)[1] = a[1] /\ (a \o b)[2] = b[1] /\ (a \o b)[3] = b[2]
    <3> HIDE DEF a, b
    <3> QED
      BY <2>2
  <2>4. \A i \in 1..3 : (a \o b)[i] = c[i]
    BY <2>3
  <2>5. a \o b = c
    <3>1. Len(c) = 3
      OBVIOUS
    <3> HIDE DEF a, b, c
    <3> QED
      BY <2>1, <2>2, <2>4, <3>1, SeqEqual
  <2> QED
    BY <2>5 DEF StopAndStartServer, Stop
<1> QED
  BY <1>1, <1>2, <1>4 DEF Reload, StopRestart, Stop

(* The writes of the validation of one datasource, and the reload.         *)
LEMMA ValidationFacts ==
  ASSUME NEW p \in Resources
  PROVE  LET s == SetValidationAttributes(p)
         IN  /\ s \in Seq(Simple) /\ Len(s) = 5
             /\ \A i \in 1..3 : s[i] = WriteOp(p, Validation[i])
             /\ s[4] = Reinitialize("reload") /\ s[5] = Wait
<1> DEFINE writes == [i \in 1..Len(Validation) |-> WriteOp(p, Validation[i])]
<1>1. SetValidationAttributes(p) = writes \o Reload
  BY DEF SetValidationAttributes, Each
<1>2. Len(Validation) = 3
  BY DEF Validation
<1>3. writes \in Seq(Simple) /\ Len(writes) = 3
  <2>0. \A a \in Words : WriteOp(p, a) \in Simple
    BY OpFacts, InstructionFacts
  <2>1. \A i \in 1..3 : WriteOp(p, Validation[i]) \in Simple
    BY <1>2, <2>0, WordFacts
  <2> QED
    BY <1>2, <2>1
<1>4. \A i \in 1..3 : writes[i] = WriteOp(p, Validation[i])
  BY <1>2
<1> HIDE DEF writes
<1>5. Len(Reload) = 2 /\ Reload[1] = Reinitialize("reload") /\ Reload[2] = Wait
  BY DEF Reload
<1> QED
  <2>1. /\ writes \o Reload \in Seq(Simple) /\ Len(writes \o Reload) = Len(writes) + Len(Reload)
        /\ \A i \in 1..Len(writes) : (writes \o Reload)[i] = writes[i]
        /\ \A i \in 1..Len(Reload) : (writes \o Reload)[Len(writes) + i] = Reload[i]
    <3>1. Reload \in Seq(Simple) /\ writes \in Seq(Simple)
      BY <1>3, ReloadFacts
    <3>2. \A a, b \in Seq(Simple) :
            /\ a \o b \in Seq(Simple) /\ Len(a \o b) = Len(a) + Len(b)
            /\ \A i \in 1..Len(a) : (a \o b)[i] = a[i]
            /\ \A i \in 1..Len(b) : (a \o b)[Len(a) + i] = b[i]
      BY Joined
    <3> QED
      BY <3>1, <3>2
  <2>2. (writes \o Reload)[4] = Reload[1] /\ (writes \o Reload)[5] = Reload[2]
        /\ \A i \in 1..3 : (writes \o Reload)[i] = writes[i]
    BY <1>3, <1>5, <2>1
  <2> QED
    BY <1>1, <1>3, <1>4, <1>5, <2>1, <2>2

(* The programs about datasources but addXADataSource.                     *)
LEMMA DatasourceFacts ==
  ASSUME NEW n \in Names
  PROVE  /\ AddDatasource(n, Props) \in Seq(Plain)
         /\ RemoveDatasourceConfigurations(n) \in Seq(Plain)
         /\ SetDatasourceConnectionValidation(n) \in Seq(Plain)
<1> DEFINE d == DataSource(n)
           x == XaDataSource(n)
<1>0. /\ d \in Resources /\ x \in Resources /\ d \notin XaPaths
      /\ d \in Seq(Words) /\ x \in Seq(Words)
  BY PathFacts, ResourceFacts
<1>1. AddDatasource(n, Props) \in Seq(Plain)
  <2> DEFINE adds == [i \in 1..Len(Props) |-> AddOp(Append(d, Props[i]))]
  <2>1. AddDatasource(n, Props) = <<AddOp(d)>> \o adds
    BY DEF AddDatasource, Each
  <2>2. adds \in Seq(Execs)
    BY <1>0, WordFacts, EachFacts
  <2>3. <<AddOp(d)>> \in Seq(Execs)
    BY <1>0, OpFacts
  <2> HIDE DEF adds
  <2>4. <<AddOp(d)>> \o adds \in Seq(Execs)
    BY <2>2, <2>3, ConcatProperties
  <2>5. Execs \subseteq Plain
    BY InstructionFacts
  <2> QED
    BY <2>1, <2>4, <2>5, SeqMonotonic
<1>2. RemoveDatasourceConfigurations(n) \in Seq(Plain)
  <2>1. <<RemoveOp(x)>> \in Seq(Simple) /\ <<RemoveOp(d)>> \in Seq(Simple)
    BY <1>0, OpFacts, InstructionFacts
  <2>2. IfDefined(x, <<RemoveOp(x)>>, <<>>) \in Plain /\ IfDefined(d, <<RemoveOp(d)>>, <<>>) \in Plain
    BY <1>0, <2>1, EmptySeq, IfFacts, InstructionFacts DEF Branching
  <2> QED
    BY <2>2 DEF RemoveDatasourceConfigurations
<1>3. SetDatasourceConnectionValidation(n) \in Seq(Plain)
  <2> DEFINE vd == SetValidationAttributes(d)
             vx == SetValidationAttributes(x)
  <2>1. vd \in Seq(Simple) /\ vx \in Seq(Simple)
    BY <1>0, ValidationFacts
  <2>2. <<>> \o vx = vx /\ <<>> \in Seq(Simple)
    BY <2>1, ConcatEmptySeq, EmptySeq
  <2>3. SetDatasourceConnectionValidation(n) =
          <<IfDefined(d, <<IfDefined(x, vd \o vx, vd)>>, <<IfDefined(x, <<>> \o vx, <<>>)>>)>>
    BY DEF SetDatasourceConnectionValidation
  <2> HIDE DEF vd, vx, d, x
  <2>4. vd \o vx \in Seq(Simple)
    BY <2>1, ConcatProperties
  <2>5. IfDefined(x, vd \o vx, vd) \in Branching /\ IfDefined(x, <<>> \o vx, <<>>) \in Branching
    BY <1>0, <2>1, <2>2, <2>4, IfFacts DEF Branching
  <2>6. IfDefined(d, <<IfDefined(x, vd \o vx, vd)>>, <<IfDefined(x, <<>> \o vx, <<>>)>>) \in Plain
    <3>1. \A i, j \in Branching : IfDefined(d, <<i>>, <<j>>) \in Ask(Branching)
      <4>1. \A i \in Branching : <<i>> \in Seq(Branching)
        OBVIOUS
      <4>2. \A u, v \in Seq(Branching) : IfDefined(d, u, v) \in Ask(Branching)
        BY <1>0, IfFacts
      <4> QED
        BY <4>1, <4>2
    <3> QED
      BY <2>5, <3>1 DEF Plain
  <2> QED
    BY <2>3, <2>6
<1> QED
  BY <1>1, <1>2, <1>3

(* addXADataSource closes the batch it starts, with nothing but operations *)
(* in between.                                                             *)
LEMMA XaDatasourceFacts ==
  ASSUME NEW n \in Names
  PROVE  AddXADataSource(n) \in Seq(Instructions) /\ Balanced(AddXADataSource(n))
<1> DEFINE x == XaDataSource(n)
           a == <<StartBatch, AddOp(x)>>
           b == [i \in 1..Len(Props) |-> AddOp(Append(x, Props[i]))]
           c == <<RunBatch>>
           w == [i \in 1..Len(RecoveryPlugin) |-> WriteOp(x, RecoveryPlugin[i])]
           d == IF n \in Db2 THEN w ELSE <<>>
           ab == a \o b
           abc == ab \o c
           s == abc \o d
<1>1. AddXADataSource(n) = s
  BY DEF AddXADataSource, Each
<1>2. x \in Resources /\ x \in XaPaths /\ RecoveryPlugin \in Seq(Words)
  <2>1. RecoveryPlugin[1] \in Words /\ RecoveryPlugin[2] \in Words
    BY WordFacts DEF RecoveryPlugin
  <2> QED
    BY <2>1, PathFacts DEF RecoveryPlugin, XaPaths
<1>3. /\ a \in Seq(Instructions) /\ Len(a) = 2 /\ a[1] = StartBatch /\ a[2] \in Operations
      /\ c \in Seq(Instructions) /\ Len(c) = 1 /\ c[1] = RunBatch
  BY <1>2 DEF Instructions, Batching, Operations, XaAdds
<1>4. b \in Seq(Execs) /\ d \in Seq(Execs)
  <2>1. b \in Seq(Execs) /\ w \in Seq(Execs)
    BY <1>2, WordFacts, EachFacts
  <2> QED
    BY <2>1, EmptySeq
<1> HIDE DEF a, b, c, d
<1>5. /\ b \in Seq(Instructions) /\ d \in Seq(Instructions)
      /\ \A i \in 1..Len(b) : b[i] \in Operations
      /\ \A i \in 1..Len(d) : d[i] \in Operations
  BY <1>4, InstructionFacts, SeqMonotonic, ElementOfSeq DEF Operations
<1>0. \A u, v \in Seq(Instructions) :
        /\ u \o v \in Seq(Instructions) /\ Len(u \o v) = Len(u) + Len(v)
        /\ Len(u) \in Nat /\ Len(v) \in Nat
        /\ \A i \in 1..Len(u) : (u \o v)[i] = u[i]
        /\ \A i \in 1..Len(v) : (u \o v)[Len(u) + i] = v[i]
  BY Joined
<1>6. /\ ab \in Seq(Instructions) /\ Len(ab) = 2 + Len(b) /\ Len(b) \in Nat
      /\ ab[1] = StartBatch /\ ab[2] \in Operations
      /\ \A i \in 1..Len(b) : ab[2 + i] \in Operations
  <2>1. /\ ab \in Seq(Instructions) /\ Len(ab) = 2 + Len(b) /\ Len(b) \in Nat
        /\ \A i \in 1..2 : ab[i] = a[i]
        /\ \A i \in 1..Len(b) : ab[2 + i] = b[i]
    <3>1. /\ ab \in Seq(Instructions) /\ Len(ab) = Len(a) + Len(b) /\ Len(b) \in Nat
          /\ \A i \in 1..Len(a) : ab[i] = a[i]
          /\ \A i \in 1..Len(b) : ab[Len(a) + i] = b[i]
      <4>1. a \in Seq(Instructions) /\ b \in Seq(Instructions)
        BY <1>3, <1>5
      <4> QED
        BY <1>0, <4>1
    <3> HIDE DEF ab
    <3> QED
      BY <1>3, <3>1
  <2>2. ab[1] = a[1] /\ ab[2] = a[2]
    BY <2>1
  <2> HIDE DEF ab
  <2> QED
    BY <1>3, <1>5, <2>1, <2>2
<1> HIDE DEF ab
<1>7. \A i \in 2..Len(ab) : ab[i] \in Operations
  <2>1. \A i \in 3..Len(ab) : i - 2 \in 1..Len(b) /\ 2 + (i - 2) = i
    BY <1>6
  <2>2. \A i \in 2..Len(ab) : i = 2 \/ i \in 3..Len(ab)
    BY <1>6
  <2> QED
    BY <1>6, <2>1, <2>2
<1>8. /\ abc \in Seq(Instructions) /\ Len(abc) = Len(ab) + 1 /\ Len(ab) \in Nat
      /\ abc[1] = StartBatch /\ \A i \in 2..Len(ab) : abc[i] \in Operations
      /\ abc[Len(ab) + 1] = RunBatch
  <2>1. /\ abc \in Seq(Instructions) /\ Len(abc) = Len(ab) + 1 /\ Len(ab) \in Nat
        /\ \A i \in 1..Len(ab) : abc[i] = ab[i]
        /\ abc[Len(ab) + 1] = RunBatch
    BY <1>0, <1>3, <1>6
  <2>2. 1 \in 1..Len(ab) /\ \A i \in 2..Len(ab) : i \in 1..Len(ab)
    BY <1>6
  <2> HIDE DEF abc
  <2> QED
    BY <1>6, <1>7, <2>1, <2>2
<1> HIDE DEF abc
<1>9. /\ s \in Seq(Instructions) /\ Len(s) = Len(abc) + Len(d) /\ Len(d) \in Nat
      /\ \A i \in 1..Len(abc) : s[i] = abc[i]
      /\ \A i \in 1..Len(d) : s[Len(abc) + i] \in Operations
  BY <1>0, <1>5, <1>8
<1> HIDE DEF s
<1>10. \A i \in Len(abc) + 1..Len(s) : s[i] \in Operations
  <2>1. \A i \in Len(abc) + 1..Len(s) : i - Len(abc) \in 1..Len(d) /\ Len(abc) + (i - Len(abc)) = i
    BY <1>8, <1>9
  <2> QED
    BY <1>9, <2>1
<1>11. Closes(s, 1)
  <2>1. \A i \in 2..Len(ab) : s[i].do = "execute"
    BY <1>8, <1>9, InstructionFacts
  <2>2. Len(ab) + 1 \in 2..Len(s) /\ s[Len(ab) + 1].do = "runBatch"
    BY <1>6, <1>8, <1>9 DEF RunBatch
  <2> QED
    BY <1>8, <2>1, <2>2 DEF Closes
<1>12. \A i \in 2..Len(s) : s[i].do # "startBatch"
  <2>1. \A i \in 2..Len(s) : s[i] \in Operations \/ s[i] = RunBatch
    <3>1. \A i \in 2..Len(s) : i \in 2..Len(ab) \/ i = Len(ab) + 1 \/ i \in Len(abc) + 1..Len(s)
      BY <1>6, <1>8, <1>9
    <3>2. \A i \in 2..Len(ab) : i \in 1..Len(abc)
      BY <1>8
    <3>3. Len(ab) + 1 \in 1..Len(abc)
      BY <1>8
    <3> QED
      BY <1>8, <1>9, <1>10, <3>1, <3>2, <3>3
  <2> QED
    BY <2>1, InstructionFacts DEF RunBatch
<1>13. Balanced(s)
  <2>1. Len(s) \in Nat
    BY <1>8, <1>9
  <2>2. \A i \in 1..Len(s) : i = 1 \/ i \in 2..Len(s)
    BY <2>1
  <2> QED
    BY <1>11, <1>12, <2>2 DEF Balanced
<1> QED
  BY <1>1, <1>9, <1>13

(* The methods with instructions of a batch in them.                       *)
Opening == {"addXADataSource", "startBatch", "runBatch", "cancelBatch"}

(* The program of every method.                                            *)
LEMMA ProgramFacts ==
  ASSUME NEW m \in Methods
  PROVE  /\ Program(m) \in Seq(Instructions)
         /\ m[1] \notin Opening => Program(m) \in Seq(Plain)
         /\ m[1] # "startBatch" => Balanced(Program(m))
         /\ m[1] \in {"runBatch", "cancelBatch"} => Closes(Program(m), 0)
<1> DEFINE s == Program(m)
<1>1. CASE m[1] \in {"addDatasource", "addXADataSource", "removeDatasourceConfigurations",
                     "setDatasourceConnectionValidation"}
  <2>1. m[2] \in Names
    BY <1>1 DEF Methods
  <2>2. CASE m[1] = "addXADataSource"
    BY <2>1, <2>2, XaDatasourceFacts DEF Program, Opening
  <2>3. CASE m[1] # "addXADataSource"
    <3>1. s \in Seq(Plain)
      BY <1>1, <2>1, <2>3, DatasourceFacts DEF Program
    <3> QED
      BY <1>1, <2>3, <3>1, PlainBalanced, InstructionFacts, SeqMonotonic
  <2> QED
    BY <2>2, <2>3
<1>2. CASE m[1] \in {"addJmsQueue", "removeJmsQueue", "setLogger", "setJTS", "addJdbcDriver",
                     "removeJdbcDriver", "reload", "restart", "stop", "stopAndStartServer"}
  <2>0. \A i, j \in Simple : /\ <<i>> \in Seq(Simple) /\ <<i, j>> \in Seq(Simple)
                           /\ <<>> \in Seq(Simple)
    BY EmptySeq
  <2>1. CASE m[1] \in {"addJmsQueue", "removeJmsQueue"}
    <3>1. m[2] \in Queues
      BY <2>1 DEF Methods
    <3>2. AddOp(JmsQueue(m[2])) \in Simple /\ RemoveOp(JmsQueue(m[2])) \in Simple
      BY <3>1, PathFacts, OpFacts, InstructionFacts
    <3>3. s = <<AddOp(JmsQueue(m[2]))>> \/ s = <<RemoveOp(JmsQueue(m[2]))>>
      BY <2>1 DEF Program, AddJmsQueue, RemoveJmsQueue
    <3>4. s \in Seq(Plain)
      <4>1. AddOp(JmsQueue(m[2])) \in Plain /\ RemoveOp(JmsQueue(m[2])) \in Plain
        BY <3>2, InstructionFacts
      <4>2. \A i \in Plain : <<i>> \in Seq(Plain)
        OBVIOUS
      <4> QED
        BY <3>3, <4>1, <4>2
    <3> QED
      BY <2>1, <3>4, PlainBalanced, InstructionFacts, SeqMonotonic
  <2>2. CASE m[1] = "setLogger"
    <3>1. m[2] \in Loggers
      BY <2>2 DEF Methods
    <3> DEFINE l == Logger(m[2])
    <3>2. l \in Resources /\ l \in Seq(Words) /\ l \notin XaPaths /\ "level" \in Words
      BY <3>1, PathFacts, ResourceFacts DEF Words
    <3>5. WriteOp(l, "level") \in Simple /\ AddOp(l) \in Simple
      BY <3>2, OpFacts, InstructionFacts
    <3>3. <<WriteOp(l, "level")>> \in Seq(Simple) /\ <<AddOp(l)>> \in Seq(Simple)
      BY <2>0, <3>5
    <3>4. IfDefined(l, <<WriteOp(l, "level")>>, <<AddOp(l)>>) \in Plain
      BY <3>2, <3>3, IfFacts, InstructionFacts DEF Branching
    <3>6. s \in Seq(Plain)
      BY <2>2, <3>4 DEF Program, SetLogger
    <3> QED
      BY <2>2, <3>6, PlainBalanced, InstructionFacts, SeqMonotonic
  <2>3. CASE m[1] = "setJTS"
    <3>1. "jts" \in Words /\ "transactions" \in Words
      BY DEF Words
    <3>2. /\ WriteOp(Transactions, "jts") \in Plain /\ WriteOp(Jacorb, "transactions") \in Plain
          /\ ClearOp(Transactions, "jts") \in Plain /\ ClearOp(Jacorb, "transactions") \in Plain
      <4>1. \A p \in {Transactions, Jacorb} : \A a \in {"jts", "transactions"} :
              WriteOp(p, a) \in Execs /\ ClearOp(p, a) \in Execs
        BY <3>1, PathFacts, OpFacts
      <4> QED
        BY <4>1, InstructionFacts
    <3>3. s \in Seq(Plain)
      BY <2>3, <3>2 DEF Program, SetJTS
    <3> QED
      BY <2>3, <3>3, PlainBalanced, InstructionFacts, SeqMonotonic
  <2>4. CASE m[1] \in {"addJdbcDriver", "removeJdbcDriver"}
    <3>1. AddOp(JdbcDriver) \in Simple /\ RemoveOp(JdbcDriver) \in Simple
      BY PathFacts, OpFacts, InstructionFacts
    <3>2. <<AddOp(JdbcDriver)>> \in Seq(Simple) /\ <<>> \in Seq(Simple)
      BY <2>0, <3>1
    <3>3. IfExists(JdbcDriver, <<>>, <<AddOp(JdbcDriver)>>) \in Plain /\ RemoveOp(JdbcDriver) \in Plain
      BY <3>1, <3>2, PathFacts, ResourceFacts, IfFacts, InstructionFacts DEF Branching
    <3>4. s \in Seq(Plain)
      BY <2>4, <3>3 DEF Program, AddJdbcDriver, RemoveJdbcDriver
    <3> QED
      BY <2>4, <3>4, PlainBalanced, InstructionFacts, SeqMonotonic
  <2>5. CASE m[1] \in {"reload", "restart", "stop", "stopAndStartServer"}
    <3>1. s \in Seq(Simple)
      BY <2>5, ReloadFacts DEF Program
    <3>2. s \in Seq(Plain)
      BY <3>1, InstructionFacts, SeqMonotonic
    <3> QED
      BY <2>5, <3>2, PlainBalanced, InstructionFacts, SeqMonotonic
  <2> QED
    BY <1>2, <2>1, <2>2, <2>3, <2>4, <2>5
<1>3. CASE m[1] \in {"startBatch", "runBatch", "cancelBatch"}
  <2>1. /\ m[1] = "startBatch" => s = <<StartBatch>>
        /\ m[1] = "runBatch" => s = <<RunBatch>>
        /\ m[1] = "cancelBatch" => s = <<CancelBatch>>
    BY DEF Program
  <2>2. s \in Seq(Instructions)
    <3>1. StartBatch \in Instructions /\ RunBatch \in Instructions /\ CancelBatch \in Instructions
      BY DEF Instructions, Batching
    <3>2. \A i \in Instructions : <<i>> \in Seq(Instructions)
      OBVIOUS
    <3> QED
      BY <1>3, <2>1, <3>1, <3>2
  <2>3. m[1] # "startBatch" => Len(s) = 1 /\ s[1].do \in {"runBatch", "cancelBatch"}
    BY <1>3, <2>1 DEF RunBatch, CancelBatch
  <2>4. m[1] # "startBatch" => Closes(s, 0)
    BY <2>3 DEF Closes
  <2>5. m[1] # "startBatch" => Balanced(s)
    BY <2>3 DEF Balanced
  <2> QED
    BY <1>3, <2>2, <2>4, <2>5 DEF Opening
<1> QED
  BY <1>1, <1>2, <1>3 DEF Methods

(* The rest of a program after its first instruction.                      *)
LEMMA TailFacts ==
  ASSUME NEW s \in Seq(Instructions), s # <<>>
  PROVE  /\ Tail(s) \in Seq(Instructions)
         /\ s \in Seq(Plain) => Tail(s) \in Seq(Plain)
         /\ Head(s) = s[1] /\ Head(s) \in Instructions
         /\ \A j \in Nat : Closes(s, j + 1) => Closes(Tail(s), j)
         /\ Balanced(s) => Balanced(Tail(s))
         /\ Balanced(s) /\ Head(s).do = "startBatch" => Closes(Tail(s), 0)
         /\ Closes(s, 0) => \/ Head(s).do \in {"runBatch", "cancelBatch"}
                            \/ Head(s).do = "execute" /\ Closes(Tail(s), 0)
<1> DEFINE t == Tail(s)
<1>1. /\ t \in Seq(Instructions) /\ Len(t) = Len(s) - 1
      /\ \A i \in 1..Len(t) : t[i] = s[i + 1]
      /\ Head(s) \in Instructions
  BY HeadTailProperties
<1>2. s \in Seq(Plain) => t \in Seq(Plain)
  BY HeadTailProperties
<1>3. Head(s) = s[1]
  BY DEF Head
<1>4. Len(s) \in Nat \ {0}
  BY EmptySeq
<1> HIDE DEF t
<1>5. ASSUME NEW j \in Nat, Closes(s, j + 1) PROVE Closes(t, j)
  <2>1. PICK k \in (j + 1 + 1)..Len(s) :
          /\ s[k].do \in {"runBatch", "cancelBatch"}
          /\ \A i \in (j + 1 + 1)..(k - 1) : s[i].do = "execute"
    BY <1>5 DEF Closes
  <2>2. k - 1 \in (j + 1)..Len(t) /\ k - 1 \in 1..Len(t) /\ (k - 1) + 1 = k
    BY <1>1, <1>4, <2>1
  <2>3. t[k - 1].do \in {"runBatch", "cancelBatch"}
    BY <1>1, <2>1, <2>2
  <2>4. ASSUME NEW i \in (j + 1)..(k - 1 - 1) PROVE t[i].do = "execute"
    <3>1. i \in 1..Len(t) /\ i + 1 \in (j + 1 + 1)..(k - 1)
      BY <2>2, <2>4
    <3> QED
      BY <1>1, <2>1, <3>1
  <2> QED
    BY <2>2, <2>3, <2>4 DEF Closes
<1>6. ASSUME Balanced(s) PROVE Balanced(t)
  <2> SUFFICES ASSUME NEW j \in 1..Len(t), t[j].do = "startBatch"
               PROVE  Closes(t, j)
    BY DEF Balanced
  <2>1. j + 1 \in 1..Len(s) /\ j \in Nat
    BY <1>1, <1>4
  <2>2. Closes(s, j + 1)
    BY <1>1, <1>6, <2>1 DEF Balanced
  <2> QED
    BY <1>5, <2>1, <2>2
<1>7. ASSUME Closes(s, 1) PROVE Closes(t, 0)
  BY <1>5, <1>7
<1>8. ASSUME Closes(s, 0), Head(s).do \notin {"runBatch", "cancelBatch"}
      PROVE  Head(s).do = "execute" /\ Closes(s, 1)
  <2>1. PICK k \in 1..Len(s) : /\ s[k].do \in {"runBatch", "cancelBatch"}
                              /\ \A i \in 1..(k - 1) : s[i].do = "execute"
    BY <1>8 DEF Closes
  <2>2. k # 1
    BY <1>3, <1>8, <2>1
  <2>3. 1 \in 1..(k - 1) /\ k \in 2..Len(s)
    BY <2>1, <2>2
  <2>4. s[1].do = "execute" /\ \A i \in 2..(k - 1) : s[i].do = "execute"
    BY <2>1, <2>3
  <2> QED
    BY <1>3, <2>1, <2>3, <2>4 DEF Closes
<1>9. ASSUME Balanced(s), Head(s).do = "startBatch" PROVE Closes(s, 1)
  <2>1. 1 \in 1..Len(s)
    BY <1>4
  <2> QED
    BY <1>3, <1>9, <2>1 DEF Balanced
<1>10. Closes(s, 0) => \/ Head(s).do \in {"runBatch", "cancelBatch"}
                       \/ Head(s).do = "execute" /\ Closes(t, 0)
  BY <1>7, <1>8
<1>11. Balanced(s) /\ Head(s).do = "startBatch" => Closes(t, 0)
  BY <1>7, <1>9
<1> QED
  BY <1>1, <1>2, <1>3, <1>5, <1>6, <1>10, <1>11 DEF t

(* A program with the answer to a question before it.                      *)
LEMMA AnswerFacts ==
  ASSUME NEW u \in Seq(Plain), NEW t \in Seq(Instructions)
  PROVE  /\ u \o t \in Seq(Instructions)
         /\ t \in Seq(Plain) => u \o t \in Seq(Plain)
         /\ Balanced(t) => Balanced(u \o t)
<1> DEFINE s == u \o t
<1>1. u \in Seq(Instructions)
  BY InstructionFacts, SeqMonotonic
<1>2. /\ s \in Seq(Instructions) /\ Len(s) = Len(u) + Len(t)
      /\ Len(u) \in Nat /\ Len(t) \in Nat
      /\ \A i \in 1..Len(u) : s[i] = u[i]
      /\ \A i \in 1..Len(t) : s[Len(u) + i] = t[i]
  BY <1>1, Joined
<1>3. t \in Seq(Plain) => s \in Seq(Plain)
  BY Joined
<1>4. \A i \in 1..Len(u) : u[i].do # "startBatch"
  BY ElementOfSeq, InstructionFacts
<1> HIDE DEF s
<1>5. ASSUME Balanced(t) PROVE Balanced(s)
  <2> SUFFICES ASSUME NEW j \in 1..Len(s), s[j].do = "startBatch"
               PROVE  Closes(s, j)
    BY DEF Balanced
  <2>1. j \notin 1..Len(u)
    BY <1>2, <1>4
  <2> DEFINE b == j - Len(u)
  <2>2. b \in 1..Len(t) /\ Len(u) + b = j
    BY <1>2, <2>1
  <2> HIDE DEF b
  <2>3. t[b].do = "startBatch"
    BY <1>2, <2>2
  <2>4. PICK k \in (b + 1)..Len(t) :
          /\ t[k].do \in {"runBatch", "cancelBatch"}
          /\ \A i \in (b + 1)..(k - 1) : t[i].do = "execute"
    BY <1>5, <2>2, <2>3 DEF Balanced, Closes
  <2>5. k \in 1..Len(t) /\ Len(u) + k \in (j + 1)..Len(s)
    BY <1>2, <2>2, <2>4
  <2>6. s[Len(u) + k].do \in {"runBatch", "cancelBatch"}
    BY <1>2, <2>4, <2>5
  <2>7. ASSUME NEW i \in (j + 1)..(Len(u) + k - 1) PROVE s[i].do = "execute"
    <3> DEFINE h == i - Len(u)
    <3>1. h \in (b + 1)..(k - 1) /\ h \in 1..Len(t) /\ Len(u) + h = i
      BY <1>2, <2>2, <2>4, <2>7
    <3> HIDE DEF h
    <3> QED
      BY <1>2, <2>4, <3>1
  <2> QED
    BY <2>5, <2>6, <2>7 DEF Closes
<1> QED
  BY <1>2, <1>3, <1>5 DEF s

-----------------------------------------------------------------------------
(* The invariant                                                           *)

(* The client runs the rest of a program.  Unless the caller collects a    *)
(* batch of his own, every batch a program starts is closed by it, and one *)
(* that is being collected is closed by the rest of the program.           *)
BatchInv ==
  /\ prog \in Seq(Instructions) /\ (prog # <<>> => outcome = "running")
  /\ isBatchMode \in BOOLEAN /\ opened \in BOOLEAN /\ faults \in Nat
  /\ call \in Methods \cup {<<"none", "-">>}
  /\ call[1] \notin Opening => prog \in Seq(Plain)
  /\ ~opened => /\ Balanced(prog)
                /\ isBatchMode => Closes(prog, 0)

(* The calls of which something is promised: those without a fault so far  *)
(* and outside a batch.                                                    *)
Sound == faults = 0 /\ ~isBatchMode

(* Once a program that reboots the server has sent its operation the       *)
(* server is not up, or has booted.                                        *)
Sent == Sound => server # "up" \/ rebooted
Reported == Sound /\ outcome = "ok" => rebooted

RebootInv ==
  /\ call[1] \in {"reload", "restart"} =>
       \/ prog = <<Reinitialize(call[1]), Wait>>
       \/ prog = <<Wait>> /\ Sent
       \/ prog = <<>> /\ Reported
  /\ call[1] = "stopAndStartServer" =>
       \/ prog = <<Reinitialize("shutdown"), AwaitStop, Start>>
       \/ prog \in {<<AwaitStop, Start>>, <<Start>>} /\ Sent
       \/ prog = <<>> /\ Reported

(* What is left of setDatasourceConnectionValidation after its questions   *)
(* writes attributes and waits for reloads it has sent.                    *)
Writing(s) ==
  \A j \in 1..Len(s) :
    /\ s[j].do \in {"execute", "reinitialize", "wait"}
    /\ s[j].do = "execute" => s[j].op = "write" /\ Len(s[j].at) = 3
    /\ s[j].do = "wait" /\ j > 1 => s[j - 1].do = "reinitialize"

(* The program has a reload to wait for; has one after the write of p's a. *)
Reloads(s) == \E k \in 1..Len(s) : s[k].do = "wait"
Writes(s, p, a) ==
  \E i \in 1..Len(s) : s[i] = WriteOp(p, a) /\ \E k \in (i + 1)..Len(s) : s[k].do = "wait"

(* An attribute is in effect, or configured with a reload to come, or still*)
(* to be written with a reload to come.                                    *)
Coming(p, a) ==
  \/ Append(p, a) \in booted /\ Append(p, a) \in config
  \/ Append(p, a) \in config /\ Reloads(prog)
  \/ Writes(prog, p, a)

SentAndReloading ==
  prog # <<>> /\ Head(prog).do = "wait" => server # "up" \/ booted = config

Validated(d, x) ==
  /\ Writing(prog)
  /\ SentAndReloading
  /\ \A p \in {d, x} : p \notin config \/ \A a \in Range(Validation) : Coming(p, a)

(* The questions of setDatasourceConnectionValidation, and what follows.   *)
AskingBoth(d, x) ==
  LET vd == SetValidationAttributes(d)
      vx == SetValidationAttributes(x)
  IN  <<IfDefined(d, <<IfDefined(x, vd \o vx, vd)>>, <<IfDefined(x, <<>> \o vx, <<>>)>>)>>

AskingXa(d, x) ==
  LET vd == SetValidationAttributes(d)
      vx == SetValidationAttributes(x)
  IN  \/ prog = <<IfDefined(x, vd \o vx, vd)>>
      \/ prog = <<IfDefined(x, <<>> \o vx, <<>>)>> /\ d \notin config

ValidationInv ==
  call[1] = "setDatasourceConnectionValidation" /\ Sound =>
    LET d == DataSource(call[2])
        x == XaDataSource(call[2])
    IN  \/ prog = <<>> /\ outcome = "failed"
        \/ prog = AskingBoth(d, x)
        \/ AskingXa(d, x)
        \/ Validated(d, x)

ClientInv == BatchInv /\ RebootInv /\ ValidationInv

-----------------------------------------------------------------------------
(* Batches                                                                 *)

(* What a step of the client does to its program and the batch mode: it    *)
(* waits on; ends the call with an exception; goes on to the next          *)
(* instruction; or goes on with the answer to a question.                  *)
Waits == UNCHANGED <<prog, isBatchMode>>

Throws ==
  /\ prog' = <<>>
  /\ \/ isBatchMode' = FALSE
     \/ isBatchMode' = isBatchMode /\ Head(prog).do \notin {"execute", "runBatch", "cancelBatch"}

Goes ==
  /\ prog' = Tail(prog)
  /\ \/ isBatchMode' = TRUE /\ Head(prog).do = "startBatch"
     \/ isBatchMode' = FALSE
     \/ isBatchMode' = isBatchMode /\ Head(prog).do \notin {"runBatch", "cancelBatch"}

Answered(u) == prog' = u \o Tail(prog) /\ isBatchMode' = isBatchMode

(* A step of the client is one of these, and the caller is left alone.     *)
LEMMA ClientKinds ==
  ASSUME BatchInv, Client
  PROVE  /\ prog # <<>> /\ UNCHANGED caller /\ faults' \in {faults, faults + 1}
         /\ \/ Waits \/ Throws \/ Goes
            \/ Head(prog).do \in {"isDefined", "isResourceExists"} /\ \E u \in Seq(Plain) : Answered(u)
<1> USE DEF Doing, Running, Continue, Throw, NoFault, Fault
<1>1. CASE DoStartBatch
  <2>1. CASE isBatchMode
    BY <1>1, <2>1 DEF DoStartBatch, Throws
  <2>2. CASE ~isBatchMode
    BY <1>1, <2>2 DEF DoStartBatch, Goes
  <2> QED
    BY <2>1, <2>2
<1>2. CASE DoCancelBatch
  BY <1>2 DEF DoCancelBatch, Goes
<1>3. CASE AddToBatch
  BY <1>3 DEF AddToBatch, Goes
<1>4. CASE ExecuteOperation
  <2>1. isBatchMode' = FALSE /\ UNCHANGED caller /\ prog # <<>>
    BY <1>4 DEF BatchInv, ExecuteOperation
  <2>2. faults' \in {faults, faults + 1} /\ prog' \in {<<>>, Tail(prog)}
    BY <1>4 DEF ExecuteOperation
  <2> QED
    BY <2>1, <2>2 DEF Throws, Goes
<1>5. CASE DoRunBatch
  <2>1. isBatchMode' = FALSE /\ UNCHANGED caller /\ prog # <<>>
    BY <1>5 DEF DoRunBatch
  <2>2. faults' \in {faults, faults + 1} /\ prog' \in {<<>>, Tail(prog)}
    BY <1>5 DEF DoRunBatch
  <2> QED
    BY <2>1, <2>2 DEF Throws, Goes
<1>6. CASE IsDefined \/ IsResourceExists
  <2>1. /\ prog # <<>> /\ UNCHANGED caller /\ UNCHANGED isBatchMode
        /\ Head(prog).do \in {"isDefined", "isResourceExists"}
    BY <1>6 DEF IsDefined, IsResourceExists
  <2>2. Head(prog).yes \in Seq(Plain) /\ Head(prog).no \in Seq(Plain)
    BY <2>1, TailFacts, AskFacts DEF BatchInv
  <2>3. faults' \in {faults, faults + 1}
    BY <1>6 DEF IsDefined, IsResourceExists
  <2>4. \/ prog' = Head(prog).yes \o Tail(prog) \/ prog' = Head(prog).no \o Tail(prog)
        \/ prog' = <<>>
    BY <1>6 DEF IsDefined, IsResourceExists
  <2> QED
    BY <2>1, <2>2, <2>3, <2>4 DEF Throws, Answered
<1>7. CASE ExecuteServerReinitialization
  <2>1. /\ prog # <<>> /\ UNCHANGED caller /\ UNCHANGED isBatchMode /\ prog' = Tail(prog)
        /\ Head(prog).do = "reinitialize"
    BY <1>7 DEF ExecuteServerReinitialization
  <2>2. faults' \in {faults, faults + 1}
    BY <1>7 DEF ExecuteServerReinitialization
  <2> QED
    BY <2>1, <2>2 DEF Goes
<1>8. CASE Poll
  BY <1>8 DEF Poll, Waits, Throws, Goes
<1>9. CASE DoAwaitStop
  BY <1>9 DEF DoAwaitStop, Goes
<1>10. CASE DoStart
  BY <1>10 DEF DoStart, Throws, Goes
<1> QED
  BY <1>1, <1>2, <1>3, <1>4, <1>5, <1>6, <1>7, <1>8, <1>9, <1>10 DEF Client

(* A call runs as long as its program is not done.                         *)
LEMMA ClientRuns ==
  ASSUME BatchInv, Client
  PROVE  prog' # <<>> => outcome' = "running"
<1> USE DEF Continue, Throw, BatchInv
<1>1. CASE DoStartBatch \/ DoCancelBatch \/ AddToBatch \/ ExecuteOperation \/ DoRunBatch
  BY <1>1 DEF DoStartBatch, DoCancelBatch, AddToBatch, ExecuteOperation, DoRunBatch
<1>2. CASE IsDefined \/ IsResourceExists
  BY <1>2 DEF IsDefined, IsResourceExists
<1>3. CASE ExecuteServerReinitialization \/ Poll \/ DoAwaitStop \/ DoStart
  BY <1>3 DEF ExecuteServerReinitialization, Poll, DoAwaitStop, DoStart
<1> QED
  BY <1>1, <1>2, <1>3 DEF Client

(* Every step keeps the invariant of the batches.                          *)
LEMMA BatchInductive ==
  ASSUME BatchInv, [Next]_vars
  PROVE  BatchInv'
<1> DEFINE Rest == /\ prog' \in Seq(Instructions)
                   /\ isBatchMode' \in BOOLEAN
                   /\ call[1] \notin Opening => prog' \in Seq(Plain)
                   /\ ~opened => Balanced(prog') /\ (isBatchMode' => Closes(prog', 0))
<1>1. CASE Client
  <2>1. prog # <<>> /\ UNCHANGED caller /\ faults' \in Nat
    BY <1>1, ClientKinds DEF BatchInv
  <2>2. /\ Tail(prog) \in Seq(Instructions)
        /\ prog \in Seq(Plain) => Tail(prog) \in Seq(Plain)
        /\ Balanced(prog) => Balanced(Tail(prog))
        /\ Balanced(prog) /\ Head(prog).do = "startBatch" => Closes(Tail(prog), 0)
        /\ Closes(prog, 0) => \/ Head(prog).do \in {"runBatch", "cancelBatch"}
                              \/ Head(prog).do = "execute" /\ Closes(Tail(prog), 0)
    BY <2>1, TailFacts DEF BatchInv
  <2>3. ASSUME Waits PROVE Rest
    BY <2>3 DEF BatchInv, Waits
  <2>4. ASSUME Throws PROVE Rest
    <3>1. prog' \in Seq(Plain) /\ prog' \in Seq(Instructions) /\ Balanced(prog')
      BY <2>4, EmptySeq, PlainBalanced DEF Throws
    <3>2. isBatchMode' \in BOOLEAN
      BY <2>4 DEF Throws, BatchInv
    <3>3. ~opened => ~isBatchMode'
      BY <2>2, <2>4 DEF Throws, BatchInv
    <3> QED
      BY <3>1, <3>2, <3>3
  <2>5. ASSUME Goes PROVE Rest
    <3>1. isBatchMode' \in BOOLEAN
      BY <2>5 DEF Goes, BatchInv
    <3>2. ~opened /\ isBatchMode' => Closes(Tail(prog), 0)
      BY <2>2, <2>5 DEF Goes, BatchInv
    <3> QED
      BY <2>2, <2>5, <3>1, <3>2 DEF Goes, BatchInv
  <2>6. ASSUME NEW u \in Seq(Plain), Answered(u),
               Head(prog).do \in {"isDefined", "isResourceExists"}
        PROVE  Rest
    <3>1. /\ u \o Tail(prog) \in Seq(Instructions)
          /\ Tail(prog) \in Seq(Plain) => u \o Tail(prog) \in Seq(Plain)
          /\ Balanced(Tail(prog)) => Balanced(u \o Tail(prog))
      BY <2>2, AnswerFacts
    <3>2. ~opened => ~isBatchMode
      BY <2>2, <2>6 DEF BatchInv
    <3> QED
      BY <2>2, <2>6, <3>1, <3>2 DEF Answered, BatchInv
  <2>7. Rest
    BY <1>1, ClientKinds, <2>3, <2>4, <2>5, <2>6
  <2> QED
    BY <1>1, <2>1, <2>7, ClientRuns DEF caller, BatchInv
<1>2. ASSUME NEW m \in Methods, Call(m) PROVE BatchInv'
  <2>1. /\ prog = <<>> /\ prog' = Program(m) /\ call' = m
        /\ UNCHANGED <<isBatchMode, faults>>
    BY <1>2 DEF Call, Running
  <2>2. ~opened => ~isBatchMode
    BY <2>1 DEF BatchInv, Closes
  <2>3. opened' \in BOOLEAN /\ (~opened' => m[1] # "startBatch")
    BY <1>2 DEF Call, BatchInv
  <2>4. /\ ~opened' /\ isBatchMode => m[1] \in {"runBatch", "cancelBatch"}
        /\ outcome' = "running"
    BY <1>2, <2>2 DEF Call
  <2> QED
    BY <2>1, <2>3, <2>4, ProgramFacts DEF BatchInv
<1>3. CASE Boot \/ GoDown \/ UNCHANGED vars
  BY <1>3 DEF Boot, GoDown, vars, client, caller, BatchInv
<1> QED
  BY <1>1, <1>2, <1>3 DEF Next

-----------------------------------------------------------------------------
(* Reboots                                                                 *)

(* The first instruction of the program says which action the client takes.*)
LEMMA ClientActions ==
  ASSUME Client
  PROVE  /\ prog # <<>>
         /\ Head(prog).do = "execute" => AddToBatch \/ ExecuteOperation
         /\ Head(prog).do = "reinitialize" => ExecuteServerReinitialization
         /\ Head(prog).do = "wait" => Poll
         /\ Head(prog).do = "awaitStop" => DoAwaitStop
         /\ Head(prog).do = "start" => DoStart
         /\ Head(prog).do = "isDefined" => IsDefined
<1> DEFINE d == Head(prog).do
<1>1. /\ DoStartBatch => d = "startBatch"
      /\ DoCancelBatch => d = "cancelBatch"
      /\ AddToBatch \/ ExecuteOperation => d = "execute"
      /\ DoRunBatch => d = "runBatch"
      /\ IsDefined => d = "isDefined"
      /\ IsResourceExists => d = "isResourceExists"
      /\ ExecuteServerReinitialization => d = "reinitialize"
      /\ Poll => d = "wait"
      /\ DoAwaitStop => d = "awaitStop"
      /\ DoStart => d = "start"
  BY DEF DoStartBatch, DoCancelBatch, AddToBatch, ExecuteOperation, DoRunBatch, IsDefined,
         IsResourceExists, ExecuteServerReinitialization, Poll, DoAwaitStop, DoStart, Doing
<1>2. prog # <<>>
  BY DEF Client, DoStartBatch, DoCancelBatch, AddToBatch, ExecuteOperation, DoRunBatch, IsDefined,
         IsResourceExists, ExecuteServerReinitialization, Poll, DoAwaitStop, DoStart, Doing, Running
<1> QED
  BY <1>1, <1>2 DEF Client

(* Every step keeps the invariant of the reboots.                          *)
LEMMA RebootInductive ==
  ASSUME BatchInv, RebootInv, [Next]_vars
  PROVE  RebootInv'
<1>1. CASE Client
  <2>1. /\ prog # <<>> /\ UNCHANGED caller /\ faults' \in {faults, faults + 1} /\ faults \in Nat
        /\ faults' = 0 => faults = 0
    BY <1>1, ClientKinds DEF BatchInv
  <2>2. call' = call
    BY <2>1 DEF caller
  <2>3. ASSUME prog # <<>>, Head(prog).do = "reinitialize"
        PROVE  prog' = Tail(prog) /\ Sent'
    <3>1. ExecuteServerReinitialization
      BY <1>1, <2>3, ClientActions
    <3>2. prog' = Tail(prog) /\ UNCHANGED <<isBatchMode, rebooted>>
      BY <3>1 DEF ExecuteServerReinitialization, Continue
    <3>3. ASSUME ~isBatchMode, faults' = 0 PROVE server' # "up"
      BY <2>1, <3>1, <3>3 DEF ExecuteServerReinitialization, Fault, NoFault, Leaving
    <3> QED
      BY <3>2, <3>3 DEF Sent, Sound
  <2>4. ASSUME prog # <<>>, Head(prog).do \in {"wait", "awaitStop", "start"}, Sent
        PROVE  /\ UNCHANGED isBatchMode
               /\ \/ prog' = prog /\ Sent'
                  \/ prog' = <<>> /\ outcome' = "failed"
                  \/ /\ prog' = Tail(prog) /\ Sent'
                     /\ Head(prog).do # "awaitStop" /\ Sound' => rebooted'
    <3>1. CASE Poll
      BY <2>4, <3>1 DEF Poll, remote, Throw, Continue, Sent, Sound, Doing
    <3>2. CASE DoAwaitStop
      BY <2>4, <3>2 DEF DoAwaitStop, remote, Continue, Sent, Sound, Doing
    <3>3. CASE DoStart
      BY <2>4, <3>3 DEF DoStart, remote, Throw, Continue, Sent, Sound, Doing
    <3> QED
      BY <1>1, <2>4, <3>1, <3>2, <3>3, ClientActions
  <2>5. ASSUME call[1] \in {"reload", "restart"}
        PROVE  \/ prog' = <<Wait>> /\ Sent'
               \/ prog' = <<>> /\ Reported'
    <3>1. CASE prog = <<Reinitialize(call[1]), Wait>>
      <4>1. Head(prog).do = "reinitialize" /\ Tail(prog) = <<Wait>>
        BY <3>1 DEF Reinitialize
      <4> QED
        BY <2>1, <2>3, <4>1
    <3>2. CASE prog = <<Wait>> /\ Sent
      <4>1. Head(prog).do = "wait" /\ Tail(prog) = <<>>
        BY <3>2 DEF Wait
      <4> QED
        BY <2>1, <2>4, <3>2, <4>1 DEF Reported
    <3> QED
      BY <2>1, <2>5, <3>1, <3>2 DEF RebootInv
  <2>6. ASSUME call[1] = "stopAndStartServer"
        PROVE  \/ prog' \in {<<AwaitStop, Start>>, <<Start>>} /\ Sent'
               \/ prog' = <<>> /\ Reported'
    <3>1. CASE prog = <<Reinitialize("shutdown"), AwaitStop, Start>>
      <4>1. Head(prog).do = "reinitialize" /\ Tail(prog) = <<AwaitStop, Start>>
        BY <3>1 DEF Reinitialize
      <4> QED
        BY <2>1, <2>3, <4>1
    <3>2. CASE prog = <<AwaitStop, Start>> /\ Sent
      <4>1. Head(prog).do = "awaitStop" /\ Tail(prog) = <<Start>>
        BY <3>2 DEF AwaitStop
      <4> QED
        BY <2>1, <2>4, <3>2, <4>1 DEF Reported
    <3>3. CASE prog = <<Start>> /\ Sent
      <4>1. Head(prog).do = "start" /\ Tail(prog) = <<>>
        BY <3>3 DEF Start
      <4> QED
        BY <2>1, <2>4, <3>3, <4>1 DEF Reported
    <3> QED
      BY <2>1, <2>6, <3>1, <3>2, <3>3 DEF RebootInv
  <2> QED
    BY <2>2, <2>5, <2>6 DEF RebootInv
<1>2. ASSUME NEW m \in Methods, Call(m) PROVE RebootInv'
  <2>1. prog' = Program(m) /\ call' = m
    BY <1>2 DEF Call
  <2>2. /\ m[1] = "reload" => Program(m) = Reload
        /\ m[1] = "restart" => Program(m) = StopRestart
        /\ m[1] = "stopAndStartServer" => Program(m) = StopAndStartServer
    BY DEF Program
  <2> QED
    BY <2>1, <2>2, ReloadFacts DEF RebootInv
<1>3. CASE Boot
  BY <1>3 DEF Boot, client, caller, RebootInv, Sent, Reported, Sound
<1>4. CASE GoDown
  BY <1>4 DEF GoDown, client, caller, RebootInv, Sent, Reported, Sound
<1>5. CASE UNCHANGED vars
  BY <1>5 DEF vars, client, caller, remote, RebootInv, Sent, Reported, Sound
<1> QED
  BY <1>1, <1>2, <1>3, <1>4, <1>5 DEF Next

-----------------------------------------------------------------------------
(* Validation                                                              *)

(* One datasource's part of the program writes all of its attributes and   *)
(* waits for a reload after them.                                          *)
LEMMA PartFacts ==
  ASSUME NEW p \in Resources
  PROVE  LET s == SetValidationAttributes(p)
         IN  /\ s \in Seq(Simple) /\ Len(s) = 5 /\ s[1].do = "execute"
             /\ Writing(s)
             /\ \A a \in Range(Validation) : Writes(s, p, a)
<1> DEFINE s == SetValidationAttributes(p)
<1>1. /\ s \in Seq(Simple) /\ Len(s) = 5
      /\ \A i \in 1..3 : s[i] = WriteOp(p, Validation[i])
      /\ s[4] = Reinitialize("reload") /\ s[5] = Wait
  BY ValidationFacts
<1> HIDE DEF s
<1>0. p \in Seq(Words) /\ Len(p) = 2
  BY ResourceFacts
<1>2. \A a \in Words : Len(Append(p, a)) = 3
  <2>1. \A a \in Words : Len(Append(p, a)) = Len(p) + 1
    BY <1>0, AppendProperties
  <2> QED
    BY <1>0, <2>1
<1>3. \A i \in 1..3 : /\ s[i].do = "execute" /\ s[i].op = "write" /\ Len(s[i].at) = 3
  <2>1. \A i \in 1..3 : Validation[i] \in Words
    BY WordFacts DEF Validation
  <2>2. \A a \in Words : /\ WriteOp(p, a).do = "execute" /\ WriteOp(p, a).op = "write"
                       /\ Len(WriteOp(p, a).at) = 3
    BY <1>2 DEF WriteOp
  <2> QED
    BY <1>1, <2>1, <2>2
<1>4. s[4].do = "reinitialize" /\ s[5].do = "wait"
  BY <1>1 DEF Reinitialize, Wait
<1>5. Writing(s)
  <2>1. \A j \in 1..5 : j \in 1..3 \/ j = 4 \/ j = 5
    OBVIOUS
  <2>2. s[5 - 1].do = "reinitialize"
    BY <1>4
  <2> QED
    BY <1>1, <1>3, <1>4, <2>1, <2>2 DEF Writing
<1>6. ASSUME NEW a \in Range(Validation) PROVE Writes(s, p, a)
  <2>1. PICK i \in 1..3 : a = Validation[i]
    BY <1>6 DEF Range, Validation
  <2>2. 5 \in (i + 1)..Len(s) /\ i \in 1..Len(s)
    BY <1>1
  <2> QED
    BY <1>1, <1>4, <2>1, <2>2 DEF Writes
<1> QED
  BY <1>1, <1>3, <1>5, <1>6 DEF s

(* Both parts, one after the other.                                        *)
LEMMA PartsFacts ==
  ASSUME NEW u \in Seq(Simple), NEW t \in Seq(Simple), Writing(u), Writing(t),
         t[1].do = "execute", Len(u) # 0, Len(t) # 0
  PROVE  /\ Writing(u \o t) /\ (u \o t)[1] = u[1] /\ u \o t # <<>>
         /\ \A p, a : Writes(u, p, a) \/ Writes(t, p, a) => Writes(u \o t, p, a)
<1> DEFINE s == u \o t
           l == Len(u)
<1>1. /\ s \in Seq(Simple) /\ Len(s) = l + Len(t) /\ l \in Nat /\ Len(t) \in Nat
      /\ \A i \in 1..l : s[i] = u[i]
      /\ \A i \in 1..Len(t) : s[l + i] = t[i]
  BY Joined
<1> HIDE DEF s
<1>2. l # 0 /\ l = Len(u)
  OBVIOUS
<1> HIDE DEF l
<1>3. Writing(s)
  <2>1. ASSUME NEW j \in 1..l
        PROVE  /\ s[j].do \in {"execute", "reinitialize", "wait"}
               /\ s[j].do = "execute" => s[j].op = "write" /\ Len(s[j].at) = 3
               /\ s[j].do = "wait" /\ j > 1 => s[j - 1].do = "reinitialize"
    <3>1. j > 1 => j - 1 \in 1..l
      BY <1>1
    <3> QED
      BY <1>1, <1>2, <2>1, <3>1 DEF Writing
  <2>2. ASSUME NEW i \in 1..Len(t)
        PROVE  /\ s[l + i].do \in {"execute", "reinitialize", "wait"}
               /\ s[l + i].do = "execute" => s[l + i].op = "write" /\ Len(s[l + i].at) = 3
               /\ s[l + i].do = "wait" => s[l + i - 1].do = "reinitialize"
    <3>1. s[l + i] = t[i]
      BY <1>1
    <3>2. i # 1 => i - 1 \in 1..Len(t) /\ i > 1 /\ l + (i - 1) = l + i - 1
      BY <1>1
    <3>3. i # 1 => s[l + i - 1] = t[i - 1]
      BY <1>1, <3>2
    <3> QED
      BY <3>1, <3>2, <3>3 DEF Writing
  <2>3. ASSUME NEW j \in 1..Len(s)
        PROVE  /\ s[j].do \in {"execute", "reinitialize", "wait"}
               /\ s[j].do = "execute" => s[j].op = "write" /\ Len(s[j].at) = 3
               /\ s[j].do = "wait" /\ j > 1 => s[j - 1].do = "reinitialize"
    <3>1. CASE j \in 1..l
      BY <2>1, <3>1
    <3>2. CASE j \notin 1..l
      <4> DEFINE i == j - l
      <4>1. i \in 1..Len(t) /\ j = l + i /\ j - 1 = l + i - 1
        BY <1>1, <2>3, <3>2
      <4> HIDE DEF i
      <4>2. s[j] = s[l + i] /\ s[j - 1] = s[l + i - 1]
        BY <4>1
      <4>3. /\ s[l + i].do \in {"execute", "reinitialize", "wait"}
            /\ s[l + i].do = "execute" => s[l + i].op = "write" /\ Len(s[l + i].at) = 3
            /\ s[l + i].do = "wait" => s[l + i - 1].do = "reinitialize"
        BY <2>2, <4>1
      <4> QED
        BY <4>2, <4>3
    <3> QED
      BY <3>1, <3>2
  <2> QED
    BY <2>3 DEF Writing
<1>4. ASSUME NEW p, NEW a, Writes(u, p, a) PROVE Writes(s, p, a)
  <2>0. PICK i \in 1..l : u[i] = WriteOp(p, a) /\ \E k \in (i + 1)..l : u[k].do = "wait"
    BY <1>2, <1>4 DEF Writes
  <2>1. PICK k \in (i + 1)..l : u[i] = WriteOp(p, a) /\ u[k].do = "wait"
    BY <2>0
  <2>2. i \in 1..Len(s) /\ k \in (i + 1)..Len(s) /\ k \in 1..l
    BY <1>1, <2>1
  <2> QED
    BY <1>1, <2>1, <2>2 DEF Writes
<1>5. ASSUME NEW p, NEW a, Writes(t, p, a) PROVE Writes(s, p, a)
  <2>0. PICK i \in 1..Len(t) : t[i] = WriteOp(p, a) /\ \E k \in (i + 1)..Len(t) : t[k].do = "wait"
    BY <1>5 DEF Writes
  <2>1. PICK k \in (i + 1)..Len(t) : t[i] = WriteOp(p, a) /\ t[k].do = "wait"
    BY <2>0
  <2>2. l + i \in 1..Len(s) /\ l + k \in (l + i + 1)..Len(s) /\ k \in 1..Len(t)
    BY <1>1, <2>1
  <2>3. s[l + i] = t[i] /\ s[l + k] = t[k]
    BY <1>1, <2>1, <2>2
  <2> QED
    BY <2>1, <2>2, <2>3 DEF Writes
<1>6. s[1] = u[1] /\ s # <<>>
  <2>1. 1 \in 1..l
    BY <1>1, <1>2
  <2>2. Len(s) # 0
    BY <1>1, <1>2
  <2> QED
    BY <1>1, <2>1, <2>2
<1> QED
  BY <1>3, <1>4, <1>5, <1>6 DEF s

(* The rest of such a program.                                             *)
LEMMA RestFacts ==
  ASSUME NEW s \in Seq(Instructions), s # <<>>, Writing(s)
  PROVE  LET t == Tail(s)
         IN  /\ Writing(t)
             /\ t # <<>> /\ Head(t).do = "wait" => Head(s).do = "reinitialize"
             /\ Reloads(s) /\ Head(s).do # "wait" => Reloads(t)
             /\ \A p, a : Writes(s, p, a) => \/ Writes(t, p, a)
                                             \/ Head(s) = WriteOp(p, a) /\ Reloads(t)
<1> DEFINE t == Tail(s)
<1>1. /\ t \in Seq(Instructions) /\ Len(t) = Len(s) - 1
      /\ \A i \in 1..Len(t) : t[i] = s[i + 1]
      /\ Head(s) = s[1]
  BY HeadTailProperties, TailFacts
<1>2. Len(s) \in Nat \ {0}
  BY EmptySeq
<1>3. t # <<>> => Head(t) = t[1] /\ 1 \in 1..Len(t) /\ 2 \in 1..Len(s)
  <2>1. t # <<>> => Head(t) = t[1] /\ Len(t) # 0 /\ Len(t) \in Nat
    BY <1>1, TailFacts, EmptySeq
  <2> HIDE DEF t
  <2> QED
    BY <1>1, <1>2, <2>1
<1> HIDE DEF t
<1>4. Writing(t)
  <2>1. ASSUME NEW j \in 1..Len(t)
        PROVE  /\ j + 1 \in 1..Len(s) /\ j + 1 > 1 /\ (j + 1) - 1 = j
               /\ j > 1 => j - 1 \in 1..Len(t) /\ (j - 1) + 1 = j
    BY <1>1, <1>2
  <2>2. ASSUME NEW j \in 1..Len(t)
        PROVE  t[j] = s[j + 1] /\ (j > 1 => t[j - 1] = s[j])
    BY <1>1, <2>1
  <2>3. ASSUME NEW j \in 1..Len(t), t[j].do = "wait", j > 1 PROVE t[j - 1].do = "reinitialize"
    <3>1. s[(j + 1) - 1].do = "reinitialize"
      BY <2>1, <2>2, <2>3 DEF Writing
    <3> QED
      BY <2>1, <2>2, <2>3, <3>1
  <2> QED
    BY <2>1, <2>2, <2>3 DEF Writing
<1>5. ASSUME t # <<>>, Head(t).do = "wait" PROVE Head(s).do = "reinitialize"
  <2>1. s[2].do = "wait"
    BY <1>1, <1>3, <1>5
  <2>2. s[2 - 1].do = "reinitialize"
    BY <1>3, <1>5, <2>1 DEF Writing
  <2> QED
    BY <1>1, <2>2
<1>6. ASSUME NEW k \in 2..Len(s), s[k].do = "wait" PROVE Reloads(t)
  <2>1. k - 1 \in 1..Len(t) /\ (k - 1) + 1 = k
    BY <1>1, <1>2
  <2>2. t[k - 1] = s[k]
    BY <1>1, <2>1
  <2> QED
    BY <1>6, <2>1, <2>2 DEF Reloads
<1>7. ASSUME Reloads(s), Head(s).do # "wait" PROVE Reloads(t)
  <2>1. PICK k \in 1..Len(s) : s[k].do = "wait"
    BY <1>7 DEF Reloads
  <2>2. k \in 2..Len(s)
    BY <1>1, <1>7, <2>1
  <2> QED
    BY <1>6, <2>1, <2>2
<1>8. ASSUME NEW p, NEW a, Writes(s, p, a)
      PROVE  Writes(t, p, a) \/ (Head(s) = WriteOp(p, a) /\ Reloads(t))
  <2>0. PICK i \in 1..Len(s) : s[i] = WriteOp(p, a) /\ \E k \in (i + 1)..Len(s) : s[k].do = "wait"
    BY <1>8 DEF Writes
  <2>1. PICK k \in (i + 1)..Len(s) : s[i] = WriteOp(p, a) /\ s[k].do = "wait"
    BY <2>0
  <2>2. CASE i = 1
    <3>1. k \in 2..Len(s)
      BY <2>1, <2>2
    <3> QED
      BY <1>1, <1>6, <2>1, <2>2, <3>1
  <2>3. CASE i # 1
    <3>1. /\ i - 1 \in 1..Len(t) /\ (i - 1) + 1 = i
          /\ k - 1 \in ((i - 1) + 1)..Len(t) /\ k - 1 \in 1..Len(t) /\ (k - 1) + 1 = k
      BY <1>1, <1>2, <2>1, <2>3
    <3>2. t[i - 1] = s[i] /\ t[k - 1] = s[k]
      BY <1>1, <3>1
    <3> QED
      BY <2>1, <3>1, <3>2 DEF Writes
  <2> QED
    BY <2>2, <2>3
<1> QED
  BY <1>4, <1>5, <1>7, <1>8 DEF t

(* What the questions are answered with.                                   *)
LEMMA AnswersGood ==
  ASSUME NEW n \in Names
  PROVE  LET d  == DataSource(n)
             x  == XaDataSource(n)
             vd == SetValidationAttributes(d)
             vx == SetValidationAttributes(x)
         IN  /\ d \in Seq(Words) /\ x \in Seq(Words) /\ Len(d) = 2 /\ Len(x) = 2
             /\ \A s \in {vd \o vx, vd, <<>> \o vx} : Writing(s) /\ s # <<>> /\ Head(s).do = "execute"
             /\ Writing(<<>>)
             /\ \A a \in Range(Validation) : /\ Writes(vd \o vx, d, a) /\ Writes(vd, d, a)
                                            /\ Writes(vd \o vx, x, a) /\ Writes(<<>> \o vx, x, a)
             /\ \A s \in {vd \o vx, vd, <<>> \o vx, <<>>} : s \o <<>> = s
<1> DEFINE d  == DataSource(n)
           x  == XaDataSource(n)
           vd == SetValidationAttributes(d)
           vx == SetValidationAttributes(x)
<1>1. d \in Seq(Words) /\ x \in Seq(Words) /\ Len(d) = 2 /\ Len(x) = 2
      /\ d \in Resources /\ x \in Resources
  BY PathFacts, ResourceFacts
<1> HIDE DEF d, x
<1>2. /\ vd \in Seq(Simple) /\ Len(vd) = 5 /\ vd[1].do = "execute" /\ Writing(vd)
      /\ \A a \in Range(Validation) : Writes(vd, d, a)
  BY <1>1, PartFacts
<1>3. /\ vx \in Seq(Simple) /\ Len(vx) = 5 /\ vx[1].do = "execute" /\ Writing(vx)
      /\ \A a \in Range(Validation) : Writes(vx, x, a)
  BY <1>1, PartFacts
<1> HIDE DEF vd, vx
<1>4. /\ Writing(vd \o vx) /\ (vd \o vx)[1] = vd[1] /\ vd \o vx # <<>>
      /\ \A p, a : Writes(vd, p, a) \/ Writes(vx, p, a) => Writes(vd \o vx, p, a)
  BY <1>2, <1>3, PartsFacts
<1>5. vd \o vx \in Seq(Simple)
  BY <1>2, <1>3, Joined
<1>6. <<>> \o vx = vx /\ vd # <<>> /\ vx # <<>>
  BY <1>2, <1>3, ConcatEmptySeq
<1>7. \A s \in Seq(Simple) : s \o <<>> = s
  BY ConcatEmptySeq
<1>8. <<>> \in Seq(Simple) /\ Writing(<<>>)
  BY EmptySeq DEF Writing
<1>9. Head(vd) = vd[1] /\ Head(vx) = vx[1] /\ Head(vd \o vx) = (vd \o vx)[1]
  BY <1>2, <1>3, <1>4, <1>5, <1>6
<1> QED
  BY <1>1, <1>2, <1>3, <1>4, <1>5, <1>6, <1>7, <1>8, <1>9 DEF d, x, vd, vx

(* A question outside a batch and without a fault: answered as it is, with *)
(* the configuration left alone, or not at all.                            *)
LEMMA QuestionFacts ==
  ASSUME IsDefined, ~isBatchMode, faults \in Nat, faults' = 0, Tail(prog) = <<>>
  PROVE  /\ UNCHANGED <<config, call>>
         /\ \/ prog' = (IF Head(prog).at \in config THEN Head(prog).yes ELSE Head(prog).no) \o <<>>
            \/ prog' = <<>> /\ outcome' = "failed"
<1>1. faults' # faults + 1
  OBVIOUS
<1>2. UNCHANGED <<config, call>>
  BY DEF IsDefined, remote, caller
<1> QED
  BY <1>1, <1>2 DEF IsDefined, Continue, Throw, Fault, NoFault

(* Outside the programs that batch no step changes the batch mode.         *)
LEMMA ModeKept ==
  ASSUME BatchInv, Client, call[1] \notin Opening
  PROVE  UNCHANGED isBatchMode
<1>1. prog # <<>> /\ prog \in Seq(Plain)
  BY ClientActions DEF BatchInv
<1>2. Head(prog).do \notin {"startBatch", "runBatch", "cancelBatch"}
  BY <1>1, HeadTailProperties, InstructionFacts
<1> QED
  BY <1>2 DEF Client, DoStartBatch, DoCancelBatch, AddToBatch, ExecuteOperation, DoRunBatch, IsDefined,
         IsResourceExists, ExecuteServerReinitialization, Poll, DoAwaitStop, DoStart, Doing

(* What a step of the writing part does: an operation, the reload, a turn  *)
(* of the wait; or it fails.                                               *)
WritesOne ==
  /\ Head(prog).do = "execute" /\ prog' = Tail(prog)
  /\ config' = Applied(Head(prog), config) /\ booted' = booted

SendsReload ==
  /\ Head(prog).do = "reinitialize" /\ prog' = Tail(prog)
  /\ config' = config /\ booted' = booted /\ server' # "up"

HasReloaded ==
  /\ Head(prog).do = "wait" /\ prog' = Tail(prog) /\ server = "up"
  /\ config' = config /\ booted' = booted

StaysSame == prog' = prog /\ config' = config /\ booted' = booted /\ server' = server

GivesUp == prog' = <<>> /\ outcome' = "failed"

(* Without a fault the writing part takes one of these steps.              *)
LEMMA WritingKinds ==
  ASSUME Client, ~isBatchMode, faults \in Nat, faults' = 0,
         Head(prog).do \in {"execute", "reinitialize", "wait"}
  PROVE  WritesOne \/ SendsReload \/ HasReloaded \/ StaysSame \/ GivesUp
<1>1. faults' # faults + 1
  OBVIOUS
<1>2. CASE Head(prog).do = "execute"
  <2>1. ExecuteOperation
    BY <1>2, ClientActions DEF AddToBatch
  <2> QED
    BY <1>1, <1>2, <2>1 DEF ExecuteOperation, Continue, Throw, Fault, WritesOne, GivesUp
<1>3. CASE Head(prog).do = "reinitialize"
  <2>1. ExecuteServerReinitialization
    BY <1>3, ClientActions
  <2> QED
    BY <1>1, <1>3, <2>1 DEF ExecuteServerReinitialization, Continue, Fault, Leaving, SendsReload
<1>4. CASE Head(prog).do = "wait"
  <2>1. Poll
    BY <1>4, ClientActions
  <2> QED
    BY <1>4, <2>1 DEF Poll, Continue, Throw, remote, HasReloaded, StaysSame, GivesUp
<1> QED
  BY <1>2, <1>3, <1>4

(* The writing part keeps what it promises of the two datasources.         *)
LEMMA ValidatedKept ==
  ASSUME NEW d \in Seq(Words), NEW x \in Seq(Words), Len(d) = 2, Len(x) = 2,
         prog \in Seq(Instructions), prog # <<>>, Validated(d, x),
         WritesOne \/ SendsReload \/ HasReloaded \/ StaysSame
  PROVE  Validated(d, x)'
<1>1. CASE StaysSame
  BY <1>1 DEF StaysSame, Validated, SentAndReloading, Coming
<1>2. CASE WritesOne \/ SendsReload \/ HasReloaded
  <2> DEFINE t == Tail(prog)
  <2>1. /\ Writing(t)
        /\ t # <<>> /\ Head(t).do = "wait" => Head(prog).do = "reinitialize"
        /\ Reloads(prog) /\ Head(prog).do # "wait" => Reloads(t)
        /\ \A p, a : Writes(prog, p, a) => \/ Writes(t, p, a)
                                           \/ Head(prog) = WriteOp(p, a) /\ Reloads(t)
    BY RestFacts DEF Validated
  <2>2. prog' = t /\ booted' = booted
    BY <1>2 DEF WritesOne, SendsReload, HasReloaded
  <2>3. Writing(prog)'
    BY <2>1, <2>2
  <2>4. SentAndReloading'
    BY <1>2, <2>1, <2>2 DEF SentAndReloading, WritesOne, SendsReload, HasReloaded
  <2>5. Head(prog).do = "execute" => Head(prog).op = "write" /\ Len(Head(prog).at) = 3
    <3>1. Head(prog) = prog[1] /\ 1 \in 1..Len(prog)
      BY TailFacts, EmptySeq
    <3> QED
      BY <3>1 DEF Validated, Writing
  <2>6. \/ config' = config
        \/ WritesOne /\ config' = config \cup {Head(prog).at}
    BY <1>2, <2>5 DEF WritesOne, SendsReload, HasReloaded, Applied
  <2>7. ASSUME NEW p \in {d, x}
        PROVE  p \notin config' \/ \A a \in Range(Validation) : Coming(p, a)'
    <3>1. CASE p \notin config
      <4>1. WritesOne => Head(prog).at # p
        <5>1. p = d \/ p = x
          BY <2>7
        <5>2. Len(p) = 2
          BY <5>1
        <5>3. WritesOne => Len(Head(prog).at) = 3
          BY <2>5 DEF WritesOne
        <5>4. Len(p) # 3
          BY <5>2
        <5> QED
          BY <5>3, <5>4
      <4> QED
        BY <2>6, <3>1, <4>1
    <3>2. ASSUME NEW a \in Range(Validation), Coming(p, a) PROVE Coming(p, a)'
      <4>1. CASE Append(p, a) \in booted /\ Append(p, a) \in config
        BY <2>2, <2>6, <4>1 DEF Coming
      <4>2. CASE Append(p, a) \in config /\ Reloads(prog)
        <5>1. CASE HasReloaded
          <6>1. booted = config
            BY <5>1 DEF HasReloaded, Validated, SentAndReloading
          <6> QED
            BY <4>2, <5>1, <6>1 DEF HasReloaded, Coming
        <5>2. CASE ~HasReloaded
          <6>1. Head(prog).do # "wait"
            BY <1>2, <5>2 DEF WritesOne, SendsReload
          <6> QED
            BY <2>1, <2>2, <2>6, <4>2, <6>1 DEF Coming
        <5> QED
          BY <5>1, <5>2
      <4>3. CASE Writes(prog, p, a)
        <5>1. CASE Writes(t, p, a)
          BY <2>2, <5>1 DEF Coming
        <5>2. CASE Head(prog) = WriteOp(p, a) /\ Reloads(t)
          <6>1. Head(prog).do = "execute" /\ Head(prog).at = Append(p, a)
            BY <5>2 DEF WriteOp
          <6>2. Append(p, a) \in config'
            BY <1>2, <2>5, <6>1 DEF WritesOne, SendsReload, HasReloaded, Applied
          <6> QED
            BY <2>2, <5>2, <6>2 DEF Coming
        <5> QED
          BY <2>1, <4>3, <5>1, <5>2
      <4> QED
        BY <3>2, <4>1, <4>2, <4>3 DEF Coming
    <3> QED
      BY <3>1, <3>2 DEF Validated
  <2> QED
    BY <2>3, <2>4, <2>7 DEF Validated
<1> QED
  BY <1>1, <1>2

(* A step of the client in setDatasourceConnectionValidation.              *)
LEMMA ValidationStep ==
  ASSUME BatchInv, Client, ~isBatchMode, faults' = 0,
         NEW n \in Names, NEW d, NEW x, d = DataSource(n), x = XaDataSource(n),
         prog = AskingBoth(d, x) \/ AskingXa(d, x) \/ Validated(d, x)
  PROVE  GivesUp \/ AskingXa(d, x)' \/ Validated(d, x)'
<1> DEFINE vd == SetValidationAttributes(d)
           vx == SetValidationAttributes(x)
           qa == IfDefined(x, vd \o vx, vd)
           qb == IfDefined(x, <<>> \o vx, <<>>)
<1>1. /\ d \in Seq(Words) /\ x \in Seq(Words) /\ Len(d) = 2 /\ Len(x) = 2
      /\ \A s \in {vd \o vx, vd, <<>> \o vx} : Writing(s) /\ s # <<>> /\ Head(s).do = "execute"
      /\ Writing(<<>>)
      /\ \A a \in Range(Validation) : /\ Writes(vd \o vx, d, a) /\ Writes(vd, d, a)
                                     /\ Writes(vd \o vx, x, a) /\ Writes(<<>> \o vx, x, a)
      /\ \A s \in {vd \o vx, vd, <<>> \o vx, <<>>} : s \o <<>> = s
  BY AnswersGood
<1>2. /\ prog # <<>> /\ faults \in Nat /\ prog \in Seq(Instructions)
  BY ClientActions DEF BatchInv
<1>3. CASE prog = AskingBoth(d, x)
  <2>1. prog = <<IfDefined(d, <<qa>>, <<qb>>)>>
    BY <1>3 DEF AskingBoth
  <2> HIDE DEF qa, qb
  <2>2. /\ Head(prog).do = "isDefined" /\ Tail(prog) = <<>>
        /\ Head(prog).at = d /\ Head(prog).yes = <<qa>> /\ Head(prog).no = <<qb>>
    BY <2>1 DEF IfDefined
  <2>3. <<qa>> \o <<>> = <<qa>> /\ <<qb>> \o <<>> = <<qb>>
    <3>1. <<qa>> \in Seq({qa, qb}) /\ <<qb>> \in Seq({qa, qb})
      OBVIOUS
    <3> QED
      BY <3>1, ConcatEmptySeq
  <2>4. IsDefined
    BY <2>2, ClientActions
  <2>5. /\ config' = config
        /\ \/ prog' = (IF Head(prog).at \in config THEN Head(prog).yes ELSE Head(prog).no) \o <<>>
           \/ GivesUp
    BY <1>2, <2>2, <2>4, QuestionFacts DEF GivesUp
  <2>6. GivesUp \/ prog' = <<qa>> \/ (prog' = <<qb>> /\ d \notin config')
    BY <2>2, <2>3, <2>5
  <2> QED
    BY <2>6 DEF AskingXa, qa, qb
<1>4. CASE AskingXa(d, x)
  <2> HIDE DEF vd, vx
  <2>1. prog = <<qa>> \/ (prog = <<qb>> /\ d \notin config)
    BY <1>4 DEF AskingXa, vd, vx
  <2>2. /\ Head(prog).do = "isDefined" /\ Tail(prog) = <<>> /\ Head(prog).at = x
        /\ \/ Head(prog).yes = vd \o vx /\ Head(prog).no = vd
           \/ Head(prog).yes = <<>> \o vx /\ Head(prog).no = <<>> /\ d \notin config
    <3>1. CASE prog = <<qa>>
      <4>1. Head(prog) = qa /\ Tail(prog) = <<>>
        BY <3>1
      <4> QED
        BY <4>1 DEF IfDefined
    <3>2. CASE prog = <<qb>> /\ d \notin config
      <4>1. Head(prog) = qb /\ Tail(prog) = <<>>
        BY <3>2
      <4> QED
        BY <3>2, <4>1 DEF IfDefined
    <3> QED
      BY <2>1, <3>1, <3>2
  <2>3. IsDefined
    BY <2>2, ClientActions
  <2>4. /\ config' = config
        /\ \/ prog' = (IF Head(prog).at \in config THEN Head(prog).yes ELSE Head(prog).no) \o <<>>
           \/ GivesUp
    BY <1>2, <2>2, <2>3, QuestionFacts DEF GivesUp
  <2>5. \/ GivesUp
        \/ prog' = vd \o vx
        \/ prog' = vd /\ x \notin config'
        \/ prog' = <<>> \o vx /\ d \notin config'
        \/ prog' = <<>> /\ x \notin config' /\ d \notin config'
    BY <1>1, <2>2, <2>4
  <2>6. ~GivesUp => Writing(prog') /\ (prog' # <<>> => Head(prog').do = "execute")
    BY <1>1, <2>5
  <2>7. ~GivesUp => \A p \in {d, x} : p \notin config' \/ \A a \in Range(Validation) : Writes(prog', p, a)
    BY <1>1, <2>5
  <2> QED
    BY <2>6, <2>7 DEF Validated, SentAndReloading, Coming
<1>5. CASE Validated(d, x)
  <2>1. Head(prog).do \in {"execute", "reinitialize", "wait"}
    <3>1. Head(prog) = prog[1] /\ 1 \in 1..Len(prog)
      BY <1>2, TailFacts, EmptySeq
    <3> QED
      BY <1>5, <3>1 DEF Validated, Writing
  <2> QED
    BY <1>1, <1>2, <1>5, <2>1, WritingKinds, ValidatedKept
<1> QED
  BY <1>3, <1>4, <1>5

(* Every step keeps the invariant of the validation.                       *)
LEMMA ValidationInductive ==
  ASSUME BatchInv, ValidationInv, [Next]_vars
  PROVE  ValidationInv'
<1>1. CASE Client
  <2> SUFFICES ASSUME call[1] = "setDatasourceConnectionValidation", Sound',
                      NEW d, NEW x, d = DataSource(call[2]), x = XaDataSource(call[2])
               PROVE  GivesUp \/ AskingXa(d, x)' \/ Validated(d, x)'
    <3>1. call' = call
      BY <1>1, ClientKinds DEF caller
    <3> QED
      BY <3>1 DEF ValidationInv, GivesUp
  <2>1. /\ call' = call /\ prog # <<>> /\ faults \in Nat
        /\ faults' = 0 /\ faults' \in {faults, faults + 1} /\ call[2] \in Names
    BY <1>1, ClientKinds DEF caller, BatchInv, Sound, Methods
  <2>2. Sound /\ ~isBatchMode
    <3>1. call[1] \notin Opening
      BY DEF Opening
    <3> QED
      BY <1>1, <2>1, <3>1, ModeKept DEF Sound
  <2>3. prog = AskingBoth(d, x) \/ AskingXa(d, x) \/ Validated(d, x)
    BY <2>1, <2>2 DEF ValidationInv
  <2> QED
    BY <1>1, <2>1, <2>2, <2>3, ValidationStep
<1>2. ASSUME NEW m \in Methods, Call(m) PROVE ValidationInv'
  <2>1. prog' = Program(m) /\ call' = m
    BY <1>2 DEF Call
  <2>2. m[1] = "setDatasourceConnectionValidation" =>
          Program(m) = SetDatasourceConnectionValidation(m[2])
    BY DEF Program
  <2>3. SetDatasourceConnectionValidation(m[2]) = AskingBoth(DataSource(m[2]), XaDataSource(m[2]))
    BY DEF SetDatasourceConnectionValidation, AskingBoth
  <2> QED
    BY <2>1, <2>2, <2>3 DEF ValidationInv
<1>3. CASE Boot
  <2>1. UNCHANGED <<prog, outcome, call, config, isBatchMode, faults>> /\ booted' = config /\ server' = "up"
    BY <1>3 DEF Boot, client, caller
  <2> QED
    BY <2>1 DEF ValidationInv, AskingBoth, AskingXa, Sound, Validated, SentAndReloading, Coming
<1>4. CASE GoDown
  <2>1. UNCHANGED <<prog, outcome, call, config, booted, isBatchMode, faults>> /\ server' = "down"
    BY <1>4 DEF GoDown, client, caller
  <2> QED
    BY <2>1 DEF ValidationInv, AskingBoth, AskingXa, Sound, Validated, SentAndReloading, Coming
<1>5. CASE UNCHANGED vars
  BY <1>5 DEF vars, client, caller, remote, ValidationInv, AskingBoth, AskingXa, Sound, Validated,
              SentAndReloading, Coming
<1> QED
  BY <1>1, <1>2, <1>3, <1>4, <1>5 DEF Next

-----------------------------------------------------------------------------
(* The theorems                                                            *)

(* The invariant holds before the first call.                              *)
LEMMA ClientInit == Init => ClientInv
<1> SUFFICES ASSUME Init PROVE ClientInv
  OBVIOUS
<1>1. BatchInv
  <2>1. <<>> \in Seq(Instructions) /\ <<>> \in Seq(Plain) /\ Balanced(<<>>)
    BY EmptySeq, PlainBalanced
  <2> QED
    BY <2>1 DEF Init, BatchInv
<1>2. RebootInv /\ ValidationInv
  BY DEF Init, RebootInv, ValidationInv
<1> QED
  BY <1>1, <1>2 DEF ClientInv

(* The invariant of the client's methods, through every sequence of calls, *)
(* refusals and faults: batches are closed by the program that opens them, *)
(* reboots are waited for once sent, and validation is written before the  *)
(* reload that puts it into effect.                                        *)
THEOREM ClientInvariant == Spec => []ClientInv
<1>1. ClientInv /\ [Next]_vars => ClientInv'
  BY BatchInductive, RebootInductive, ValidationInductive DEF ClientInv
<1> QED
  BY <1>1, ClientInit, PTL DEF Spec

(* A method that returns has done what it reports (ManagementOperations    *)
(* 541-552, 703-760 and 880-901): no batch mode is left behind that the    *)
(* caller did not start; without a fault and outside a batch the server    *)
(* has booted, and the validation that was asked for is in effect.         *)
THEOREM EndsAsReportedHolds == Spec => []EndsAsReported
<1>1. ASSUME ClientInv PROVE EndsAsReported
  <2>1. BatchClosed
    BY <1>1 DEF ClientInv, BatchInv, BatchClosed, Running, Closes
  <2>2. outcome = "ok" => prog = <<>>
    BY <1>1 DEF ClientInv, BatchInv
  <2>3. RebootedWithoutFaults
    <3> SUFFICES ASSUME Sound, outcome = "ok", call[1] \in {"reload", "restart", "stopAndStartServer"}
                 PROVE  rebooted
      BY DEF RebootedWithoutFaults, Sound
    <3> QED
      BY <1>1, <2>2 DEF ClientInv, RebootInv, Reported
  <2>4. ValidationEffective
    <3> SUFFICES ASSUME Sound, outcome = "ok", call[1] = "setDatasourceConnectionValidation",
                        NEW p \in {DataSource(call[2]), XaDataSource(call[2])}, p \in config,
                        NEW a \in Range(Validation)
                 PROVE  Append(p, a) \in booted
      BY DEF ValidationEffective, Sound
    <3>1. prog = <<>> /\ \A q : prog # <<q>>
      BY <2>2
    <3>2. Validated(DataSource(call[2]), XaDataSource(call[2]))
      BY <1>1, <3>1 DEF ClientInv, ValidationInv, AskingBoth, AskingXa
    <3>3. Coming(p, a)
      BY <3>2 DEF Validated
    <3>4. ~Reloads(prog) /\ ~Writes(prog, p, a)
      BY <3>1 DEF Reloads, Writes
    <3> QED
      BY <3>3, <3>4 DEF Coming
  <2> QED
    BY <2>1, <2>3, <2>4 DEF EndsAsReported
<1> QED
  BY <1>1, ClientInvariant, PTL

-----------------------------------------------------------------------------
(* XA datasources                                                          *)

(* Every xa-data-source that s makes gets its properties right after.      *)
Whole(s) ==
  \A i \in 1..Len(s), n \in Names : s[i] = AddOp(XaDataSource(n)) =>
    \A k \in 1..Len(Props) :
      i + k <= Len(s) /\ s[i + k] = AddOp(Append(XaDataSource(n), Props[k]))

(* A batch is open before the first instruction of s, if it is collecting, *)
(* or from its j-th on.                                                    *)
Opened(s, collecting, j) ==
  \/ j = 0 /\ collecting
  \/ j > 0 /\ s[j].do = "startBatch"

(* Each xa-data-source is made within a batch.                             *)
Covered(s, collecting) ==
  \A i \in 1..Len(s) : s[i] \in XaAdds =>
    \E j \in 0..(i - 1) : /\ Opened(s, collecting, j)
                          /\ \A h \in (j + 1)..(i - 1) : s[h].do = "execute"

Reinits  == [do : {"reinitialize"}, op : {"reload", "restart", "shutdown"}, at : Seq(Words)]
BatchOps == Operations \cup Reinits

(* What is made is made whole, in a batch, by what is left of the program; *)
(* a batch being collected is so together with that.                       *)
XaInv ==
  /\ XaComplete
  /\ Whole(prog) /\ Covered(prog, isBatchMode)
  /\ batch \in Seq(BatchOps)
  /\ isBatchMode => Whole(batch \o prog)

-----------------------------------------------------------------------------
(* An operation that makes an xa-data-source is one of XaAdds.             *)
LEMMA XaAddFacts ==
  /\ \A n \in Names : AddOp(XaDataSource(n)) \in XaAdds
  /\ \A o \in XaAdds : o.do = "execute" /\ \E n \in Names : o = AddOp(XaDataSource(n))
<1>1. \A n \in Names : XaDataSource(n) \in XaPaths
  BY DEF XaPaths
<1>2. \A p \in XaPaths : \E n \in Names : p = XaDataSource(n)
  BY DEF XaPaths
<1>3. \A o \in XaAdds : \E p \in XaPaths : o = AddOp(p)
  BY DEF XaAdds
<1>4. \A p : AddOp(p).do = "execute"
  BY DEF AddOp
<1>5. \A p \in XaPaths : AddOp(p) \in XaAdds
  BY DEF XaAdds
<1> HIDE DEF XaAdds
<1> QED
  BY <1>1, <1>2, <1>3, <1>4, <1>5

(* A sequence that makes no xa-data-source.                                *)
LEMMA NoneWhole ==
  ASSUME NEW s, \A i \in 1..Len(s) : s[i] \notin XaAdds
  PROVE  Whole(s) /\ \A c : Covered(s, c)
BY XaAddFacts DEF Whole, Covered

(* Two sequences that make xa-data-sources whole, one after the other.     *)
LEMMA WholeJoined ==
  ASSUME NEW S, NEW s \in Seq(S), NEW t \in Seq(S), Whole(s), Whole(t)
  PROVE  Whole(s \o t)
<1> DEFINE u == s \o t
<1>1. /\ Len(u) = Len(s) + Len(t) /\ Len(s) \in Nat /\ Len(t) \in Nat
      /\ \A i \in 1..Len(s) : u[i] = s[i]
      /\ \A i \in 1..Len(t) : u[Len(s) + i] = t[i]
  BY Joined
<1>2. Len(Props) \in Nat
  BY ManagementAssumption, LenProperties
<1> HIDE DEF u
<1> SUFFICES ASSUME NEW i \in 1..Len(u), NEW n \in Names, u[i] = AddOp(XaDataSource(n)),
                    NEW k \in 1..Len(Props)
             PROVE  i + k <= Len(u) /\ u[i + k] = AddOp(Append(XaDataSource(n), Props[k]))
  BY DEF Whole, u
<1>3. CASE i <= Len(s)
  <2>1. i \in 1..Len(s) /\ s[i] = u[i]
    BY <1>1, <1>3
  <2>2. i + k <= Len(s) /\ s[i + k] = AddOp(Append(XaDataSource(n), Props[k]))
    BY <2>1 DEF Whole
  <2>3. i + k \in 1..Len(s)
    BY <1>1, <1>2, <2>1, <2>2
  <2> QED
    BY <1>1, <1>2, <2>2, <2>3
<1>4. CASE i > Len(s)
  <2> DEFINE b == i - Len(s)
  <2>1. b \in 1..Len(t) /\ Len(s) + b = i
    BY <1>1, <1>4
  <2> HIDE DEF b
  <2>2. t[b] = u[i]
    BY <1>1, <2>1
  <2>3. b + k <= Len(t) /\ t[b + k] = AddOp(Append(XaDataSource(n), Props[k]))
    BY <2>1, <2>2 DEF Whole
  <2>4. b + k \in 1..Len(t) /\ Len(s) + (b + k) = i + k
    <3>1. b \in Nat /\ k \in Nat /\ Len(s) \in Nat /\ Len(t) \in Nat
      BY <1>1, <1>2, <2>1
    <3>2. b >= 1 /\ k >= 1 /\ b + k <= Len(t) /\ Len(s) + b = i
      BY <1>2, <2>1, <2>3
    <3> QED
      BY <3>1, <3>2
  <2> QED
    BY <1>1, <1>2, <2>3, <2>4
<1> QED
  BY <1>1, <1>3, <1>4

(* What comes after an xa-data-source are operations: the part before      *)
(* another instruction makes its own whole.                                *)
LEMMA WholeCut ==
  ASSUME NEW S, NEW s \in Seq(S), NEW t \in Seq(S), Whole(s \o t),
         t = <<>> \/ t[1].do # "execute"
  PROVE  Whole(s)
<1> DEFINE u == s \o t
<1>1. /\ Len(u) = Len(s) + Len(t) /\ Len(s) \in Nat /\ Len(t) \in Nat
      /\ \A i \in 1..Len(s) : u[i] = s[i]
      /\ \A i \in 1..Len(t) : u[Len(s) + i] = t[i]
  BY Joined
<1>2. Len(Props) \in Nat
  BY ManagementAssumption, LenProperties
<1>3. Whole(u)
  OBVIOUS
<1>4. Len(t) = 0 \/ t[1].do # "execute"
  OBVIOUS
<1> HIDE DEF u
<1> SUFFICES ASSUME NEW i \in 1..Len(s), NEW n \in Names, s[i] = AddOp(XaDataSource(n)),
                    NEW k \in 1..Len(Props)
             PROVE  i + k <= Len(s) /\ s[i + k] = AddOp(Append(XaDataSource(n), Props[k]))
  BY DEF Whole
<1>5. i \in 1..Len(u) /\ u[i] = AddOp(XaDataSource(n))
  BY <1>1
<1>6. \A h \in 1..Len(Props) :
        i + h <= Len(u) /\ u[i + h] = AddOp(Append(XaDataSource(n), Props[h]))
  BY <1>3, <1>5 DEF Whole
<1>7. i + k <= Len(s)
  <2> SUFFICES ASSUME i + k > Len(s) PROVE FALSE
    BY <1>1, <1>2
  <2> DEFINE h == Len(s) + 1 - i
  <2>1. h \in 1..Len(Props) /\ i + h = Len(s) + 1
    BY <1>1, <1>2
  <2> HIDE DEF h
  <2>2. u[Len(s) + 1] = AddOp(Append(XaDataSource(n), Props[h])) /\ Len(s) + 1 <= Len(u)
    BY <1>6, <2>1
  <2>3. 1 \in 1..Len(t)
    BY <1>1, <2>2
  <2>4. t[1].do = "execute"
    BY <1>1, <2>2, <2>3 DEF AddOp
  <2> QED
    BY <1>1, <1>4, <2>3, <2>4
<1>8. i + k \in 1..Len(s)
  BY <1>1, <1>2, <1>7
<1> QED
  BY <1>1, <1>6, <1>7, <1>8

(* The rest of a program: one that makes its xa-data-sources whole and     *)
(* within batches does so after its first instruction as well.             *)
LEMMA XaTail ==
  ASSUME NEW S, NEW s \in Seq(S), s # <<>>
  PROVE  /\ Whole(s) => Whole(Tail(s))
         /\ \A c : Covered(s, c) /\ Head(s).do = "execute" => Covered(Tail(s), c)
         /\ \A c : Covered(s, c) /\ Head(s).do = "startBatch" => Covered(Tail(s), TRUE)
         /\ \A c : /\ Covered(s, c) /\ Head(s).do \notin {"execute", "startBatch"}
                   => \A e : Covered(Tail(s), e)
         /\ Covered(s, FALSE) => Head(s) \notin XaAdds
<1> DEFINE t == Tail(s)
<1>1. /\ Len(t) = Len(s) - 1 /\ \A i \in 1..Len(t) : t[i] = s[i + 1]
      /\ Len(s) \in Nat \ {0} /\ Head(s) = s[1]
  BY HeadTailProperties, EmptySeq DEF Head
<1>2. Len(Props) \in Nat
  BY ManagementAssumption, LenProperties
<1> HIDE DEF t
<1>3. ASSUME Whole(s) PROVE Whole(t)
  <2> SUFFICES ASSUME NEW i \in 1..Len(t), NEW n \in Names, t[i] = AddOp(XaDataSource(n)),
                      NEW k \in 1..Len(Props)
               PROVE  i + k <= Len(t) /\ t[i + k] = AddOp(Append(XaDataSource(n), Props[k]))
    BY DEF Whole
  <2>1. i + 1 \in 1..Len(s) /\ s[i + 1] = AddOp(XaDataSource(n))
    BY <1>1
  <2>2. (i + 1) + k <= Len(s) /\ s[(i + 1) + k] = AddOp(Append(XaDataSource(n), Props[k]))
    BY <1>3, <2>1 DEF Whole
  <2>3. i + k \in 1..Len(t) /\ (i + 1) + k = (i + k) + 1
    BY <1>1, <1>2, <2>2
  <2> QED
    BY <1>1, <2>2, <2>3
<1>4. ASSUME NEW c, NEW e, Covered(s, c),
             \/ Head(s).do = "execute" /\ e = c
             \/ Head(s).do = "startBatch" /\ e = TRUE
             \/ Head(s).do \notin {"execute", "startBatch"}
      PROVE  Covered(t, e)
  <2> SUFFICES ASSUME NEW i \in 1..Len(t), t[i] \in XaAdds
               PROVE  \E j \in 0..(i - 1) : /\ Opened(t, e, j)
                                            /\ \A h \in (j + 1)..(i - 1) : t[h].do = "execute"
    BY DEF Covered
  <2>1. i + 1 \in 1..Len(s) /\ s[i + 1] \in XaAdds /\ (i + 1) - 1 = i
    BY <1>1
  <2>2. PICK j \in 0..i : /\ Opened(s, c, j)
                          /\ \A h \in (j + 1)..i : s[h].do = "execute"
    BY <1>4, <2>1 DEF Covered
  <2>3. CASE j >= 2
    <3>1. j - 1 \in 0..(i - 1) /\ j - 1 \in 1..Len(t) /\ (j - 1) + 1 = j /\ j - 1 > 0
      BY <1>1, <2>2, <2>3
    <3>2. t[j - 1].do = "startBatch"
      BY <1>1, <2>2, <2>3, <3>1 DEF Opened
    <3>3. ASSUME NEW h \in ((j - 1) + 1)..(i - 1) PROVE t[h].do = "execute"
      <4>1. h \in 1..Len(t) /\ h + 1 \in (j + 1)..i
        BY <1>1, <2>2, <2>3, <3>3
      <4> QED
        BY <1>1, <2>2, <4>1
    <3> QED
      BY <3>1, <3>2, <3>3 DEF Opened
  <2>4. CASE j = 1
    <3>1. s[1].do = "startBatch" /\ \A h \in 2..i : s[h].do = "execute"
      BY <2>2, <2>4 DEF Opened
    <3>2. e = TRUE
      BY <1>1, <1>4, <3>1
    <3>3. ASSUME NEW h \in 1..(i - 1) PROVE t[h].do = "execute"
      <4>1. h \in 1..Len(t) /\ h + 1 \in 2..i
        BY <1>1, <3>3
      <4> QED
        BY <1>1, <3>1, <4>1
    <3> QED
      BY <3>2, <3>3 DEF Opened
  <2>5. CASE j = 0
    <3>1. c /\ \A h \in 1..i : s[h].do = "execute"
      BY <2>2, <2>5 DEF Opened
    <3>2. 1 \in 1..i
      OBVIOUS
    <3>3. e = c
      BY <1>1, <1>4, <3>1, <3>2
    <3>4. ASSUME NEW h \in 1..(i - 1) PROVE t[h].do = "execute"
      <4>1. h \in 1..Len(t) /\ h + 1 \in 1..i
        BY <1>1, <3>4
      <4> QED
        BY <1>1, <3>1, <4>1
    <3>5. e
      BY <3>1, <3>3
    <3> QED
      BY <3>4, <3>5 DEF Opened
  <2> QED
    BY <2>2, <2>3, <2>4, <2>5
<1>5. ASSUME Covered(s, FALSE) PROVE Head(s) \notin XaAdds
  <2>1. 1 \in 1..Len(s) /\ 1 - 1 = 0
    BY <1>1
  <2>2. ~ \E j \in 0..0 : Opened(s, FALSE, j)
    BY DEF Opened
  <2> QED
    BY <1>1, <1>5, <2>1, <2>2 DEF Covered
<1>6. \A c : /\ Covered(s, c) /\ Head(s).do \notin {"execute", "startBatch"}
             => \A e : Covered(t, e)
  BY <1>4
<1>7. \A c : Covered(s, c) /\ Head(s).do = "execute" => Covered(t, c)
  BY <1>4
<1>8. \A c : Covered(s, c) /\ Head(s).do = "startBatch" => Covered(t, TRUE)
  BY <1>4
<1> QED
  BY <1>3, <1>5, <1>6, <1>7, <1>8 DEF t

(* Two programs that make their xa-data-sources within batches.            *)
LEMMA CoveredJoined ==
  ASSUME NEW S, NEW s \in Seq(S), NEW t \in Seq(S), NEW c, Covered(s, c), Covered(t, FALSE)
  PROVE  Covered(s \o t, c)
<1> DEFINE u == s \o t
<1>1. /\ Len(u) = Len(s) + Len(t) /\ Len(s) \in Nat /\ Len(t) \in Nat
      /\ \A i \in 1..Len(s) : u[i] = s[i]
      /\ \A i \in 1..Len(t) : u[Len(s) + i] = t[i]
  BY Joined
<1> HIDE DEF u
<1> SUFFICES ASSUME NEW i \in 1..Len(u), u[i] \in XaAdds
             PROVE  \E j \in 0..(i - 1) : /\ Opened(u, c, j)
                                          /\ \A h \in (j + 1)..(i - 1) : u[h].do = "execute"
  BY DEF Covered, u
<1>3. CASE i <= Len(s)
  <2>1. i \in 1..Len(s) /\ s[i] \in XaAdds
    BY <1>1, <1>3
  <2>2. PICK j \in 0..(i - 1) : /\ Opened(s, c, j)
                                /\ \A h \in (j + 1)..(i - 1) : s[h].do = "execute"
    BY <2>1 DEF Covered
  <2>3. \A h \in 1..(i - 1) : u[h] = s[h]
    BY <1>1, <2>1
  <2>4. Opened(u, c, j)
    BY <2>2, <2>3 DEF Opened
  <2>5. \A h \in (j + 1)..(i - 1) : u[h].do = "execute"
    BY <2>2, <2>3
  <2> QED
    BY <2>4, <2>5
<1>4. CASE i > Len(s)
  <2> DEFINE b == i - Len(s)
  <2>1. b \in 1..Len(t) /\ Len(s) + b = i
    BY <1>1, <1>4
  <2> HIDE DEF b
  <2>2. t[b] \in XaAdds
    BY <1>1, <2>1
  <2>3. PICK j \in 0..(b - 1) : /\ Opened(t, FALSE, j)
                                /\ \A h \in (j + 1)..(b - 1) : t[h].do = "execute"
    BY <2>1, <2>2 DEF Covered
  <2>4. j \in 1..Len(t) /\ t[j].do = "startBatch"
    BY <1>1, <2>1, <2>3 DEF Opened
  <2>5. Len(s) + j \in 0..(i - 1) /\ Len(s) + j > 0 /\ u[Len(s) + j] = t[j]
    BY <1>1, <2>1, <2>3, <2>4
  <2>6. Opened(u, c, Len(s) + j)
    BY <2>4, <2>5 DEF Opened
  <2>7. ASSUME NEW h \in (Len(s) + j + 1)..(i - 1) PROVE u[h].do = "execute"
    <3> DEFINE g == h - Len(s)
    <3>1. g \in (j + 1)..(b - 1) /\ g \in 1..Len(t) /\ Len(s) + g = h
      BY <1>1, <2>1, <2>4, <2>7
    <3> HIDE DEF g
    <3> QED
      BY <1>1, <2>3, <3>1
  <2> QED
    BY <2>5, <2>6, <2>7
<1> QED
  BY <1>1, <1>3, <1>4

(* Nothing but addXADataSource makes one.                                  *)
LEMMA NotXaAdds ==
  /\ \A o \in Execs : o \notin XaAdds
  /\ \A i \in Plain : i \notin XaAdds
  /\ \A i \in Batching : i \notin XaAdds
  /\ \A o \in Reinits : o \notin XaAdds
<1>1. \A o \in XaAdds : o.do = "execute" /\ o.op = "add" /\ o.at \in XaPaths
  BY DEF XaAdds, AddOp
<1>2. \A o \in Execs : o \notin XaAdds
  <2>1. \A o \in Execs : Tame(o)
    BY DEF Execs
  <2> QED
    BY <1>1, <2>1 DEF Tame
<1>3. \A i \in Plain : i.do = "execute" => i \in Execs
  BY DEF Plain, Branching, Simple, Ask, Wait, AwaitStop, Start
<1>4. \A i \in Batching : i.do # "execute"
  BY DEF Batching, StartBatch, RunBatch, CancelBatch
<1>5. \A o \in Reinits : o.do # "execute"
  BY DEF Reinits
<1> HIDE DEF XaAdds, Execs, Plain, Batching, Reinits
<1> QED
  BY <1>1, <1>2, <1>3, <1>4, <1>5

(* Programs without xa-data-sources.                                       *)
LEMMA PlainXa ==
  ASSUME NEW s \in Seq(Plain)
  PROVE  Whole(s) /\ \A c : Covered(s, c)
<1>1. \A i \in 1..Len(s) : s[i] \notin XaAdds
  BY ElementOfSeq, NotXaAdds
<1> QED
  BY <1>1, NoneWhole

(* addXADataSource adds the datasource and its properties in one batch.    *)
LEMMA AddsWhole ==
  ASSUME NEW n \in Names
  PROVE  Whole(AddXADataSource(n)) /\ \A c : Covered(AddXADataSource(n), c)
<1> DEFINE x == XaDataSource(n)
           a == <<StartBatch, AddOp(x)>>
           b == [i \in 1..Len(Props) |-> AddOp(Append(x, Props[i]))]
           r == <<RunBatch>>
           w == [i \in 1..Len(RecoveryPlugin) |-> WriteOp(x, RecoveryPlugin[i])]
           d == IF n \in Db2 THEN w ELSE <<>>
           ab == a \o b
<1>1. AddXADataSource(n) = (ab \o r) \o d
  BY DEF AddXADataSource, Each
<1>2. x \in Resources /\ x \in XaPaths /\ RecoveryPlugin \in Seq(Words)
  <2>1. RecoveryPlugin[1] \in Words /\ RecoveryPlugin[2] \in Words
    BY WordFacts DEF RecoveryPlugin
  <2> QED
    BY <2>1, PathFacts DEF RecoveryPlugin, XaPaths
<1>3. a \in Seq(Instructions) /\ r \in Seq(Instructions) /\ Len(a) = 2
  BY <1>2 DEF Instructions, Batching, XaAdds
<1>4. b \in Seq(Execs) /\ d \in Seq(Execs)
  <2>1. b \in Seq(Execs) /\ w \in Seq(Execs)
    BY <1>2, WordFacts, EachFacts
  <2> QED
    BY <2>1, EmptySeq
<1>5. b \in Seq(Instructions) /\ d \in Seq(Plain) /\ d \in Seq(Instructions)
  BY <1>4, InstructionFacts, SeqMonotonic
<1>6. Len(b) = Len(Props) /\ Len(Props) \in Nat /\ \A i \in 1..Len(Props) : b[i] = AddOp(Append(x, Props[i]))
  BY WordFacts, LenProperties
<1>7. \A i \in 1..Len(Props) : b[i] \notin XaAdds /\ b[i].do = "execute"
  <2>1. \A i \in 1..Len(b) : b[i] \in Execs
    BY <1>4, ElementOfSeq
  <2> QED
    BY <1>6, <2>1, NotXaAdds DEF Execs
<1>8. a[1] = StartBatch /\ a[2] = AddOp(x)
  OBVIOUS
<1> HIDE DEF a, b, r, d, x
<1>9. /\ ab \in Seq(Instructions) /\ Len(ab) = 2 + Len(Props)
      /\ \A i \in 1..2 : ab[i] = a[i]
      /\ \A i \in 1..Len(Props) : ab[2 + i] = b[i]
  <2>1. /\ ab \in Seq(Instructions) /\ Len(ab) = Len(a) + Len(b)
        /\ \A i \in 1..Len(a) : ab[i] = a[i]
        /\ \A i \in 1..Len(b) : ab[Len(a) + i] = b[i]
    <3>1. a \in Seq(Instructions) /\ b \in Seq(Instructions)
      BY <1>3, <1>5
    <3>2. \A u, v \in Seq(Instructions) :
            /\ u \o v \in Seq(Instructions) /\ Len(u \o v) = Len(u) + Len(v)
            /\ \A i \in 1..Len(u) : (u \o v)[i] = u[i]
            /\ \A i \in 1..Len(v) : (u \o v)[Len(u) + i] = v[i]
      BY Joined
    <3> QED
      BY <3>1, <3>2
  <2> HIDE DEF ab
  <2> QED
    BY <1>3, <1>6, <2>1
<1>10. ab[1] = StartBatch /\ ab[2] = AddOp(x)
  BY <1>8, <1>9
<1> HIDE DEF ab
<1>11. \A i \in 1..Len(ab) : ab[i] \in XaAdds => i = 2
  <2>1. \A i \in 1..Len(ab) : i = 1 \/ i = 2 \/ (i - 2 \in 1..Len(Props) /\ 2 + (i - 2) = i)
    BY <1>6, <1>9
  <2>2. ab[1] \notin XaAdds
    BY <1>10, NotXaAdds DEF Batching
  <2> QED
    BY <1>7, <1>9, <2>1, <2>2
<1>12. Whole(ab)
  <2> SUFFICES ASSUME NEW i \in 1..Len(ab), NEW m \in Names, ab[i] = AddOp(XaDataSource(m)),
                      NEW k \in 1..Len(Props)
               PROVE  i + k <= Len(ab) /\ ab[i + k] = AddOp(Append(XaDataSource(m), Props[k]))
    BY DEF Whole
  <2>1. i = 2
    BY <1>11, XaAddFacts
  <2>2. XaDataSource(m) = x
    BY <1>10, <2>1 DEF AddOp
  <2>3. ab[2 + k] = AddOp(Append(x, Props[k])) /\ 2 + k <= Len(ab)
    BY <1>6, <1>9
  <2> QED
    BY <2>1, <2>2, <2>3
<1>13. ASSUME NEW c PROVE Covered(ab, c)
  <2>1. Opened(ab, c, 1) /\ 1 \in 0..(2 - 1) /\ \A h \in (1 + 1)..(2 - 1) : ab[h].do = "execute"
    BY <1>10 DEF Opened, StartBatch
  <2> QED
    BY <1>11, <2>1 DEF Covered
<1>14. Whole(r) /\ \A c : Covered(r, c)
  <2>1. \A i \in 1..Len(r) : r[i] \notin XaAdds
    BY NotXaAdds DEF r, Batching
  <2> QED
    BY <2>1, NoneWhole
<1>15. Whole(d) /\ \A c : Covered(d, c)
  BY <1>5, PlainXa
<1>16. ab \o r \in Seq(Instructions) /\ Whole(ab \o r) /\ \A c : Covered(ab \o r, c)
  BY <1>3, <1>9, <1>12, <1>13, <1>14, Joined, WholeJoined, CoveredJoined
<1>17. Whole((ab \o r) \o d) /\ \A c : Covered((ab \o r) \o d, c)
  BY <1>5, <1>15, <1>16, WholeJoined, CoveredJoined
<1> QED
  BY <1>1, <1>17

(* So does the program of every method.                                    *)
LEMMA ProgramXa ==
  ASSUME NEW m \in Methods
  PROVE  Whole(Program(m)) /\ \A c : Covered(Program(m), c)
<1>1. CASE m[1] = "addXADataSource"
  <2>1. m[2] \in Names
    BY <1>1 DEF Methods
  <2> QED
    BY <1>1, <2>1, AddsWhole DEF Program
<1>2. CASE m[1] \in {"startBatch", "runBatch", "cancelBatch"}
  <2>1. \/ Program(m) = <<StartBatch>> \/ Program(m) = <<RunBatch>> \/ Program(m) = <<CancelBatch>>
    BY <1>2 DEF Program
  <2>2. \A i \in 1..Len(Program(m)) : Program(m)[i] \notin XaAdds
    BY <2>1, NotXaAdds DEF Batching
  <2> QED
    BY <2>2, NoneWhole
<1>3. CASE m[1] \notin Opening
  BY <1>3, ProgramFacts, PlainXa
<1> QED
  BY <1>1, <1>2, <1>3 DEF Opening

-----------------------------------------------------------------------------
(* What operations do to the xa-data-sources.                              *)

(* An attribute of a resource: its path with one name more.                *)
LEMMA WordAppended ==
  \A p \in Seq(Words), a \in Words :
    /\ Append(p, a) \in Seq(Words) /\ Len(Append(p, a)) = Len(p) + 1
    /\ \A i \in 1..Len(p) : Append(p, a)[i] = p[i]
BY ONLY AppendProperties

(* A resource is the resource of its attributes, and of itself.            *)
LEMMA OfFacts ==
  ASSUME NEW p, NEW a, p \in Seq(Words), Len(p) = 2, a \in Words
  PROVE  Of(p) = p /\ Of(Append(p, a)) = p
<1>0. \A q \in Seq(Words) : Len(q) >= 2 =>
        /\ Of(q) \in Seq(Words) /\ Len(Of(q)) = 2 /\ Of(q)[1] = q[1] /\ Of(q)[2] = q[2]
  <2> SUFFICES ASSUME NEW q \in Seq(Words), Len(q) >= 2
               PROVE  /\ Of(q) \in Seq(Words) /\ Len(Of(q)) = 2
                      /\ Of(q)[1] = q[1] /\ Of(q)[2] = q[2]
    OBVIOUS
  <2>1. \A i \in 1..2 : q[i] \in Words
    BY LenProperties
  <2>2. /\ SubSeq(q, 1, 2) \in Seq(Words)
        /\ Len(SubSeq(q, 1, 2)) = IF 1 <= 2 THEN 2 - 1 + 1 ELSE 0
        /\ \A i \in 1..(2 - 1 + 1) : SubSeq(q, 1, 2)[i] = q[1 + i - 1]
    BY ONLY <2>1, SubSeqProperties
  <2> QED
    BY <2>2 DEF Of
<1>1. \A u, v \in Seq(Words) : Len(u) = 2 /\ Len(v) = 2 /\ u[1] = v[1] /\ u[2] = v[2] => u = v
  <2> SUFFICES ASSUME NEW u \in Seq(Words), NEW v \in Seq(Words), Len(u) = 2, Len(v) = 2,
                      u[1] = v[1], u[2] = v[2]
               PROVE  u = v
    OBVIOUS
  <2>1. \A i \in 1..Len(u) : u[i] = v[i]
    OBVIOUS
  <2> QED
    BY <2>1, SeqEqual
<1> DEFINE q == Append(p, a)
<1>2. q \in Seq(Words) /\ Len(q) = Len(p) + 1 /\ \A i \in 1..Len(p) : q[i] = p[i]
  BY WordAppended
<1> HIDE DEF q
<1>3. q \in Seq(Words) /\ Len(q) = 3 /\ q[1] = p[1] /\ q[2] = p[2]
  BY <1>2
<1>4. Of(q) = p
  BY <1>0, <1>1, <1>3
<1>5. Of(p) = p
  BY <1>0, <1>1
<1> QED
  BY <1>4, <1>5 DEF q

(* An operation that neither makes an xa-data-source nor clears a part of  *)
(* one leaves those it does not remove with what belongs to them.          *)
LEMMA TameApplied ==
  ASSUME NEW c, NEW o \in Execs \cup Reinits, NEW n \in Names,
         XaDataSource(n) \in Applied(o, c)
  PROVE  /\ XaDataSource(n) \in c
         /\ \A a \in Words : Append(XaDataSource(n), a) \in c
                               => Append(XaDataSource(n), a) \in Applied(o, c)
<1> DEFINE x == XaDataSource(n)
<1>1. x \in Seq(Words) /\ Len(x) = 2 /\ x \in XaPaths /\ x[1] = "xa-data-source"
  BY PathFacts, ResourceFacts DEF XaPaths, XaDataSource
<1>2. ASSUME NEW a \in Words
      PROVE  Of(x) = x /\ Of(Append(x, a)) = x /\ Append(x, a)[1] = "xa-data-source"
  <2>1. x \in Seq(Words) /\ Len(x) = 2
    BY <1>1
  <2> HIDE DEF x
  <2>2. Append(x, a)[1] = x[1]
    <3>1. \A i \in 1..Len(x) : Append(x, a)[i] = x[i]
      BY <1>2, <2>1, WordAppended
    <3> QED
      BY <2>1, <3>1
  <2> QED
    BY <1>1, <2>1, <2>2, OfFacts
<1>3. "jts" \in Words
  BY DEF Words
<1>4. Of(x) = x
  BY <1>2, <1>3
<1>5. /\ o.op \in {"add", "write"} => o.at \notin XaPaths
      /\ o.op = "clear" => o.at[1] # "xa-data-source"
  <2>1. CASE o \in Execs
    BY <2>1 DEF Execs, Tame
  <2>2. CASE o \in Reinits
    BY <2>2 DEF Reinits
  <2> QED
    BY <2>1, <2>2
<1> HIDE DEF x
<1>6. /\ o.op \in {"add", "write"} => Applied(o, c) = c \cup {o.at}
      /\ o.op = "clear"  => Applied(o, c) = c \ {o.at}
      /\ o.op = "remove" => Applied(o, c) = {p \in c : Of(p) # o.at}
      /\ o.op \notin {"add", "write", "clear", "remove"} => Applied(o, c) = c
  BY DEF Applied
<1>7. x \in Applied(o, c)
  BY DEF x
<1>8. x \in c
  BY <1>1, <1>5, <1>6, <1>7
<1>9. ASSUME NEW a \in Words, Append(x, a) \in c PROVE Append(x, a) \in Applied(o, c)
  <2> DEFINE y == Append(x, a)
  <2>1. Of(y) = x /\ y[1] = "xa-data-source" /\ y \in c
    BY <1>2, <1>9
  <2> HIDE DEF y
  <2>2. CASE o.op = "remove"
    BY <1>4, <1>6, <1>7, <2>1, <2>2 DEF y
  <2>3. CASE o.op = "clear"
    BY <1>5, <1>6, <2>1, <2>3 DEF y
  <2>4. CASE o.op \notin {"remove", "clear"}
    BY <1>6, <2>1, <2>4 DEF y
  <2> QED
    BY <2>2, <2>3, <2>4
<1> QED
  BY <1>8, <1>9 DEF x

-----------------------------------------------------------------------------
(* A composite, step by step                                               *)

(* A set of numbers has a least one.                                       *)
LEMMA LeastOf ==
  ASSUME NEW S, S \subseteq Nat, S # {}
  PROVE  \E n \in S : \A m \in S : n <= m
<1> DEFINE R == {ss \in Nat \X Nat : ss[1] < ss[2]}
<1>1. IsWellFoundedOn(R, Nat)
  BY NatLessThanWellFounded DEF OpToRel
<1>2. \A m, k \in Nat : m < k => <<m, k>> \in R
  OBVIOUS
<1> HIDE DEF R
<1>3. PICK n \in S : \A m \in S : ~ (<<m, n>> \in R)
  BY <1>1, WFMin
<1>4. ASSUME NEW m \in S PROVE n <= m
  <2>1. m \in Nat /\ n \in Nat /\ ~(m < n)
    BY <1>2, <1>3
  <2> QED
    BY <2>1
<1> QED
  BY <1>4

(* A set of numbers with 0 and the successor of each has them all.         *)
LEMMA AllNumbers ==
  ASSUME NEW G, 0 \in G, \A n \in Nat : n \in G => n + 1 \in G
  PROVE  Nat \subseteq G
<1> SUFFICES ASSUME Nat \ G # {} PROVE FALSE
  OBVIOUS
<1>1. PICK n \in Nat \ G : \A m \in Nat \ G : n <= m
  BY LeastOf
<1>2. n - 1 \in Nat /\ ~(n <= n - 1) /\ (n - 1) + 1 = n
  BY <1>1
<1>3. n - 1 \in G
  BY <1>1, <1>2
<1> QED
  BY <1>1, <1>2, <1>3

(* The result of a composite before its first step, and after one more.    *)
NoStep == [ok |-> TRUE, config |-> config]
NextStep(before, o) ==
  [ok     |-> before.ok /\ Accepted(o, before.config),
   config |-> Applied(o, before.config)]

(* The result of a composite is that of its last step.                     *)
LEMMA CompositeFacts ==
  ASSUME NEW steps, Len(steps) \in Nat
  PROVE  \E after : /\ Composite(steps) = after[Len(steps)]
                    /\ after[0] = NoStep
                    /\ \A i \in 1..Len(steps) : after[i] = NextStep(after[i - 1], steps[i])
<1> DEFINE Is(g, n) == g = [i \in 0..n |-> IF i = 0 THEN NoStep ELSE NextStep(g[i - 1], steps[i])]
           G == {n \in Nat : \E g : Is(g, n)}
<1>1. 0 \in G
  <2> DEFINE g == [i \in 0..0 |-> NoStep]
  <2>1. Is(g, 0)
    OBVIOUS
  <2> QED
    BY <2>1
<1>2. ASSUME NEW n \in Nat, n \in G PROVE n + 1 \in G
  <2>1. PICK g : Is(g, n)
    BY <1>2
  <2> DEFINE h == [i \in 0..(n + 1) |-> IF i <= n THEN g[i] ELSE NextStep(g[n], steps[n + 1])]
             k == [i \in 0..(n + 1) |-> IF i = 0 THEN NoStep ELSE NextStep(h[i - 1], steps[i])]
  <2>2. ASSUME NEW i \in 0..(n + 1) PROVE h[i] = k[i]
    <3>1. CASE i = 0
      <4>1. h[0] = g[0] /\ k[0] = NoStep /\ g[0] = NoStep
        BY <2>1
      <4> QED
        BY <3>1, <4>1
    <3>2. CASE i > 0 /\ i <= n
      <4>1. i - 1 \in 0..n /\ i \in 0..n /\ i # 0 /\ i - 1 \in 0..(n + 1)
        BY <3>2
      <4>2. h[i] = g[i] /\ h[i - 1] = g[i - 1]
        BY <4>1
      <4>3. g[i] = NextStep(g[i - 1], steps[i])
        BY <2>1, <4>1
      <4>4. k[i] = NextStep(h[i - 1], steps[i])
        BY <4>1
      <4> QED
        BY <4>2, <4>3, <4>4
    <3>3. CASE i = n + 1
      <4>1. i # 0 /\ i - 1 = n /\ n \in 0..(n + 1) /\ ~(i <= n)
        BY <3>3
      <4>2. h[n] = g[n] /\ h[i] = NextStep(g[n], steps[n + 1])
        BY <4>1
      <4>3. k[i] = NextStep(h[i - 1], steps[i])
        BY <4>1
      <4> QED
        BY <3>3, <4>1, <4>2, <4>3
    <3> QED
      BY <3>1, <3>2, <3>3
  <2>3. h = k
    <3> HIDE DEF Is
    <3> QED
      BY <2>2
  <2>4. Is(h, n + 1)
    BY <2>3
  <2> HIDE DEF Is, h, k
  <2> QED
    BY <2>4
<1>3. Len(steps) \in G
  <2> HIDE DEF Is, G
  <2>1. Nat \subseteq G
    BY <1>1, <1>2, AllNumbers
  <2> QED
    BY <2>1
<1> DEFINE after == CHOOSE g : Is(g, Len(steps))
<1>4. Is(after, Len(steps))
  <2> HIDE DEF Is
  <2>1. \E g : Is(g, Len(steps))
    BY <1>3
  <2> QED
    BY <2>1
<1>5. Composite(steps) = after[Len(steps)]
  BY DEF Composite, NoStep, NextStep
<1> HIDE DEF after
<1>6. after[0] = NoStep
  BY <1>4
<1>7. \A i \in 1..Len(steps) : after[i] = NextStep(after[i - 1], steps[i])
  BY <1>4
<1> QED
  BY <1>5, <1>6, <1>7

(* What is left to do after the first i steps of a composite: the          *)
(* properties of each xa-data-source that are not there yet.               *)
Promised(steps, c, i) ==
  \A n \in Names : XaDataSource(n) \in c =>
    \A k \in 1..Len(Props) :
      \/ Append(XaDataSource(n), Props[k]) \in c
      \/ \E j \in (i + 1)..Len(steps) : steps[j] = AddOp(Append(XaDataSource(n), Props[k]))

(* One more step keeps the promise.                                        *)
LEMMA StepKeepsPromise ==
  ASSUME NEW steps \in Seq(BatchOps), Whole(steps), NEW i \in 1..Len(steps),
         NEW c, Promised(steps, c, i - 1)
  PROVE  Promised(steps, Applied(steps[i], c), i)
<1> DEFINE o == steps[i]
           e == Applied(o, c)
<1>1. Len(steps) \in Nat /\ Len(Props) \in Nat /\ o \in BatchOps
  BY WordFacts, LenProperties, ElementOfSeq
<1>2. \A y : o = AddOp(y) => y \in e
  BY DEF Applied, AddOp
<1>3. o \in Execs \cup Reinits \/ \E m \in Names : o = AddOp(XaDataSource(m))
  BY <1>1, XaAddFacts DEF BatchOps, Operations
<1>4. \A m : o = AddOp(m) => e = c \cup {m}
  BY DEF Applied, AddOp
<1> SUFFICES ASSUME NEW n \in Names, XaDataSource(n) \in e, NEW k \in 1..Len(Props)
             PROVE  \/ Append(XaDataSource(n), Props[k]) \in e
                    \/ \E j \in (i + 1)..Len(steps) :
                         steps[j] = AddOp(Append(XaDataSource(n), Props[k]))
  BY DEF Promised
<1> DEFINE x == XaDataSource(n)
           y == Append(XaDataSource(n), Props[k])
<1>5. Props[k] \in Words
  BY WordFacts
<1>6. ASSUME x \in c, y \in c => y \in e
      PROVE  y \in e \/ \E j \in (i + 1)..Len(steps) : steps[j] = AddOp(y)
  <2>1. \/ y \in c
        \/ \E j \in ((i - 1) + 1)..Len(steps) : steps[j] = AddOp(y)
    BY <1>6 DEF Promised
  <2>2. CASE y \in c
    BY <1>6, <2>2
  <2>3. ASSUME NEW j \in ((i - 1) + 1)..Len(steps), steps[j] = AddOp(y)
        PROVE  y \in e \/ \E h \in (i + 1)..Len(steps) : steps[h] = AddOp(y)
    <3>1. j = i \/ j \in (i + 1)..Len(steps)
      BY <1>1
    <3>2. j = i => y \in e
      BY <1>2, <2>3
    <3> HIDE DEF y, e
    <3> QED
      BY <2>3, <3>1, <3>2
  <2> QED
    BY <2>1, <2>2, <2>3
<1>7. CASE o \in Execs \cup Reinits
  <2>1. x \in c /\ (y \in c => y \in e)
    BY <1>5, <1>7, TameApplied
  <2> QED
    BY <1>6, <2>1
<1>8. ASSUME NEW m \in Names, o = AddOp(XaDataSource(m))
      PROVE  y \in e \/ \E j \in (i + 1)..Len(steps) : steps[j] = AddOp(y)
  <2>1. e = c \cup {XaDataSource(m)}
    BY <1>4, <1>8
  <2>2. CASE x \in c
    BY <1>6, <2>1, <2>2
  <2>3. CASE x = XaDataSource(m)
    <3>1. i + k <= Len(steps) /\ steps[i + k] = AddOp(y)
      <4>1. o = AddOp(x)
        BY <1>8, <2>3
      <4> QED
        BY <4>1 DEF Whole
    <3>2. i + k \in (i + 1)..Len(steps)
      BY <1>1, <3>1
    <3> HIDE DEF y
    <3> QED
      BY <3>1, <3>2
  <2> QED
    BY <2>1, <2>2, <2>3
<1> QED
  BY <1>3, <1>7, <1>8

(* A composite that makes its xa-data-sources whole keeps all complete.    *)
LEMMA CompositeComplete ==
  ASSUME NEW steps \in Seq(BatchOps), Whole(steps), XaComplete
  PROVE  LET c == Composite(steps).config
         IN  \A n \in Names : XaDataSource(n) \in c =>
               \A p \in Range(Props) : Append(XaDataSource(n), p) \in c
<1>1. Len(steps) \in Nat
  BY LenProperties
<1>2. PICK after : /\ Composite(steps) = after[Len(steps)]
                   /\ after[0] = NoStep
                   /\ \A i \in 1..Len(steps) : after[i] = NextStep(after[i - 1], steps[i])
  BY <1>1, CompositeFacts
<1> DEFINE G == {i \in Nat : i <= Len(steps) => Promised(steps, after[i].config, i)}
<1>3. \A k \in 1..Len(Props) : Props[k] \in Range(Props)
  BY ManagementAssumption DEF Range
<1>4. 0 \in G
  <2>1. after[0].config = config
    BY <1>2 DEF NoStep
  <2>2. Promised(steps, config, 0)
    BY <1>3 DEF Promised, XaComplete
  <2> QED
    BY <2>1, <2>2
<1>5. ASSUME NEW i \in Nat, i \in G PROVE i + 1 \in G
  <2> SUFFICES ASSUME i + 1 <= Len(steps) PROVE Promised(steps, after[i + 1].config, i + 1)
    OBVIOUS
  <2>1. i + 1 \in 1..Len(steps) /\ (i + 1) - 1 = i /\ i <= Len(steps)
    BY <1>1
  <2>2. Promised(steps, after[i].config, i)
    BY <1>5, <2>1
  <2>3. after[i + 1].config = Applied(steps[i + 1], after[i].config)
    <3>1. after[i + 1] = NextStep(after[i], steps[i + 1])
      BY <1>2, <2>1
    <3> QED
      BY <3>1 DEF NextStep
  <2>4. Promised(steps, Applied(steps[i + 1], after[i].config), i + 1)
    BY <2>1, <2>2, StepKeepsPromise
  <2> QED
    BY <2>3, <2>4
<1>6. Promised(steps, Composite(steps).config, Len(steps))
  <2> HIDE DEF G
  <2>1. Nat \subseteq G
    BY <1>4, <1>5, AllNumbers
  <2>2. Len(steps) \in G
    BY <1>1, <2>1
  <2> QED
    BY <1>1, <1>2, <2>2 DEF G
<1>7. \A j : ~ (j \in (Len(steps) + 1)..Len(steps))
  BY <1>1
<1>8. \A p \in Range(Props) : \E k \in 1..Len(Props) : p = Props[k]
  BY ManagementAssumption DEF Range
<1> QED
  BY <1>6, <1>7, <1>8 DEF Promised

-----------------------------------------------------------------------------
(* Every step                                                              *)

(* Other operations than the one of addXADataSource keep them complete.    *)
LEMMA TameComplete ==
  ASSUME NEW o \in Execs, XaComplete, config' = Applied(o, config) \/ config' = config
  PROVE  XaComplete'
<1>1. CASE config' = config
  BY <1>1 DEF XaComplete
<1>2. CASE config' = Applied(o, config)
  <2> SUFFICES ASSUME NEW n \in Names, XaDataSource(n) \in config', NEW p \in Range(Props)
               PROVE  Append(XaDataSource(n), p) \in config'
    BY DEF XaComplete
  <2>1. p \in Words
    BY DEF Words
  <2>2. /\ XaDataSource(n) \in config
        /\ Append(XaDataSource(n), p) \in config => Append(XaDataSource(n), p) \in config'
    BY <1>2, <2>1, TameApplied
  <2> QED
    BY <2>2 DEF XaComplete
<1> QED
  BY <1>1, <1>2

(* Instructions by what they do.                                           *)
LEMMA KindFacts ==
  ASSUME NEW i \in Instructions
  PROVE  /\ i.do = "execute" => i \in Execs \cup XaAdds
         /\ i.do = "reinitialize" => i \in Reinits
         /\ i.do \in {"isDefined", "isResourceExists"} =>
              [do |-> "execute", op |-> "read", at |-> i.at] \in Execs
<1>1. \A j \in Batching : j.do \in {"startBatch", "runBatch", "cancelBatch"}
  BY DEF Batching, StartBatch, RunBatch, CancelBatch
<1>2. \A j \in XaAdds : j.do = "execute"
  BY XaAddFacts
<1>3. \A S : \A j \in Ask(S) : j.do \in {"isDefined", "isResourceExists"} /\ j.at \in Seq(Words)
  BY DEF Ask
<1>4. \A j \in Execs : j.do = "execute"
  BY DEF Execs
<1>5. \A j \in Simple : \/ j \in Execs \/ j \in Reinits
                        \/ j.do \in {"wait", "awaitStop", "start"}
  BY DEF Simple, Reinits, Wait, AwaitStop, Start
<1>6. \A j \in Reinits : j.do = "reinitialize"
  BY DEF Reinits
<1>7. \/ i \in Simple \/ i \in Ask(Simple) \/ i \in Ask(Branching)
      \/ i \in Batching \/ i \in XaAdds
  BY DEF Instructions, Plain, Branching
<1>8. \A p \in Seq(Words) : [do |-> "execute", op |-> "read", at |-> p] \in Execs
  BY DEF Execs, Tame, Ops
<1> HIDE DEF Execs, XaAdds, Reinits, Simple, Ask, Batching
<1>9. i.do \in {"isDefined", "isResourceExists"} => i.at \in Seq(Words)
  BY <1>1, <1>2, <1>3, <1>4, <1>5, <1>6, <1>7
<1>10. i.do = "execute" => i \in Execs \cup XaAdds
  BY <1>1, <1>3, <1>5, <1>6, <1>7
<1>11. i.do = "reinitialize" => i \in Reinits
  BY <1>1, <1>2, <1>3, <1>4, <1>5, <1>7
<1> QED
  BY <1>8, <1>9, <1>10, <1>11

(* The operations of a batch are instructions.                             *)
LEMMA BatchOpsFacts ==
  /\ Execs \cup Reinits \subseteq BatchOps /\ XaAdds \subseteq BatchOps
  /\ Seq(BatchOps) \subseteq Seq(Instructions)
  /\ <<>> \in Seq(BatchOps)
<1>1. Reinits \subseteq Simple
  BY DEF Reinits, Simple
<1>2. BatchOps \subseteq Instructions
  BY <1>1, InstructionFacts DEF BatchOps
<1> QED
  BY <1>2, SeqMonotonic, EmptySeq DEF BatchOps, Operations

(* What no operation of the client but executing and running a batch does: *)
(* it leaves the configuration alone, puts at most something harmless in   *)
(* the batch, and goes on, with or without an answer, or gives up.         *)
Moves ==
  /\ config' = config
  /\ batch' = batch \/ batch' = <<>> \/ \E r \in Execs \cup Reinits : batch' = Append(batch, r)
  /\ \/ prog' = <<>>
     \/ Head(prog).do = "startBatch" /\ prog' = Tail(prog) /\ isBatchMode' = TRUE
     \/ Head(prog).do # "startBatch" /\ \E u \in Seq(Plain) : prog' = u \o Tail(prog)
  /\ isBatchMode' => isBatchMode \/ batch' = <<>>

(* Such a move keeps the invariant.                                        *)
LEMMA MovesKeep ==
  ASSUME BatchInv, XaInv, prog # <<>>, Head(prog).do # "execute", Moves
  PROVE  XaInv'
<1>1. prog \in Seq(Instructions) /\ batch \in Seq(Instructions)
  BY BatchOpsFacts DEF BatchInv, XaInv
<1>2. /\ Tail(prog) \in Seq(Instructions) /\ Whole(Tail(prog)) /\ Head(prog) = prog[1]
      /\ Head(prog).do = "startBatch" => Covered(Tail(prog), TRUE)
      /\ Head(prog).do # "startBatch" => Covered(Tail(prog), FALSE)
  BY <1>1, XaTail, TailFacts DEF XaInv
<1>3. Whole(<<>>) /\ (\A c : Covered(<<>>, c)) /\ <<>> \in Seq(Instructions) /\ <<>> \in Seq(Plain)
  BY EmptySeq, PlainXa
<1>4. ASSUME NEW u \in Seq(Plain), Head(prog).do # "startBatch"
      PROVE  /\ u \o Tail(prog) \in Seq(Instructions)
             /\ Whole(u \o Tail(prog)) /\ \A c : Covered(u \o Tail(prog), c)
  <2>1. u \in Seq(Instructions) /\ Whole(u) /\ \A c : Covered(u, c)
    BY PlainXa, InstructionFacts, SeqMonotonic
  <2> QED
    BY <1>2, <1>4, <2>1, Joined, WholeJoined, CoveredJoined
<1>5. prog' \in Seq(Instructions) /\ Whole(prog') /\ Covered(prog', isBatchMode')
  BY <1>2, <1>3, <1>4 DEF Moves
<1>6. isBatchMode => Whole(batch)
  BY <1>1, <1>2, WholeCut DEF XaInv
<1>7. ASSUME NEW r \in Execs \cup Reinits
      PROVE  Append(batch, r) \in Seq(BatchOps) /\ (Whole(batch) => Whole(Append(batch, r)))
  <2>1. r \in BatchOps /\ batch \in Seq(BatchOps) /\ <<r>> \in Seq(BatchOps)
    BY BatchOpsFacts DEF XaInv
  <2>2. Append(batch, r) \in Seq(BatchOps) /\ Append(batch, r) = batch \o <<r>>
    BY <2>1, AppendProperties, AppendIsConcat
  <2>3. Whole(<<r>>)
    BY NotXaAdds, NoneWhole
  <2> QED
    BY <2>1, <2>2, <2>3, WholeJoined
<1>8. batch' \in Seq(BatchOps) /\ (isBatchMode' => Whole(batch'))
  BY <1>3, <1>6, <1>7, BatchOpsFacts DEF Moves, XaInv
<1>9. isBatchMode' => Whole(batch' \o prog')
  BY <1>5, <1>8, BatchOpsFacts, WholeJoined
<1>10. XaComplete'
  BY DEF XaInv, XaComplete, Moves
<1> QED
  BY <1>5, <1>8, <1>9, <1>10 DEF XaInv

(* Most instructions of the client are such a move, or a wait.             *)
LEMMA MoveKinds ==
  ASSUME BatchInv, Client, Head(prog).do \notin {"execute", "runBatch"}
  PROVE  Moves \/ UNCHANGED <<prog, isBatchMode, batch, config>>
<1>1. /\ prog # <<>> /\ prog \in Seq(Instructions) /\ Head(prog) \in Instructions
      /\ Tail(prog) \in Seq(Instructions) /\ isBatchMode \in BOOLEAN
  BY ClientActions, TailFacts DEF BatchInv
<1>2. <<>> \in Seq(Plain) /\ Tail(prog) = <<>> \o Tail(prog)
  BY <1>1, EmptySeq, ConcatEmptySeq
<1>3. Head(prog).do # "startBatch" /\ prog' = Tail(prog) =>
        \E u \in Seq(Plain) : prog' = u \o Tail(prog)
  BY <1>2
<1> USE DEF Doing, Continue, Throw, NoFault, Fault
<1>4. CASE DoStartBatch
  BY <1>4 DEF DoStartBatch, remote, Moves
<1>5. CASE DoCancelBatch
  BY <1>3, <1>5 DEF DoCancelBatch, remote, Moves
<1>6. CASE IsDefined \/ IsResourceExists
  <2>1. /\ config' = config /\ isBatchMode' = isBatchMode
        /\ Head(prog).do \in {"isDefined", "isResourceExists"}
    BY <1>6 DEF IsDefined, IsResourceExists, remote
  <2>2. /\ Head(prog).yes \in Seq(Plain) /\ Head(prog).no \in Seq(Plain)
        /\ [do |-> "execute", op |-> "read", at |-> Head(prog).at] \in Execs
    BY <1>1, <2>1, AskFacts, KindFacts
  <2>3. \/ prog' = Head(prog).yes \o Tail(prog) \/ prog' = Head(prog).no \o Tail(prog)
        \/ prog' = <<>>
    BY <1>6 DEF IsDefined, IsResourceExists
  <2>4. \/ batch' = batch
        \/ batch' = Append(batch, [do |-> "execute", op |-> "read", at |-> Head(prog).at])
    BY <1>6 DEF IsDefined, IsResourceExists
  <2> QED
    BY <2>1, <2>2, <2>3, <2>4 DEF Moves
<1>7. CASE ExecuteServerReinitialization
  <2>1. Head(prog) \in Reinits
    BY <1>1, <1>7, KindFacts DEF ExecuteServerReinitialization
  <2>2. /\ prog' = Tail(prog) /\ config' = config /\ isBatchMode' = isBatchMode
        /\ batch' = batch \/ batch' = Append(batch, Head(prog))
        /\ Head(prog).do # "startBatch"
    BY <1>7 DEF ExecuteServerReinitialization
  <2> QED
    BY <1>3, <2>1, <2>2 DEF Moves
<1>8. CASE Poll \/ DoAwaitStop \/ DoStart
  <2>1. /\ config' = config /\ isBatchMode' = isBatchMode /\ batch' = batch
        /\ Head(prog).do # "startBatch"
        /\ prog' \in {<<>>, Tail(prog), prog}
    BY <1>8 DEF Poll, DoAwaitStop, DoStart, remote
  <2> QED
    BY <1>3, <2>1 DEF Moves
<1>9. ~(AddToBatch \/ ExecuteOperation \/ DoRunBatch)
  BY DEF AddToBatch, ExecuteOperation, DoRunBatch
<1> QED
  BY <1>4, <1>5, <1>6, <1>7, <1>8, <1>9 DEF Client

(* An operation, out of a batch or into it.                                *)
LEMMA ExecuteKeeps ==
  ASSUME BatchInv, XaInv, AddToBatch \/ ExecuteOperation
  PROVE  XaInv'
<1>1. /\ prog # <<>> /\ prog \in Seq(Instructions) /\ Head(prog) \in Instructions
      /\ Head(prog).do = "execute" /\ Tail(prog) \in Seq(Instructions)
  BY TailFacts DEF BatchInv, AddToBatch, ExecuteOperation, Doing, Running
<1>2. Whole(Tail(prog)) /\ Covered(Tail(prog), isBatchMode)
  BY <1>1, XaTail DEF XaInv
<1>3. Whole(<<>>) /\ \A c : Covered(<<>>, c)
  BY EmptySeq, PlainXa
<1>4. Head(prog) \in Execs \cup XaAdds
  BY <1>1, KindFacts
<1>5. CASE AddToBatch
  <2>1. /\ config' = config /\ isBatchMode' = isBatchMode /\ prog' = Tail(prog)
        /\ batch' = Append(batch, Head(prog))
    BY <1>5 DEF AddToBatch, Continue, remote
  <2>2. /\ batch \in Seq(Instructions) /\ batch \in Seq(BatchOps) /\ Head(prog) \in BatchOps
    BY <1>4, BatchOpsFacts DEF XaInv
  <2>3. batch' \in Seq(BatchOps)
    BY <2>1, <2>2, AppendProperties
  <2>4. Append(batch, Head(prog)) \o Tail(prog) = batch \o prog
    <3>1. Append(batch, Head(prog)) = batch \o <<Head(prog)>>
      BY <1>1, <2>2, AppendIsConcat
    <3>2. <<Head(prog)>> \o Tail(prog) = prog /\ <<Head(prog)>> \in Seq(Instructions)
      BY <1>1, HeadTailProperties
    <3> QED
      BY <1>1, <2>2, <3>1, <3>2, ConcatAssociative
  <2>5. isBatchMode' => Whole(batch' \o prog')
    BY <2>1, <2>4 DEF XaInv
  <2>6. XaComplete'
    BY <2>1 DEF XaInv, XaComplete
  <2>7. Whole(prog') /\ Covered(prog', isBatchMode')
    BY <1>2, <2>1
  <2> QED
    BY <2>3, <2>5, <2>6, <2>7 DEF XaInv
<1>6. CASE ExecuteOperation
  <2>1. /\ ~isBatchMode /\ isBatchMode' = isBatchMode /\ batch' = batch
        /\ prog' \in {<<>>, Tail(prog)}
        /\ config' = Applied(Head(prog), config) \/ config' = config
    BY <1>6 DEF ExecuteOperation, Continue, Throw
  <2>2. isBatchMode = FALSE
    BY <2>1 DEF BatchInv
  <2>3. Head(prog) \in Execs
    BY <1>1, <1>4, <2>2, XaTail DEF XaInv
  <2>4. XaComplete'
    BY <2>1, <2>3, TameComplete DEF XaInv
  <2>5. Whole(prog') /\ Covered(prog', isBatchMode')
    BY <1>2, <1>3, <2>1
  <2> QED
    BY <2>1, <2>4, <2>5 DEF XaInv
<1> QED
  BY <1>5, <1>6

(* Running a batch.                                                        *)
LEMMA RunBatchKeeps ==
  ASSUME BatchInv, XaInv, DoRunBatch
  PROVE  XaInv'
<1>1. /\ prog # <<>> /\ prog \in Seq(Instructions) /\ Head(prog) = prog[1]
      /\ Head(prog).do = "runBatch" /\ Tail(prog) \in Seq(Instructions)
  BY TailFacts DEF BatchInv, DoRunBatch, Doing, Running
<1>2. Whole(Tail(prog)) /\ Covered(Tail(prog), FALSE)
  BY <1>1, XaTail DEF XaInv
<1>3. Whole(<<>>) /\ Covered(<<>>, FALSE)
  BY EmptySeq, PlainXa
<1>4. /\ isBatchMode' = FALSE /\ prog' \in {<<>>, Tail(prog)} /\ batch' \in {<<>>, batch}
      /\ config' = config \/ (isBatchMode /\ config' = Composite(batch).config)
  BY DEF DoRunBatch, Continue, Throw
<1>5. isBatchMode => Whole(batch)
  BY <1>1, BatchOpsFacts, WholeCut DEF XaInv
<1>6. XaComplete'
  <2>1. CASE config' = config
    BY <2>1 DEF XaInv, XaComplete
  <2>2. CASE isBatchMode /\ config' = Composite(batch).config
    <3>1. \A n \in Names : XaDataSource(n) \in config' =>
            \A p \in Range(Props) : Append(XaDataSource(n), p) \in config'
      BY <1>5, <2>2, CompositeComplete DEF XaInv
    <3> QED
      BY <3>1 DEF XaComplete
  <2> QED
    BY <1>4, <2>1, <2>2
<1>7. Whole(prog') /\ Covered(prog', isBatchMode')
  BY <1>2, <1>3, <1>4
<1>8. batch' \in Seq(BatchOps)
  BY <1>4, BatchOpsFacts DEF XaInv
<1> QED
  BY <1>4, <1>6, <1>7, <1>8 DEF XaInv

(* Every step keeps the invariant.                                         *)
LEMMA XaInductive ==
  ASSUME BatchInv, XaInv, [Next]_vars
  PROVE  XaInv'
<1>1. CASE Client
  <2>1. CASE Head(prog).do = "execute"
    BY <1>1, <2>1, ClientActions, ExecuteKeeps
  <2>2. CASE Head(prog).do = "runBatch"
    <3>1. DoRunBatch
      BY <1>1, <2>2 DEF Client, DoStartBatch, DoCancelBatch, AddToBatch, ExecuteOperation, IsDefined,
              IsResourceExists, ExecuteServerReinitialization, Poll, DoAwaitStop, DoStart, Doing
    <3> QED
      BY <3>1, RunBatchKeeps
  <2>3. CASE Head(prog).do \notin {"execute", "runBatch"}
    <3>1. CASE Moves
      BY <1>1, <2>3, <3>1, ClientActions, MovesKeep
    <3>2. CASE UNCHANGED <<prog, isBatchMode, batch, config>>
      BY <3>2 DEF XaInv, XaComplete
    <3> QED
      BY <1>1, <2>3, <3>1, <3>2, MoveKinds
  <2> QED
    BY <2>1, <2>2, <2>3
<1>2. ASSUME NEW m \in Methods, Call(m) PROVE XaInv'
  <2>1. /\ prog = <<>> /\ prog' = Program(m) /\ UNCHANGED <<isBatchMode, batch, config>>
    BY <1>2 DEF Call, Running
  <2>2. /\ Whole(Program(m)) /\ (\A c : Covered(Program(m), c))
        /\ Program(m) \in Seq(Instructions)
    BY ProgramXa, ProgramFacts
  <2>3. batch \in Seq(BatchOps) /\ batch \in Seq(Instructions)
    BY BatchOpsFacts DEF XaInv
  <2>4. isBatchMode => Whole(batch)
    <3>1. <<>> \in Seq(Instructions)
      BY EmptySeq
    <3> QED
      BY <2>1, <2>3, <3>1, WholeCut DEF XaInv
  <2>5. isBatchMode => Whole(batch \o Program(m))
    BY <2>2, <2>3, <2>4, WholeJoined
  <2>6. XaComplete'
    BY <2>1 DEF XaInv, XaComplete
  <2>7. Whole(prog') /\ Covered(prog', isBatchMode') /\ (isBatchMode' => Whole(batch' \o prog'))
    BY <2>1, <2>2, <2>5
  <2> QED
    BY <2>1, <2>3, <2>6, <2>7 DEF XaInv
<1>3. CASE Boot \/ GoDown \/ UNCHANGED vars
  <2>1. UNCHANGED <<prog, isBatchMode, batch, config>>
    BY <1>3 DEF Boot, GoDown, vars, client, remote
  <2> QED
    BY <2>1 DEF XaInv, XaComplete
<1> QED
  BY <1>1, <1>2, <1>3 DEF Next

(* It holds before the first call.                                         *)
LEMMA XaInit == Init => XaInv
<1> SUFFICES ASSUME Init PROVE XaInv
  OBVIOUS
<1>1. prog = <<>> /\ batch = <<>> /\ isBatchMode = FALSE
  BY DEF Init
<1>2. Whole(<<>>) /\ Covered(<<>>, FALSE)
  BY EmptySeq, PlainXa
<1>3. XaComplete
  BY DEF Init, XaComplete, XaDataSource, Transactions, Jacorb, JdbcDriver
<1> QED
  BY <1>1, <1>2, <1>3, BatchOpsFacts DEF XaInv

(* XaComplete, however operations fail: ManagementOperations 561-633.      *)
THEOREM XaCompleteHolds == Spec => []XaComplete
<1>1. ClientInv /\ XaInv /\ [Next]_vars => XaInv'
  BY XaInductive DEF ClientInv
<1>2. XaInv => XaComplete
  BY DEF XaInv
<1> QED
  BY <1>1, <1>2, XaInit, ClientInvariant, PTL DEF Spec
=============================================================================
