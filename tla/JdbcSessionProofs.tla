-------------------------- MODULE JdbcSessionProofs ---------------------------
(***************************************************************************)
(* Proofs about JdbcSession for any number of JVMs, tests, faults and      *)
(* kills: the driver and the class loader (LoadersMatch), the table        *)
(* (Heals) and the assertions of the tests (IsolationAsTested).               *)
(*                                                                         *)
(* The first two depend on the set-up and tear-down of the classes; of the *)
(* tests it is enough that their scripts leave the driver, the class       *)
(* loader and the table alone.  For the assertions each call is read as a  *)
(* function of the database, and each script is followed call by call from *)
(* an empty table.                                                         *)
(***************************************************************************)
EXTENDS JdbcSession, SequenceTheorems, TLAPS

-----------------------------------------------------------------------------
(* The scripts of the tests                                                *)

TestOps == {"insert", "update", "getConnection", "close", "setAutoCommit", "commit",
            "rollback", "setSavepoint", "releaseSavepoint", "rollbackTo",
            "setTransactionIsolation", "take", "assertSelect", "assertTaken",
            "assertChanged", "assertCommitThrows"}

Words == {"conn", "connAnother", "new", "text", "newText", "newTexta", "null",
          "READ_COMMITTED", "REPEATABLE_READ"}

(* A call or assertion of a test body.                                     *)
TestCalls == {c \in Seq(TestOps \union Words \union Nat) : c[1] \in TestOps}

(* Two pieces of a script make a script.                                   *)
LEMMA Joined ==
  ASSUME NEW a \in Seq(TestCalls), NEW b \in Seq(TestCalls)
  PROVE  a \o b \in Seq(TestCalls)
  BY ConcatProperties

(* The pieces the scripts are made of.                                     *)
LEMMA Pieces ==
  /\ \A i \in Nat, x \in Words : Insert(i, x) \in Seq(TestCalls)
  /\ \A c, x \in Words, i \in Nat : Update(c, i, x) \in Seq(TestCalls)
  /\ \A c, x \in Words, i \in Nat : Select(c, i, x) \in Seq(TestCalls)
  /\ \A call \in TestOps, c \in Words : Do(call, c) \in Seq(TestCalls)
  /\ \A call \in TestOps, k \in Nat : OnSavepoint(call, k) \in Seq(TestCalls)
  /\ \A c \in Words, level \in Words :
       << <<"setTransactionIsolation", c, level>> >> \in Seq(TestCalls)
  /\ \A call \in TestOps, c \in Words, i \in Nat : << <<call, c, i>> >> \in Seq(TestCalls)
<1>1. \A call \in TestOps, c \in Words :
        /\ <<call, c>> \in TestCalls
        /\ \A i \in Words \union Nat : <<call, c, i>> \in TestCalls
        /\ \A i \in Nat, x \in Words : <<call, c, i, x>> \in TestCalls
  BY DEF TestCalls
<1>2. {"insert", "update", "assertSelect", "setTransactionIsolation"} \subseteq TestOps
  BY DEF TestOps
<1>3. "conn" \in Words
  BY DEF Words
<1>4. \A c \in TestCalls : <<c>> \in Seq(TestCalls)
  OBVIOUS
<1>. HIDE DEF TestCalls, TestOps, Words
<1>5. \A i \in Nat, x \in Words : Insert(i, x) \in Seq(TestCalls)
  BY <1>1, <1>2, <1>3, <1>4 DEF Insert
<1>6. \A c, x \in Words, i \in Nat : Update(c, i, x) \in Seq(TestCalls)
  BY <1>1, <1>2, <1>3, <1>4 DEF Update
<1>7. \A c, x \in Words, i \in Nat : Select(c, i, x) \in Seq(TestCalls)
  BY <1>1, <1>2, <1>3, <1>4 DEF Select
<1>8. \A call \in TestOps, c \in Words : Do(call, c) \in Seq(TestCalls)
  BY <1>1, <1>2, <1>3, <1>4 DEF Do
<1>9. \A call \in TestOps, k \in Nat : OnSavepoint(call, k) \in Seq(TestCalls)
  BY <1>1, <1>2, <1>3, <1>4 DEF OnSavepoint
<1>10. \A c, level \in Words :
        << <<"setTransactionIsolation", c, level>> >> \in Seq(TestCalls)
  BY <1>1, <1>2, <1>3, <1>4
<1>11. \A call \in TestOps, c \in Words, i \in Nat : << <<call, c, i>> >> \in Seq(TestCalls)
  BY <1>1, <1>2, <1>3, <1>4
<1>. QED
  BY <1>5, <1>6, <1>7, <1>8, <1>9, <1>10, <1>11

(* No test touches the driver, the class loader or the table.              *)
LEMMA BodiesPlain == \A t \in Tests : Bodies[t] \in Seq(TestCalls)
<1>. DEFINE S == Seq(TestCalls)
<1>a. \A a, b \in S : a \o b \in S
  BY Joined
<1>b. Words = {"conn", "connAnother", "new", "text", "newText", "newTexta", "null",
               "READ_COMMITTED", "REPEATABLE_READ"}
      /\ Null \in Words /\ {1, 2} \subseteq Nat
  BY DEF Words, Null
<1>c. {"insert", "update", "getConnection", "close", "setAutoCommit", "commit", "rollback",
       "setSavepoint", "releaseSavepoint", "rollbackTo", "take", "assertTaken",
       "assertChanged", "assertCommitThrows"} \subseteq TestOps
  BY DEF TestOps
<1>d. /\ \A i \in {1, 2}, x \in Words : Insert(i, x) \in S
      /\ \A c, x \in Words, i \in {1, 2} : Update(c, i, x) \in S
      /\ \A c, x \in Words, i \in {1, 2} : Select(c, i, x) \in S
      /\ \A call \in TestOps, c \in Words : Do(call, c) \in S
      /\ \A call \in TestOps, k \in {1, 2} : OnSavepoint(call, k) \in S
      /\ \A level \in Words : << <<"setTransactionIsolation", "conn", level>> >> \in S
      /\ \A call \in TestOps : << <<call, "conn", 1>> >> \in S
  <2>. HIDE DEF TestCalls, TestOps, Words
  <2>1. "conn" \in Words /\ {1, 2} \subseteq Nat
    BY <1>b
  <2>2. \A call \in TestOps : << <<call, "conn", 1>> >> \in S
    BY <2>1, Pieces
  <2>3. \A level \in Words : << <<"setTransactionIsolation", "conn", level>> >> \in S
    BY <2>1, Pieces
  <2>4. /\ \A i \in {1, 2}, x \in Words : Insert(i, x) \in S
        /\ \A c, x \in Words, i \in {1, 2} : Update(c, i, x) \in S
        /\ \A c, x \in Words, i \in {1, 2} : Select(c, i, x) \in S
    BY <2>1, Pieces
  <2>5. /\ \A call \in TestOps, c \in Words : Do(call, c) \in S
        /\ \A call \in TestOps, k \in {1, 2} : OnSavepoint(call, k) \in S
    BY <2>1, Pieces
  <2>. QED
    BY <2>2, <2>3, <2>4, <2>5
<1>. HIDE DEF S, Words, TestOps
<1>e. "conn" \in Words /\ "new" \in Words /\ "connAnother" \in Words
      /\ "text" \in Words /\ "newText" \in Words /\ "newTexta" \in Words
      /\ 1 \in {1, 2} /\ 2 \in {1, 2}
  BY <1>b
<1>f. \A body \in S : \A c \in Words : Using(c, body) \in S
  BY <1>a, <1>c, <1>d DEF Using
<1>g. Commit \in S /\ Savepoint \in S /\ InsertHidden \in S
  BY <1>a, <1>b, <1>c, <1>d, <1>e DEF Commit, Savepoint, InsertHidden
<1>h. \A body \in S : Manually(body) \in S
  BY <1>a, <1>c, <1>d, <1>e, <1>f DEF Manually
<1>i. /\ \A i, j \in {1, 2} : Insert(i, "text") \in S /\ Insert(i, "newText") \in S
      /\ \A i \in {1, 2} : /\ Select("new", i, "text") \in S /\ Select("new", i, "newText") \in S
                           /\ Select("new", i, Null) \in S
                           /\ Select("conn", i, "text") \in S /\ Select("conn", i, "newText") \in S
                           /\ Select("conn", i, "newTexta") \in S
                           /\ Update("conn", i, "newText") \in S /\ Update("conn", i, "newTexta") \in S
                           /\ Update("connAnother", i, "newText") \in S
      /\ Do("rollback", "conn") \in S /\ Do("close", "conn") \in S
      /\ Do("assertCommitThrows", "conn") \in S /\ Do("setAutoCommit", "conn") \in S
      /\ Do("setAutoCommit", "connAnother") \in S /\ Do("commit", "connAnother") \in S
      /\ OnSavepoint("releaseSavepoint", 1) \in S /\ OnSavepoint("rollbackTo", 1) \in S
      /\ << <<"setTransactionIsolation", "conn", "READ_COMMITTED">> >> \in S
      /\ << <<"setTransactionIsolation", "conn", "REPEATABLE_READ">> >> \in S
      /\ << <<"take", "conn", 1>> >> \in S /\ << <<"assertTaken", "conn", 1>> >> \in S
      /\ << <<"assertChanged", "conn", 1>> >> \in S
  BY <1>b, <1>c, <1>d, <1>e
<1>1. HowTo \in S /\ AutocommitTrue \in S /\ AutocommitFalse \in S /\ AutocommitFalse2 \in S
  BY <1>a, <1>e, <1>f, <1>g, <1>h, <1>i
  DEF HowTo, AutocommitTrue, AutocommitFalse, AutocommitFalse2
<1>2. /\ AutocommitFalseWithRollback \in S /\ ClosingConnectionMeansRollback \in S
      /\ DoubleChangeInTransaction \in S /\ CommitForAutocommitTrue \in S
  BY <1>a, <1>e, <1>f, <1>g, <1>h, <1>i
  DEF AutocommitFalseWithRollback, ClosingConnectionMeansRollback, DoubleChangeInTransaction,
      CommitForAutocommitTrue
<1>3. SafePointCommit \in S /\ SafePointRollback \in S
  BY <1>a, <1>e, <1>f, <1>g, <1>h, <1>i DEF SafePointCommit, SafePointRollback
<1>4. SafePointDoubleRollback \in S /\ SafePointWholeTransactionRollback \in S
  BY <1>a, <1>e, <1>f, <1>g, <1>h, <1>i
  DEF SafePointDoubleRollback, SafePointWholeTransactionRollback
<1>5. RunBatch \in S
  BY <1>a, <1>e, <1>f, <1>g, <1>h, <1>i DEF RunBatch
<1>6. UpdateMeanwhile \in S
  BY <1>a, <1>e, <1>f, <1>i DEF UpdateMeanwhile
<1>7. \A level \in {"READ_COMMITTED", "REPEATABLE_READ"}, reads \in S : AtLevel(level, reads) \in S
  BY <1>a, <1>e, <1>f, <1>g, <1>i, <1>6 DEF AtLevel
<1>8. ReadCommitted \in S /\ RepeatableRead \in S
  BY <1>a, <1>e, <1>i, <1>7 DEF ReadCommitted, RepeatableRead
<1>. QED
  BY <1>1, <1>2, <1>3, <1>4, <1>5, <1>8 DEF Tests, Bodies, S

-----------------------------------------------------------------------------
(* The invariant of the set-up and tear-down                               *)

Stages == {"down", "jvm", "before", "ready", "test", "clean", "after"}
InClass == {"before", "ready", "test", "clean", "after"}

(* Where JUnit is.                                                         *)
StageInv ==
  /\ stage \in Stages /\ classes \subseteq Classes
  /\ stage \in InClass => class \in classes
  /\ stage \in {"test", "clean"} => class = "JdbcTest"
  /\ stage = "test" => test \in Tests
  /\ lost \in BOOLEAN /\ isRegistered \in BOOLEAN /\ table \in BOOLEAN

(* The loader of the test thread before JPATest has set its own: null only *)
(* after a JPATest whose set-up has thrown.                                *)
Own(loader) == loader = 1 \/ (loader = 0 /\ lost)

(* JPATest, once in a JVM, puts the loader aside and takes it back.        *)
LoaderInv ==
  /\ stage = "down" => contextLoader = 1 /\ original = 0
  /\ "JPATest" \notin classes => original = 0
  /\ stage = "jvm" \/ (stage \in InClass /\ class = "JdbcTest") => Own(contextLoader)
  /\ stage = "before" /\ class = "JPATest" =>
       Own(contextLoader) /\ original = 0 /\ (pc # 1 => isRegistered)
  /\ stage = "ready" /\ class = "JPATest" =>
       isRegistered /\ contextLoader = driverClassLoader
  /\ stage \in {"ready", "after"} /\ class = "JPATest" => Own(original)
  /\ stage \in InClass \ {"before"} /\ class = "JdbcTest" => isRegistered \/ lost
  /\ stage = "before" /\ class = "JdbcTest" /\ pc # 1 => isRegistered

(* What the DriverManager knows: one delegation of the driver of the last  *)
(* loader once it is registered, and the driver of the class path if there *)
(* is one.                                                                 *)
DriverInv ==
  /\ driverClassLoader \in Nat \ {1}
  /\ stage = "down" => ~isRegistered
  /\ ~isRegistered => delegations = {}
  /\ isRegistered =>
       \E d \in drivers \intersect {1, driverClassLoader} :
         /\ delegations = {<<driverClassLoader, d>>}
         /\ ~lost => (d = 1 <=> onClassPath)
  /\ 1 \in drivers <=> onClassPath

(* Once JdbcTest is over the table is gone, unless a call has thrown.      *)
TableInv ==
  ~lost /\ "JdbcTest" \in classes /\ (stage \in {"down", "jvm"} \/ class = "JPATest") => ~table

SessionInv == StageInv /\ LoaderInv /\ DriverInv /\ TableInv

-----------------------------------------------------------------------------
(* The calls of each stage                                                 *)

ClassOps == {"registerDriver", "createTable", "setContextClassLoader", "deleteTable",
             "dropTable", "restoreClassloader"}

(* The call a script of the set-up or tear-down makes at pc.               *)
LEMMA StageCalls ==
  ASSUME StageInv, InScript
  PROVE  /\ stage \in {"before", "test", "clean", "after"}
         /\ stage = "test" => Call[1] \in TestOps
         /\ stage = "before" /\ class = "JdbcTest" =>
              /\ Len(Script) = 2
              /\ \/ pc = 1 /\ Call[1] = "registerDriver"
                 \/ pc = 2 /\ Call[1] = "createTable"
         /\ stage = "before" /\ class = "JPATest" =>
              /\ Len(Script) = 2
              /\ \/ pc = 1 /\ Call[1] = "registerDriver"
                 \/ pc = 2 /\ Call[1] = "setContextClassLoader"
         /\ stage = "clean" => Len(Script) = 1 /\ pc = 1 /\ Call[1] = "deleteTable"
         /\ stage = "after" /\ class = "JdbcTest" =>
              Len(Script) = 1 /\ pc = 1 /\ Call[1] = "dropTable"
         /\ stage = "after" /\ class = "JPATest" =>
              Len(Script) = 1 /\ pc = 1 /\ Call[1] = "restoreClassloader"
<1>1. stage \in {"before", "test", "clean", "after"}
  <2>1. SUFFICES ASSUME stage \notin {"before", "test", "clean", "after"} PROVE FALSE
    OBVIOUS
  <2>2. Script = <<>>
    BY <2>1 DEF Script
  <2>. QED
    BY <2>2 DEF InScript
<1>2. ASSUME stage = "test" PROVE Call[1] \in TestOps
  <2>1. Script = Bodies[test] /\ Script \in Seq(TestCalls) /\ pc \in DOMAIN Script
    BY <1>2, BodiesPlain DEF Script, StageInv, InScript
  <2>2. Script[pc] \in TestCalls
    BY <2>1
  <2>. QED
    BY <2>2 DEF Call, TestCalls
<1>3. ASSUME stage = "before", class = "JdbcTest"
      PROVE  /\ Len(Script) = 2
             /\ \/ pc = 1 /\ Call[1] = "registerDriver"
                \/ pc = 2 /\ Call[1] = "createTable"
  <2>1. Script = << <<"registerDriver">>, <<"createTable">> >>
    BY <1>3 DEF Script
  <2>. QED
    BY <2>1 DEF Call, InScript
<1>4. ASSUME stage = "before", class = "JPATest"
      PROVE  /\ Len(Script) = 2
             /\ \/ pc = 1 /\ Call[1] = "registerDriver"
                \/ pc = 2 /\ Call[1] = "setContextClassLoader"
  <2>1. Script = << <<"registerDriver">>, <<"setContextClassLoader">> >>
    BY <1>4 DEF Script
  <2>. QED
    BY <2>1 DEF Call, InScript
<1>5. ASSUME stage = "clean" PROVE Len(Script) = 1 /\ pc = 1 /\ Call[1] = "deleteTable"
  <2>1. Script = << <<"deleteTable">> >>
    BY <1>5 DEF Script
  <2>. QED
    BY <2>1 DEF Call, InScript
<1>6. ASSUME stage = "after", class = "JdbcTest"
      PROVE  Len(Script) = 1 /\ pc = 1 /\ Call[1] = "dropTable"
  <2>1. Script = << <<"dropTable">> >>
    BY <1>6 DEF Script
  <2>. QED
    BY <2>1 DEF Call, InScript
<1>7. ASSUME stage = "after", class = "JPATest"
      PROVE  Len(Script) = 1 /\ pc = 1 /\ Call[1] = "restoreClassloader"
  <2>1. Script = << <<"restoreClassloader">> >>
    BY <1>7 DEF Script
  <2>. QED
    BY <2>1 DEF Call, InScript
<1>. QED
  BY <1>1, <1>2, <1>3, <1>4, <1>5, <1>6, <1>7

(* What a served call does to the driver, the loader and the table.        *)
LEMMA ServedKinds ==
  ASSUME Served
  PROVE  \/ UNCHANGED <<jvm, table>> /\ Call[1] \in TestOps \union {"deleteTable"}
         \/ UNCHANGED jvm /\ Call[1] = "createTable" /\ table' = TRUE
         \/ UNCHANGED jvm /\ Call[1] = "dropTable" /\ table' = FALSE
         \/ UNCHANGED table /\ (RegisterDriver \/ SetContextClassLoader \/ RestoreClassloader)
<1>1. CASE OnDatabase /\ UNCHANGED jvm
  <2>1. CASE CreateTable
    BY <1>1, <2>1 DEF CreateTable, IsOp
  <2>2. CASE DropTable
    BY <1>1, <2>2 DEF DropTable, IsOp
  <2>3. CASE DeleteTable
    BY <1>1, <2>3 DEF DeleteTable, IsOp
  <2>4. CASE Statement \/ Finish \/ GetConnection \/ Configure \/ SetSavepoint \/ ToSavepoint
             \/ Reads \/ AssertCommitThrows
    <3>1. UNCHANGED table
      BY <2>4 DEF Statement, Finish, GetConnection, Configure, SetSavepoint, ToSavepoint,
                  Reads, AssertCommitThrows, ConnBecomes, db
    <3>2. Call[1] \in TestOps
      BY <2>4 DEF Statement, Finish, GetConnection, Configure, SetSavepoint, ToSavepoint,
                  Reads, AssertCommitThrows, IsOp, TestOps
    <3>. QED
      BY <1>1, <3>1, <3>2
  <2>. QED
    BY <1>1, <2>1, <2>2, <2>3, <2>4 DEF OnDatabase
<1>2. CASE OnLoaders /\ UNCHANGED db
  BY <1>2 DEF OnLoaders, db
<1>. QED
  BY <1>1, <1>2 DEF Served

(* What is registered stays what it is.                                    *)
LEMMA DriversSame ==
  ASSUME DriverInv, UNCHANGED <<onClassPath, isRegistered, driverClassLoader, drivers, delegations>>,
         lost => lost', stage' # "down"
  PROVE  DriverInv'
BY DEF DriverInv

(* Registering by a thread that has a loader of its own, or has lost it.   *)
LEMMA DriversRegistered ==
  ASSUME DriverInv, StageInv, Own(contextLoader), RegisterDriver, lost' = lost, stage' # "down"
  PROVE  DriverInv' /\ isRegistered' = TRUE
<1>1. CASE isRegistered
  <2>1. UNCHANGED <<onClassPath, isRegistered, driverClassLoader, drivers, delegations>>
    BY <1>1 DEF RegisterDriver
  <2>. QED
    BY <1>1, <2>1, DriversSame DEF StageInv
<1>2. CASE ~isRegistered
  <2>1. isRegistered' = TRUE /\ Register /\ onClassPath' = onClassPath
    BY <1>2 DEF RegisterDriver
  <2>2. NewLoader \in Nat \ {0, 1}
    BY DEF DriverInv, NewLoader
  <2>3. /\ driverClassLoader' = NewLoader
        /\ drivers' = drivers \union {DefiningLoader}
        /\ delegations' = {<<NewLoader, DefiningLoader>>}
    BY <1>2, <2>1 DEF Register, DriverInv
  <2>4. /\ DefiningLoader \in {1, NewLoader}
        /\ DefiningLoader = 1 => onClassPath
        /\ ~lost => (DefiningLoader = 1 <=> onClassPath)
    BY <2>2 DEF DefiningLoader, Own
  <2>5. 1 \in drivers <=> onClassPath
    BY DEF DriverInv
  <2>. QED
    BY <2>1, <2>2, <2>3, <2>4, <2>5 DEF DriverInv
<1>. QED
  BY <1>1, <1>2

(* A registration that fails half way.                                     *)
LEMMA DriversHalf ==
  ASSUME DriverInv, RegisterDriverHalf, stage' # "down"
  PROVE  DriverInv'
<1>1. /\ ~isRegistered /\ UNCHANGED <<onClassPath, isRegistered, delegations>>
      /\ driverClassLoader' = NewLoader
      /\ drivers' \in {drivers, drivers \union {DefiningLoader}}
  BY DEF RegisterDriverHalf
<1>2. NewLoader \in Nat \ {0, 1}
  BY DEF DriverInv, NewLoader
<1>3. DefiningLoader = 1 => onClassPath
  BY <1>2 DEF DefiningLoader
<1>. QED
  BY <1>1, <1>2, <1>3 DEF DriverInv

(* The static fields and the DriverManager of an ended JVM are gone.       *)
LEMMA DriversGone ==
  ASSUME DriverInv, Exit
  PROVE  DriverInv'
BY DEF Exit, ClassPathDrivers, DriverInv

(* A call of a script that is served.                                      *)
LEMMA StepKept ==
  ASSUME SessionInv, Step
  PROVE  SessionInv'
<1>. USE DEF jvm, counts
<1>a. /\ InScript /\ Served
      /\ IF pc < Len(Script) THEN pc' = pc + 1 /\ stage' = stage ELSE Go(NextStage[stage])
      /\ class' = class /\ classes' = classes /\ test' = test /\ lost' = lost
  BY DEF Step
<1>b. StageInv /\ LoaderInv /\ DriverInv /\ TableInv
  BY DEF SessionInv
<1>c. class \in {"JdbcTest", "JPATest"} /\ class \in classes
  BY <1>a, <1>b, StageCalls DEF StageInv, Classes, InClass
<1>1. CASE stage = "test"
  <2>1. UNCHANGED <<jvm, table>>
    <3>1. Call[1] \in TestOps
      BY <1>1, <1>a, <1>b, StageCalls
    <3>. QED
      BY <1>a, <3>1, ServedKinds
      DEF TestOps, RegisterDriver, SetContextClassLoader, RestoreClassloader, IsOp
  <2>2. stage' \in {"test", "clean"} /\ class = "JdbcTest"
    BY <1>1, <1>a, <1>b DEF Go, NextStage, StageInv
  <2>3. StageInv'
    BY <1>1, <1>a, <1>b, <2>1, <2>2 DEF StageInv, Stages, InClass
  <2>4. LoaderInv'
    BY <1>1, <1>a, <1>b, <2>1, <2>2 DEF LoaderInv, InClass, Own
  <2>5. TableInv'
    BY <2>2, <1>a DEF TableInv
  <2>6. DriverInv'
    BY <1>a, <1>b, <2>1, <2>2, DriversSame
  <2>. QED
    BY <2>3, <2>4, <2>5, <2>6 DEF SessionInv
<1>2. CASE stage = "clean"
  <2>1. UNCHANGED <<jvm, table>> /\ Call[1] = "deleteTable" /\ Len(Script) = 1 /\ pc = 1
    <3>1. Call[1] = "deleteTable" /\ Len(Script) = 1 /\ pc = 1
      BY <1>2, <1>a, <1>b, StageCalls
    <3>. QED
      BY <1>a, <3>1, ServedKinds DEF RegisterDriver, SetContextClassLoader, RestoreClassloader, IsOp
  <2>2. stage' = "ready" /\ class = "JdbcTest"
    BY <1>2, <1>a, <1>b, <2>1 DEF Go, NextStage, StageInv
  <2>3. StageInv'
    BY <1>2, <1>a, <1>b, <2>1, <2>2 DEF StageInv, Stages, InClass
  <2>4. LoaderInv'
    BY <1>2, <1>a, <1>b, <2>1, <2>2 DEF LoaderInv, InClass, Own
  <2>5. TableInv'
    BY <2>2, <1>a DEF TableInv
  <2>6. DriverInv'
    BY <1>a, <1>b, <2>1, <2>2, DriversSame
  <2>. QED
    BY <2>3, <2>4, <2>5, <2>6 DEF SessionInv
<1>3. CASE stage = "before" /\ class = "JdbcTest"
  <2>1. /\ Len(Script) = 2
        /\ \/ pc = 1 /\ Call[1] = "registerDriver"
           \/ pc = 2 /\ Call[1] = "createTable"
    BY <1>3, <1>a, <1>b, StageCalls
  <2>2. stage' \in {"before", "ready"}
    BY <1>3, <1>a, <2>1 DEF Go, NextStage
  <2>3. \/ pc = 2 /\ UNCHANGED jvm /\ table' = TRUE
        \/ pc = 1 /\ UNCHANGED table /\ RegisterDriver
    BY <1>a, <2>1, ServedKinds
    DEF RegisterDriver, SetContextClassLoader, RestoreClassloader, IsOp, TestOps
  <2>4. /\ DriverInv' /\ isRegistered' = TRUE
        /\ UNCHANGED <<contextLoader, original>>
        /\ table' \in BOOLEAN
    <3>1. CASE pc = 2 /\ UNCHANGED jvm /\ table' = TRUE
      <4>1. isRegistered = TRUE
        BY <1>3, <1>b, <3>1 DEF LoaderInv, StageInv
      <4>. QED
        BY <1>a, <1>b, <2>2, <3>1, <4>1, DriversSame
    <3>2. CASE pc = 1 /\ UNCHANGED table /\ RegisterDriver
      <4>1. Own(contextLoader)
        BY <1>3, <1>b DEF LoaderInv, InClass
      <4>2. DriverInv' /\ isRegistered' = TRUE
        BY <1>a, <1>b, <2>2, <3>2, <4>1, DriversRegistered
      <4>. QED
        BY <1>b, <3>2, <4>2 DEF RegisterDriver, StageInv
    <3>. QED
      BY <2>3, <3>1, <3>2
  <2>5. StageInv'
    BY <1>3, <1>a, <1>b, <2>2, <2>4 DEF StageInv, Stages, InClass
  <2>6. LoaderInv'
    BY <1>3, <1>a, <1>b, <2>2, <2>4 DEF LoaderInv, InClass, Own
  <2>7. TableInv'
    BY <1>3, <2>2, <1>a DEF TableInv
  <2>. QED
    BY <2>4, <2>5, <2>6, <2>7 DEF SessionInv
<1>4. CASE stage = "before" /\ class = "JPATest"
  <2>1. /\ Len(Script) = 2
        /\ \/ pc = 1 /\ Call[1] = "registerDriver"
           \/ pc = 2 /\ Call[1] = "setContextClassLoader"
    BY <1>4, <1>a, <1>b, StageCalls
  <2>2. \/ pc = 1 /\ RegisterDriver
        \/ pc = 2 /\ SetContextClassLoader
    BY <1>a, <2>1, ServedKinds
    DEF RegisterDriver, SetContextClassLoader, RestoreClassloader, IsOp, TestOps
  <2>3. UNCHANGED table
    BY <1>a, <2>1, ServedKinds DEF TestOps
  <2>4. "JPATest" \in classes
    BY <1>4, <1>c
  <2>5. CASE pc = 1
    <3>1. /\ stage' = "before" /\ pc' = 2 /\ isRegistered' = TRUE
          /\ DriverInv' /\ UNCHANGED <<contextLoader, original>>
      <4>1. RegisterDriver /\ stage' = "before" /\ pc' = 2
        BY <1>4, <1>a, <2>1, <2>2, <2>5
      <4>2. Own(contextLoader)
        BY <1>4, <1>b DEF LoaderInv
      <4>. QED
        BY <1>a, <1>b, <4>1, <4>2, DriversRegistered DEF RegisterDriver
    <3>2. StageInv'
      BY <1>4, <1>a, <1>b, <2>3, <3>1 DEF StageInv, Stages, InClass
    <3>3. LoaderInv'
      BY <1>4, <1>a, <1>b, <2>4, <3>1 DEF LoaderInv, InClass, Own
    <3>4. TableInv'
      BY <1>4, <1>a, <1>b, <2>3 DEF TableInv
    <3>. QED
      BY <3>1, <3>2, <3>3, <3>4 DEF SessionInv
  <2>6. CASE pc = 2
    <3>1. stage' = "ready"
      BY <1>4, <1>a, <2>1, <2>6 DEF Go, NextStage
    <3>2. /\ original' = contextLoader /\ contextLoader' = driverClassLoader
          /\ UNCHANGED <<onClassPath, isRegistered, driverClassLoader, drivers, delegations>>
      BY <2>2, <2>6 DEF SetContextClassLoader
    <3>3. StageInv'
      BY <1>4, <1>a, <1>b, <1>c, <2>3, <3>1, <3>2 DEF StageInv, Stages, InClass
    <3>4. LoaderInv'
      BY <1>4, <1>a, <1>b, <2>4, <2>6, <3>1, <3>2 DEF LoaderInv, InClass, Own
    <3>5. TableInv'
      BY <1>4, <1>a, <1>b, <2>3 DEF TableInv
    <3>6. DriverInv'
      BY <1>a, <1>b, <3>1, <3>2, DriversSame
    <3>. QED
      BY <3>3, <3>4, <3>5, <3>6 DEF SessionInv
  <2>. QED
    BY <2>1, <2>5, <2>6
<1>5. CASE stage = "after" /\ class = "JdbcTest"
  <2>1. Len(Script) = 1 /\ pc = 1 /\ Call[1] = "dropTable"
    BY <1>5, <1>a, <1>b, StageCalls
  <2>2. UNCHANGED jvm /\ table' = FALSE
    BY <1>a, <2>1, ServedKinds
    DEF RegisterDriver, SetContextClassLoader, RestoreClassloader, IsOp, TestOps
  <2>3. stage' = "jvm"
    BY <1>5, <1>a, <2>1 DEF Go, NextStage
  <2>4. StageInv'
    BY <1>5, <1>a, <1>b, <2>2, <2>3 DEF StageInv, Stages, InClass
  <2>5. LoaderInv'
    BY <1>5, <1>a, <1>b, <2>2, <2>3 DEF LoaderInv, InClass, Own
  <2>6. TableInv'
    BY <2>2 DEF TableInv
  <2>7. DriverInv'
    BY <1>a, <1>b, <2>2, <2>3, DriversSame
  <2>. QED
    BY <2>4, <2>5, <2>6, <2>7 DEF SessionInv
<1>6. CASE stage = "after" /\ class = "JPATest"
  <2>1. Len(Script) = 1 /\ pc = 1 /\ Call[1] = "restoreClassloader"
    BY <1>6, <1>a, <1>b, StageCalls
  <2>2. RestoreClassloader /\ UNCHANGED table
    BY <1>a, <2>1, ServedKinds
    DEF RegisterDriver, SetContextClassLoader, RestoreClassloader, IsOp, TestOps
  <2>3. stage' = "jvm"
    BY <1>6, <1>a, <2>1 DEF Go, NextStage
  <2>4. contextLoader' = original /\ UNCHANGED <<onClassPath, isRegistered, driverClassLoader, drivers, delegations, original>>
    BY <2>2 DEF RestoreClassloader
  <2>5. StageInv'
    BY <1>6, <1>a, <1>b, <2>2, <2>3, <2>4 DEF StageInv, Stages, InClass
  <2>6. LoaderInv'
    BY <1>6, <1>a, <1>b, <1>c, <2>3, <2>4 DEF LoaderInv, InClass, Own
  <2>7. TableInv'
    BY <1>6, <1>a, <1>b, <2>2, <2>3 DEF TableInv
  <2>8. DriverInv'
    BY <1>a, <1>b, <2>3, <2>4, DriversSame
  <2>. QED
    BY <2>5, <2>6, <2>7, <2>8 DEF SessionInv
<1>. QED
  BY <1>1, <1>2, <1>3, <1>4, <1>5, <1>6, <1>a, <1>b, <1>c, StageCalls

(* A call that throws: the set-up goes on with the tear-down.              *)
LEMMA ThrowKept ==
  ASSUME SessionInv, Throw
  PROVE  SessionInv'
<1>. USE DEF jvm
<1>a. /\ InScript /\ Call[1] # "restoreClassloader" /\ lost' = TRUE
      /\ stage' = StageAfterThrow[stage]
      /\ class' = class /\ classes' = classes /\ test' = test
      /\ StageInv /\ LoaderInv /\ DriverInv
  BY DEF Throw, SessionInv, IsOp, Unwind, Go
<1>b. /\ \/ UNCHANGED jvm
         \/ SetContextClassLoader
         \/ RegisterDriverHalf
      /\ table' \in BOOLEAN
  BY <1>a DEF Throw, StageInv
<1>c. class \in {"JdbcTest", "JPATest"} /\ class \in classes
      /\ stage \in {"before", "test", "clean", "after"}
  BY <1>a, StageCalls DEF StageInv, Classes, InClass
<1>d. \/ UNCHANGED jvm
      \/ /\ stage = "before" /\ class = "JPATest"
         /\ original' = contextLoader
         /\ UNCHANGED <<onClassPath, isRegistered, driverClassLoader, drivers, delegations>>
      \/ /\ stage = "before" /\ RegisterDriverHalf
         /\ UNCHANGED <<isRegistered, contextLoader, original>>
  <2>1. CASE SetContextClassLoader
    <3>1. Call[1] = "setContextClassLoader"
      BY <2>1 DEF SetContextClassLoader, IsOp
    <3>2. stage = "before" /\ class = "JPATest"
      BY <1>a, <1>c, <3>1, StageCalls DEF TestOps, StageInv
    <3>. QED
      BY <2>1, <3>2 DEF SetContextClassLoader
  <2>2. CASE RegisterDriverHalf
    <3>1. Call[1] = "registerDriver"
      BY <2>2 DEF RegisterDriverHalf, IsOp
    <3>2. stage = "before"
      BY <1>a, <1>c, <3>1, StageCalls DEF TestOps, StageInv
    <3>. QED
      BY <1>a, <2>2, <3>2 DEF RegisterDriverHalf, StageInv
  <2>. QED
    BY <1>b, <2>1, <2>2
<1>e. DriverInv'
  <2>1. stage' # "down"
    BY <1>a, <1>c DEF StageAfterThrow
  <2>2. CASE RegisterDriverHalf
    BY <1>a, <2>1, <2>2, DriversHalf
  <2>3. CASE ~RegisterDriverHalf
    <3>1. UNCHANGED <<onClassPath, isRegistered, driverClassLoader, drivers, delegations>>
      BY <1>d, <2>3
    <3>. QED
      BY <1>a, <2>1, <3>1, DriversSame
  <2>. QED
    BY <2>2, <2>3
<1>1. CASE stage \in {"test", "clean"}
  <2>1. stage' \in {"clean", "ready"} /\ class = "JdbcTest" /\ UNCHANGED jvm
    BY <1>1, <1>a, <1>d DEF StageAfterThrow, StageInv
  <2>2. StageInv'
    BY <1>a, <1>b, <1>c, <2>1 DEF StageInv, Stages, InClass
  <2>3. LoaderInv'
    BY <1>1, <1>a, <2>1 DEF LoaderInv, InClass, Own
  <2>. QED
    BY <1>a, <1>e, <2>2, <2>3 DEF SessionInv, TableInv
<1>2. CASE stage = "before" /\ class = "JdbcTest"
  <2>1. stage' = "after"
    BY <1>2, <1>a DEF StageAfterThrow
  <2>2. /\ UNCHANGED <<contextLoader, original>> /\ isRegistered' = isRegistered
    BY <1>2, <1>a, <1>d
  <2>3. StageInv'
    BY <1>a, <1>b, <1>c, <2>1, <2>2 DEF StageInv, Stages, InClass
  <2>4. LoaderInv'
    BY <1>2, <1>a, <2>1, <2>2 DEF LoaderInv, InClass, Own
  <2>. QED
    BY <1>a, <1>e, <2>3, <2>4 DEF SessionInv, TableInv
<1>3. CASE stage = "before" /\ class = "JPATest"
  <2>1. stage' = "after"
    BY <1>3, <1>a DEF StageAfterThrow
  <2>2. /\ original' \in {original, contextLoader} /\ isRegistered' = isRegistered
    BY <1>3, <1>a, <1>d
  <2>3. StageInv'
    BY <1>a, <1>b, <1>c, <2>1, <2>2 DEF StageInv, Stages, InClass
  <2>4. LoaderInv'
    BY <1>3, <1>a, <1>c, <2>1, <2>2 DEF LoaderInv, InClass, Own
  <2>. QED
    BY <1>a, <1>e, <2>3, <2>4 DEF SessionInv, TableInv
<1>4. CASE stage = "after"
  <2>1. class = "JdbcTest" /\ UNCHANGED jvm
    BY <1>4, <1>a, <1>c, <1>d, StageCalls
  <2>2. stage' = "jvm"
    BY <1>4, <1>a DEF StageAfterThrow
  <2>3. StageInv'
    BY <1>a, <1>b, <1>c, <2>1, <2>2 DEF StageInv, Stages, InClass
  <2>4. LoaderInv'
    BY <1>4, <1>a, <2>1, <2>2 DEF LoaderInv, InClass, Own
  <2>. QED
    BY <1>a, <1>e, <2>3, <2>4 DEF SessionInv, TableInv
<1>. QED
  BY <1>1, <1>2, <1>3, <1>4, <1>c

(* An assertion fails, or the table is or is not there: only in the tests  *)
(* and in the set-up and tear-down of JdbcTest.                            *)
LEMMA RefusalKept ==
  ASSUME SessionInv, AssertionFails \/ TableRefused
  PROVE  SessionInv'
<1>. USE DEF jvm
<1>a. /\ InScript /\ stage' = StageAfterThrow[stage]
      /\ class' = class /\ classes' = classes /\ test' = test /\ lost' = lost
      /\ UNCHANGED <<jvm, table>>
      /\ StageInv /\ LoaderInv /\ DriverInv /\ TableInv
  BY DEF AssertionFails, TableRefused, SessionInv, IsOp, Unwind, Go
<1>b. class \in {"JdbcTest", "JPATest"} /\ class \in classes
      /\ stage \in {"before", "test", "clean", "after"}
  BY <1>a, StageCalls DEF StageInv, Classes, InClass
<1>c. \/ stage = "test"
      \/ stage = "before" /\ class = "JdbcTest" /\ pc # 1
      \/ stage = "after" /\ class = "JdbcTest" /\ (table = FALSE \/ lost)
  <2>1. CASE AssertionFails
    <3>1. Call[1] \in {"assertSelect", "assertTaken", "assertChanged", "assertCommitThrows"}
      BY <1>a, <2>1 DEF AssertionFails, Holds, IsOp
    <3>. QED
      BY <1>a, <1>b, <3>1, StageCalls
  <2>2. CASE TableRefused
    <3>1. Call[1] = "createTable" \/ (Call[1] = "dropTable" /\ (table = FALSE \/ ~Connects))
      BY <1>a, <2>2 DEF TableRefused, IsOp, StageInv
    <3>2. CASE Call[1] = "createTable"
      BY <1>a, <1>b, <3>2, StageCalls DEF TestOps
    <3>3. CASE Call[1] = "dropTable" /\ (table = FALSE \/ ~Connects)
      <4>1. stage = "after" /\ class = "JdbcTest"
        BY <1>a, <1>b, <3>3, StageCalls DEF TestOps
      <4>2. isRegistered => Connects
        BY <1>a DEF DriverInv, Connects
      <4>3. isRegistered \/ lost
        BY <1>a, <4>1 DEF LoaderInv, InClass
      <4>. QED
        BY <3>3, <4>1, <4>2, <4>3
    <3>. QED
      BY <3>1, <3>2, <3>3
  <2>. QED
    BY <2>1, <2>2
<1>d. stage \in {"test", "after", "before"} /\ class = "JdbcTest"
      /\ stage' = IF stage = "test" THEN "clean" ELSE IF stage = "before" THEN "after" ELSE "jvm"
  BY <1>a, <1>c DEF StageInv, StageAfterThrow
<1>1. StageInv'
  BY <1>a, <1>b, <1>d DEF StageInv, Stages, InClass
<1>2. LoaderInv'
  BY <1>a, <1>c, <1>d DEF LoaderInv, InClass, Own
<1>3. TableInv'
  BY <1>a, <1>c, <1>d DEF TableInv
<1>4. DriverInv'
  BY <1>a, <1>d, DriversSame
<1>. QED
  BY <1>1, <1>2, <1>3, <1>4 DEF SessionInv

(* Every step keeps the invariant, action by action.                       *)
LEMMA SessionInductive == SessionInv /\ [Next]_vars => SessionInv'
<1>. SUFFICES ASSUME SessionInv, [Next]_vars PROVE SessionInv'
  OBVIOUS
<1>. USE DEF jvm, counts, course, db
<1>a. StageInv /\ LoaderInv /\ DriverInv /\ TableInv
  BY DEF SessionInv
<1>1. CASE StartJvm
  <2>1. /\ stage = "down" /\ stage' = "jvm" /\ classes' = {} /\ lost' = FALSE
        /\ UNCHANGED <<class, test, jvm, table>>
    BY <1>1 DEF StartJvm
  <2>2. StageInv'
    BY <1>a, <2>1 DEF StageInv, Stages, InClass
  <2>3. LoaderInv'
    BY <1>a, <2>1 DEF LoaderInv, InClass, Own
  <2>4. TableInv'
    BY <2>1 DEF TableInv
  <2>5. DriverInv'
    BY <1>a, <2>1 DEF DriverInv
  <2>. QED
    BY <2>2, <2>3, <2>4, <2>5 DEF SessionInv
<1>2. ASSUME NEW k \in Classes, StartClass(k) PROVE SessionInv'
  <2>1. /\ stage = "jvm" /\ k \notin classes
        /\ stage' = "before" /\ class' = k /\ classes' = classes \union {k} /\ pc' = 1
        /\ UNCHANGED <<test, jvm, table, lost>>
    BY <1>2 DEF StartClass
  <2>2. StageInv'
    BY <1>a, <2>1 DEF StageInv, Stages, InClass
  <2>3. LoaderInv'
    BY <1>a, <2>1 DEF LoaderInv, InClass, Own
  <2>4. TableInv'
    BY <1>a, <2>1 DEF TableInv, Classes
  <2>5. DriverInv'
    BY <1>a, <2>1, DriversSame
  <2>. QED
    BY <2>2, <2>3, <2>4, <2>5 DEF SessionInv
<1>3. ASSUME NEW t \in Tests, StartTest(t) PROVE SessionInv'
  <2>1. /\ stage = "ready" /\ class = "JdbcTest" /\ stage' = "test" /\ test' = t
        /\ UNCHANGED <<class, classes, jvm, table, lost>>
    BY <1>3 DEF StartTest
  <2>2. StageInv'
    BY <1>a, <2>1 DEF StageInv, Stages, InClass
  <2>3. LoaderInv'
    BY <1>a, <2>1 DEF LoaderInv, InClass, Own
  <2>4. TableInv'
    BY <1>a, <2>1 DEF TableInv
  <2>5. DriverInv'
    BY <1>a, <2>1, DriversSame
  <2>. QED
    BY <2>2, <2>3, <2>4, <2>5 DEF SessionInv
<1>4. CASE EndClass
  <2>1. /\ stage = "ready" /\ stage' = "after"
        /\ UNCHANGED <<class, classes, jvm, table, lost>>
    BY <1>4 DEF EndClass
  <2>2. StageInv'
    BY <1>a, <2>1 DEF StageInv, Stages, InClass
  <2>3. LoaderInv'
    BY <1>a, <2>1 DEF LoaderInv, InClass, Own
  <2>4. TableInv'
    BY <1>a, <2>1 DEF TableInv
  <2>5. DriverInv'
    BY <1>a, <2>1, DriversSame
  <2>. QED
    BY <2>2, <2>3, <2>4, <2>5 DEF SessionInv
<1>5. CASE StopJvm
  <2>1. /\ stage = "jvm" /\ stage' = "down" /\ Exit
        /\ UNCHANGED <<class, classes, test, table, lost>>
    BY <1>5 DEF StopJvm
  <2>2. StageInv'
    BY <1>a, <2>1 DEF StageInv, Stages, InClass, Exit
  <2>3. LoaderInv'
    BY <1>a, <2>1 DEF LoaderInv, InClass, Own, Exit
  <2>4. TableInv'
    BY <1>a, <2>1 DEF TableInv
  <2>5. DriverInv'
    BY <1>a, <2>1, DriversGone
  <2>. QED
    BY <2>2, <2>3, <2>4, <2>5 DEF SessionInv
<1>6. CASE Kill
  <2>1. /\ stage' = "down" /\ lost' = TRUE /\ Exit
        /\ UNCHANGED <<class, classes, table>>
    BY <1>6 DEF Kill
  <2>2. StageInv'
    BY <1>a, <2>1 DEF StageInv, Stages, InClass, Exit
  <2>3. LoaderInv'
    BY <1>a, <2>1 DEF LoaderInv, InClass, Own, Exit
  <2>4. TableInv'
    BY <2>1 DEF TableInv
  <2>5. DriverInv'
    BY <1>a, <2>1, DriversGone
  <2>. QED
    BY <2>2, <2>3, <2>4, <2>5 DEF SessionInv
<1>7. CASE (\E g \in ghosts : ForgetGhost(g)) \/ UNCHANGED vars
  <2>1. UNCHANGED <<course, jvm, table, lost>>
    BY <1>7 DEF ForgetGhost, vars
  <2>2. StageInv'
    BY <1>a, <2>1 DEF StageInv
  <2>3. LoaderInv'
    BY <1>a, <2>1 DEF LoaderInv, Own
  <2>4. TableInv'
    BY <1>a, <2>1 DEF TableInv
  <2>5. DriverInv'
    BY <1>a, <2>1 DEF DriverInv
  <2>. QED
    BY <2>2, <2>3, <2>4, <2>5 DEF SessionInv
<1>. QED
  BY <1>1, <1>2, <1>3, <1>4, <1>5, <1>6, <1>7, StepKept, ThrowKept, RefusalKept DEF Next, Junit

-----------------------------------------------------------------------------
(* The rows after the writes of a transaction                              *)

(* The greatest of at most three positions.                                *)
LEMMA Greatest ==
  ASSUME NEW t \in SUBSET (1..3), t # {}
  PROVE  Max(t) \in t /\ \A y \in t : Max(t) >= y
<1>0. \A y \in t : y \in Nat /\ y \in {1, 2, 3}
  OBVIOUS
<1>1. \E x \in t : \A y \in t : x >= y
  <2>1. CASE 3 \in t
    BY <2>1, <1>0
  <2>2. CASE 3 \notin t /\ 2 \in t
    BY <2>2, <1>0
  <2>3. CASE 3 \notin t /\ 2 \notin t
    <3>1. PICK x \in t : TRUE
      OBVIOUS
    <3>2. x = 1 /\ \A y \in t : y = 1
      BY <2>3, <1>0
    <3>. QED
      BY <3>2
  <2>. QED
    BY <2>1, <2>2, <2>3
<1>. QED
  BY <1>1 DEF Max

(* The rows after a transaction's writes, up to three of them.             *)
After(r, writes) == FoldLeft(Written, r, writes)

(* A fold of Written over up to three writes is what it says.              *)
LEMMA FoldWrites ==
  ASSUME NEW r, NEW n \in 0..3, NEW w, DOMAIN w = 1..n
  PROVE  /\ n = 0 => After(r, w) = r
         /\ n = 1 => After(r, w) = Written(r, w[1])
         /\ n = 2 => After(r, w) = Written(Written(r, w[1]), w[2])
         /\ n = 3 => After(r, w) = Written(Written(Written(r, w[1]), w[2]), w[3])
<1>. DEFINE S == 1..n
            W(x, k) == Written(x, w[k])
            E(g) == [t \in SUBSET S |-> IF t = {} THEN r ELSE W(g[t \ {Max(t)}], Max(t))]
            iter == CHOOSE g : g = E(g)
            Same(m, g, h) == \A t \in SUBSET S : t \subseteq 1..m => g[t] = h[t]
<1>1. After(r, w) = iter[S]
  BY Zenon DEF After, FoldLeft, MapThenFoldSet
<1>2. \A g : /\ E(g)[{}] = r
             /\ \A t \in SUBSET S : t # {} => E(g)[t] = W(g[t \ {Max(t)}], Max(t))
  OBVIOUS
<1>3. S \subseteq 1..3 /\ n \in Nat
  OBVIOUS
<1>4. \A g, h : Same(0, E(g), E(h))
  <2>1. \A t \in SUBSET S : t \subseteq 1..0 => t = {}
    OBVIOUS
  <2>. HIDE DEF S, E
  <2>. QED
    BY <1>2, <2>1
<1>5. ASSUME NEW m \in Nat, NEW g, NEW h, Same(m, g, h) PROVE Same(m + 1, E(g), E(h))
  <2>. HIDE DEF S, E, W
  <2>1. SUFFICES ASSUME NEW t \in SUBSET S, t \subseteq 1..m+1, t # {}
        PROVE  E(g)[t] = E(h)[t]
    BY <1>2
  <2>2. Max(t) \in t /\ \A y \in t : Max(t) >= y
    BY <2>1, <1>3, Greatest
  <2>3. ASSUME NEW M \in t, \A y \in t : M >= y
        PROVE  t \ {M} \subseteq 1..m /\ t \ {M} \in SUBSET S
    <3>1. \A y \in t : y \in 1..m+1 /\ y \in Nat
      BY <2>1
    <3>2. ASSUME NEW y \in t, y # M PROVE y \in 1..m
      BY <2>3, <3>1, <3>2
    <3>. QED
      BY <2>1, <3>2
  <2>4. t \ {Max(t)} \subseteq 1..m /\ t \ {Max(t)} \in SUBSET S
    BY <2>2, <2>3
  <2>5. g[t \ {Max(t)}] = h[t \ {Max(t)}]
    BY <2>4, <1>5
  <2>. QED
    BY <1>2, <2>1, <2>5
<1>. HIDE DEF W
<1>6. \E g : g = E(g)
  <2>. DEFINE F0 == [t \in SUBSET S |-> r]
              F1 == E(F0)  F2 == E(F1)  F3 == E(F2)  F4 == E(F3)  F5 == E(F4)
  <2>1. Same(0, F1, F2)
    BY <1>4
  <2>. HIDE DEF Same, E, F0
  <2>2. Same(0+1, F2, F3)
    BY <2>1, <1>5
  <2>3. Same(0+1+1, F3, F4)
    BY <2>2, <1>5
  <2>4. Same(0+1+1+1, F4, F5)
    BY <2>3, <1>5
  <2>5. \A t \in SUBSET S : F4[t] = F5[t]
    <3>1. 0+1+1+1 = 3
      OBVIOUS
    <3>2. \A t \in SUBSET S : t \subseteq 1..3
      BY <1>3
    <3>. HIDE DEF F4, F5
    <3>3. Same(3, F4, F5)
      BY <2>4, <3>1
    <3>. QED
      BY <3>2, <3>3 DEF Same
  <2>6. \A f, g : (\A t \in SUBSET S : E(f)[t] = E(g)[t]) => E(f) = E(g)
    BY DEF E
  <2>7. F4 = F5
    BY <2>5, <2>6
  <2>. QED
    BY <2>7
<1>7. iter = E(iter)
  BY <1>6
<1>. HIDE DEF iter
<1>8. /\ iter[{}] = r
      /\ \A t \in SUBSET S : t # {} => iter[t] = W(iter[t \ {Max(t)}], Max(t))
  <2>. HIDE DEF E
  <2>. QED
    BY <1>2, <1>7
<1>9. ASSUME NEW k \in 1..3, k <= n PROVE iter[1..k] = W(iter[1..k-1], k)
  <2>1. Max(1..k) \in 1..k /\ \A y \in 1..k : Max(1..k) >= y
    <3>1. 1..k \in SUBSET (1..3) /\ 1..k # {}
      BY <1>9
    <3>. QED
      BY <3>1, Greatest
  <2>2. \A M \in 1..k : (\A y \in 1..k : M >= y) => M = k
    OBVIOUS
  <2>3. Max(1..k) = k /\ (1..k) \ {k} = 1..k-1 /\ 1..k \in SUBSET S /\ 1..k # {}
    BY <1>9, <2>1, <2>2
  <2>. HIDE DEF S
  <2>. QED
    BY <1>8, <2>3
<1>10. 1..0 = {} /\ 1-1 = 0 /\ 2-1 = 1 /\ 3-1 = 2
  OBVIOUS
<1>11. /\ n >= 1 => iter[1..1] = W(r, 1)
       /\ n >= 2 => iter[1..2] = W(W(r, 1), 2)
       /\ n >= 3 => iter[1..3] = W(W(W(r, 1), 2), 3)
  BY <1>8, <1>9, <1>10
<1>12. iter[{}] = r /\ (n = 0 => S = {}) /\ S = 1..n
  BY <1>8
<1>. HIDE DEF S
<1>. HIDE DEF E, Same
<1>13. ASSUME n = 0 PROVE After(r, w) = r
  BY <1>1, <1>12, <1>13
<1>14. ASSUME n = 1 PROVE After(r, w) = W(r, 1)
  BY <1>1, <1>11, <1>12, <1>14
<1>15. ASSUME n = 2 PROVE After(r, w) = W(W(r, 1), 2)
  BY <1>1, <1>11, <1>12, <1>15
<1>16. ASSUME n = 3 PROVE After(r, w) = W(W(W(r, 1), 2), 3)
  BY <1>1, <1>11, <1>12, <1>16
<1>. QED
  BY <1>13, <1>14, <1>15, <1>16 DEF W

-----------------------------------------------------------------------------
(* What a test makes of the database                                       *)

(* The database as a test sees it: committed rows, connections, the text   *)
(* it has kept.                                                            *)
Database == <<rows, conn, taken>>

ViewOf(r, c) ==
  After(IF c.begun /\ c.level = "REPEATABLE_READ" THEN c.snapshot ELSE r, c.writes)
SeenIn(d, who, i) == IF who = "new" THEN d[1][i] ELSE ViewOf(d[1], d[2][who])[i]
BegunOn(r, c) ==
  IF c.auto \/ c.begun THEN c ELSE [c EXCEPT !.begun = TRUE, !.snapshot = r]

(* The connection after a call that neither writes rows nor reads them.    *)
Linking(call, c) ==
  CASE call[1] = "getConnection" -> Fresh
    [] call[1] = "close" -> Shut
    [] call[1] \in {"commit", "rollback"} -> Ended(c)
    [] call[1] = "setAutoCommit" -> [c EXCEPT !.auto = FALSE]
    [] call[1] = "setTransactionIsolation" -> [c EXCEPT !.level = call[3]]
    [] call[1] = "setSavepoint" -> [c EXCEPT !.marks = Append(@, Len(c.writes))]
    [] call[1] = "releaseSavepoint" -> [c EXCEPT !.marks = SubSeq(@, 1, call[3] - 1)]
    [] call[1] = "rollbackTo" -> [c EXCEPT !.marks = SubSeq(@, 1, call[3] - 1),
                                           !.writes = SubSeq(@, 1, c.marks[call[3]])]

(* The calls of a test as functions of the database.                       *)
AfterLink(call, d) ==
  << IF call[1] = "commit" THEN After(d[1], d[2][call[2]].writes) ELSE d[1],
     [d[2] EXCEPT ![call[2]] = Linking(call, d[2][call[2]])],
     d[3] >>

AfterWrite(call, d) ==
  LET c == d[2][call[2]]
      w == <<call[1], call[3], call[4]>>
  IN  IF c.auto THEN << Written(d[1], w), d[2], d[3] >>
      ELSE << d[1],
              [d[2] EXCEPT ![call[2]] = [BegunOn(d[1], c) EXCEPT !.writes = Append(@, w)]],
              d[3] >>

AfterRead(call, d) ==
  << d[1],
     IF call[2] = "new" THEN d[2]
     ELSE [d[2] EXCEPT ![call[2]] = BegunOn(d[1], d[2][call[2]])],
     IF call[1] = "take" THEN SeenIn(d, call[2], call[3]) ELSE d[3] >>

WriteOps == {"insert", "update"}
ReadOps == {"take", "assertSelect", "assertTaken", "assertChanged"}

Effect(call, d) ==
  IF call[1] \in WriteOps THEN AfterWrite(call, d)
  ELSE IF call[1] \in ReadOps THEN AfterRead(call, d)
  ELSE IF call[1] = "assertCommitThrows" THEN d
  ELSE AfterLink(call, d)

HoldsIn(call, d) ==
  /\ call[1] = "assertSelect" => ReadsAs(call[4], SeenIn(d, call[2], call[3]))
  /\ call[1] = "assertTaken" => SeenIn(d, call[2], call[3]) = d[3]
  /\ call[1] = "assertChanged" => SeenIn(d, call[2], call[3]) # d[3]
  /\ call[1] = "assertCommitThrows" => d[2][call[2]].auto

(* A served call of a test does to the database what Effect says.          *)
LEMMA ServedEffect ==
  ASSUME InScript, Served, Call[1] \in TestOps
  PROVE  Database' = Effect(Call, Database)
<1>1. OnDatabase /\ Call[1] \notin {"createTable", "dropTable", "deleteTable"}
  BY DEF Served, OnLoaders, RegisterDriver, SetContextClassLoader, RestoreClassloader, IsOp,
         TestOps
<1>2. CASE Statement
  <2>1. Call[1] \in WriteOps
    BY <1>2 DEF Statement, IsOp, WriteOps
  <2>2. Database' = AfterWrite(Call, Database)
    BY <1>2 DEF Statement, AfterWrite, Database, C, Begin, BegunOn
  <2>. QED
    BY <2>1, <2>2 DEF Effect
<1>3. CASE Reads
  <2>1. Call[1] \in ReadOps /\ Call[1] \notin WriteOps
    BY <1>3 DEF Reads, IsOp, ReadOps, WriteOps
  <2>2. Seen(Call[2], Call[3]) = SeenIn(Database, Call[2], Call[3])
    BY DEF Seen, SeenIn, View, ViewOf, Base, After, Database
  <2>3. Database' = AfterRead(Call, Database)
    BY <1>1, <1>3, <2>2 DEF Reads, AfterRead, Database, C, Begin, BegunOn, IsOp
  <2>. QED
    BY <2>1, <2>3 DEF Effect
<1>4. CASE AssertCommitThrows
  BY <1>4 DEF AssertCommitThrows, IsOp, Effect, WriteOps, ReadOps, Database, db
<1>5. CASE Finish
  <2>1. /\ Call[1] \in {"commit", "rollback", "close"}
        /\ Call[1] \notin WriteOps \union ReadOps \union {"assertCommitThrows"}
    BY <1>5 DEF Finish, IsOp, WriteOps, ReadOps
  <2>2. Database' = AfterLink(Call, Database)
    BY <1>5, <2>1 DEF Finish, IsOp, AfterLink, Linking, Database, C, After
  <2>. QED
    BY <2>1, <2>2 DEF Effect
<1>6. CASE GetConnection \/ Configure \/ SetSavepoint \/ ToSavepoint
  <2>1. /\ Call[1] \in {"getConnection", "setAutoCommit", "setTransactionIsolation",
                        "setSavepoint", "releaseSavepoint", "rollbackTo"}
        /\ Call[1] \notin WriteOps \union ReadOps \union {"assertCommitThrows"}
        /\ Call[1] \notin {"commit", "rollback", "close"}
    BY <1>6 DEF GetConnection, Configure, SetSavepoint, ToSavepoint, IsOp, WriteOps, ReadOps
  <2>2. ConnBecomes(Linking(Call, C))
    <3>1. CASE GetConnection
      BY <3>1 DEF GetConnection, Linking, IsOp
    <3>2. CASE Configure
      BY <3>2 DEF Configure, Linking, IsOp
    <3>3. CASE SetSavepoint
      BY <3>3 DEF SetSavepoint, Linking, IsOp
    <3>4. CASE ToSavepoint
      BY <3>4 DEF ToSavepoint, Linking, IsOp
    <3>. QED
      BY <1>6, <3>1, <3>2, <3>3, <3>4
  <2>3. Database' = AfterLink(Call, Database)
    BY <2>1, <2>2 DEF ConnBecomes, AfterLink, Database, C
  <2>. QED
    BY <2>1, <2>3 DEF Effect
<1>. QED
  BY <1>1, <1>2, <1>3, <1>4, <1>5, <1>6
  DEF OnDatabase, CreateTable, DropTable, DeleteTable, IsOp

(* An assertion holds as HoldsIn says.                                     *)
LEMMA HoldsOfDatabase ==
  ASSUME InScript, HoldsIn(Call, Database)
  PROVE  Holds
<1>1. Seen(Call[2], Call[3]) = SeenIn(Database, Call[2], Call[3])
  BY DEF Seen, SeenIn, View, ViewOf, Base, After, Database
<1>2. Database[2] = conn /\ Database[3] = taken
  BY DEF Database
<1>. HIDE DEF Database
<1>. QED
  BY <1>1, <1>2 DEF Holds, HoldsIn, IsOp, C

-----------------------------------------------------------------------------
(* Scripts that pass                                                       *)

(* A script that starts with d: every assertion of it holds, it ends in e. *)
Passes(d, body, e) ==
  /\ body \in Seq(TestCalls)
  /\ \E h : /\ h[1] = d /\ h[Len(body) + 1] = e
            /\ \A k \in DOMAIN body : HoldsIn(body[k], h[k]) /\ h[k+1] = Effect(body[k], h[k])

(* From position p on, and with d, no assertion of the script fails.       *)
Clear(body, p, d) ==
  \E h : /\ h[p] = d
         /\ \A k \in DOMAIN body :
              k >= p => HoldsIn(body[k], h[k]) /\ h[k+1] = Effect(body[k], h[k])

(* A script that passes has nothing to fail from its first call on.        *)
LEMMA PassesClear ==
  ASSUME NEW d, NEW body, NEW e, Passes(d, body, e)
  PROVE  Clear(body, 1, d)
  BY DEF Passes, Clear

(* Its next assertion holds, and after the call there is none to fail.     *)
LEMMA ClearStep ==
  ASSUME NEW body \in Seq(TestCalls), NEW p \in DOMAIN body, NEW d, Clear(body, p, d)
  PROVE  HoldsIn(body[p], d) /\ Clear(body, p + 1, Effect(body[p], d))
<1>. HIDE DEF TestCalls
<1>1. PICK h : /\ h[p] = d
               /\ \A k \in DOMAIN body :
                    k >= p => HoldsIn(body[k], h[k]) /\ h[k+1] = Effect(body[k], h[k])
  BY DEF Clear
<1>2. p \in Nat /\ p >= p /\ \A k \in DOMAIN body : k \in Nat /\ (k >= p + 1 => k >= p)
  OBVIOUS
<1>3. HoldsIn(body[p], d) /\ h[p+1] = Effect(body[p], d)
  BY <1>1, <1>2
<1>4. \A k \in DOMAIN body :
        k >= p + 1 => HoldsIn(body[k], h[k]) /\ h[k+1] = Effect(body[k], h[k])
  BY <1>1, <1>2
<1>. QED
  BY <1>3, <1>4 DEF Clear

(* One call.                                                               *)
LEMMA PassesCall ==
  ASSUME NEW call, <<call>> \in Seq(TestCalls), NEW d, HoldsIn(call, d)
  PROVE  Passes(d, <<call>>, Effect(call, d))
<1>. DEFINE h == [k \in 1..2 |-> IF k = 1 THEN d ELSE Effect(call, d)]
            body == <<call>>
<1>. HIDE DEF TestCalls
<1>1. h[1] = d /\ h[2] = Effect(call, d)
  OBVIOUS
<1>2. /\ body \in Seq(TestCalls) /\ Len(body) + 1 = 2 /\ DOMAIN body = {1}
      /\ body[1] = call /\ 1 + 1 = 2
  OBVIOUS
<1>. HIDE DEF h, body
<1>3. \A k \in DOMAIN body : HoldsIn(body[k], h[k]) /\ h[k+1] = Effect(body[k], h[k])
  BY <1>1, <1>2
<1>4. Passes(d, body, Effect(call, d))
  BY <1>1, <1>2, <1>3 DEF Passes
<1>. QED
  BY <1>4 DEF body

(* One script after another.                                               *)
LEMMA PassesBoth ==
  ASSUME NEW d, NEW a, NEW m, NEW b, NEW e, Passes(d, a, m), Passes(m, b, e)
  PROVE  Passes(d, a \o b, e)
<1>. HIDE DEF TestCalls
<1>1. PICK f : /\ f[1] = d /\ f[Len(a) + 1] = m
               /\ \A k \in DOMAIN a : HoldsIn(a[k], f[k]) /\ f[k+1] = Effect(a[k], f[k])
  BY DEF Passes
<1>2. PICK g : /\ g[1] = m /\ g[Len(b) + 1] = e
               /\ \A k \in DOMAIN b : HoldsIn(b[k], g[k]) /\ g[k+1] = Effect(b[k], g[k])
  BY DEF Passes
<1>3. a \in Seq(TestCalls) /\ b \in Seq(TestCalls)
  BY DEF Passes
<1>. DEFINE n == Len(a)
            body == a \o b
            h == [k \in 1..(n + Len(b) + 1) |-> IF k <= n + 1 THEN f[k] ELSE g[k - n]]
<1>4. /\ n \in Nat /\ Len(b) \in Nat
      /\ body \in Seq(TestCalls) /\ Len(body) = n + Len(b)
      /\ DOMAIN body = 1..(n + Len(b)) /\ DOMAIN a = 1..n /\ DOMAIN b = 1..Len(b)
      /\ \A k \in 1..n : body[k] = a[k]
      /\ \A k \in n+1..n+Len(b) : body[k] = b[k - n]
  BY <1>3, ConcatProperties
<1>. HIDE DEF body, n
<1>5. \A k \in 1..n+1 : h[k] = f[k]
  BY <1>4
<1>6. \A k \in n+1..n+Len(b)+1 : h[k] = g[k - n]
  <2>1. ASSUME NEW k \in n+1..n+Len(b)+1, k = n + 1 PROVE h[k] = g[k - n]
    <3>1. k - n = 1 /\ h[k] = f[n + 1]
      BY <2>1, <1>4
    <3>. QED
      BY <3>1, <1>1, <1>2 DEF n
  <2>2. ASSUME NEW k \in n+1..n+Len(b)+1, k # n + 1 PROVE h[k] = g[k - n]
    BY <2>2, <1>4
  <2>. QED
    BY <2>1, <2>2
<1>. HIDE DEF h
<1>7. ASSUME NEW k \in DOMAIN body
      PROVE  HoldsIn(body[k], h[k]) /\ h[k+1] = Effect(body[k], h[k])
  <2>1. CASE k \in 1..n
    <3>1. k \in DOMAIN a /\ k + 1 \in 1..n+1 /\ k \in 1..n+1
      BY <2>1, <1>4
    <3>. QED
      BY <3>1, <2>1, <1>1, <1>4, <1>5
  <2>2. CASE k \notin 1..n
    <3>1. /\ k \in n+1..n+Len(b) /\ k - n \in DOMAIN b /\ (k + 1) - n = (k - n) + 1
          /\ k \in n+1..n+Len(b)+1 /\ k + 1 \in n+1..n+Len(b)+1
      BY <2>2, <1>4
    <3>2. h[k] = g[k - n] /\ h[k+1] = g[(k - n) + 1] /\ body[k] = b[k - n]
      BY <3>1, <1>4, <1>6
    <3>. QED
      BY <3>1, <3>2, <1>2
  <2>. QED
    BY <2>1, <2>2
<1>8. h[1] = d /\ h[Len(body) + 1] = e
  <2>1. 1 \in 1..n+1 /\ Len(body) + 1 \in n+1..n+Len(b)+1 /\ (Len(body) + 1) - n = Len(b) + 1
    BY <1>4
  <2>2. h[1] = f[1] /\ h[Len(body) + 1] = g[Len(b) + 1]
    BY <2>1, <1>5, <1>6
  <2>. QED
    BY <2>2, <1>1, <1>2
<1>9. Passes(d, body, e)
  BY <1>4, <1>7, <1>8 DEF Passes
<1>. QED
  BY <1>9 DEF body

-----------------------------------------------------------------------------
(* What each call does to the database                                     *)

Rows(r1, r2) == [i \in Ids |-> IF i = 1 THEN r1 ELSE r2]

(* The rows 1 and 2, the connection c, the other one and the kept text.    *)
At(c, r1, r2, x, y, t) == <<Rows(r1, r2), [d \in Conns |-> IF d = c THEN x ELSE y], t>>

On == TRUE
Off == FALSE

(* A connection; one that commits each statement, one that is to begin a   *)
(* transaction, and one in the middle of it.                               *)
Link(a, l, b, s, w, m) ==
  [open |-> On, auto |-> a, level |-> l, begun |-> b, snapshot |-> s, writes |-> w, marks |-> m]
Free(l) == Link(On, l, Off, NoRows, <<>>, <<>>)
Idle(l) == Link(Off, l, Off, NoRows, <<>>, <<>>)
Busy(l, s, w, m) == Link(Off, l, On, s, w, m)

(* The fields of a connection, read and replaced.                          *)
LEMMA Fields ==
  /\ \A a, l, b, s, w, m : Link(a, l, b, s, w, m).auto = a
  /\ \A a, l, b, s, w, m : Link(a, l, b, s, w, m).level = l
  /\ \A a, l, b, s, w, m : Link(a, l, b, s, w, m).begun = b
  /\ \A a, l, b, s, w, m : Link(a, l, b, s, w, m).snapshot = s
  /\ \A a, l, b, s, w, m : Link(a, l, b, s, w, m).writes = w
  /\ \A a, l, b, s, w, m : Link(a, l, b, s, w, m).marks = m
  /\ \A a, l, b, s, w, m, z : [Link(a, l, b, s, w, m) EXCEPT !.auto = z] = Link(z, l, b, s, w, m)
  /\ \A a, l, b, s, w, m, z : [Link(a, l, b, s, w, m) EXCEPT !.level = z] = Link(a, z, b, s, w, m)
  /\ \A a, l, b, s, w, m, z : [Link(a, l, b, s, w, m) EXCEPT !.begun = z] = Link(a, l, z, s, w, m)
  /\ \A a, l, b, s, w, m, z : [Link(a, l, b, s, w, m) EXCEPT !.snapshot = z] = Link(a, l, b, z, w, m)
  /\ \A a, l, b, s, w, m, z : [Link(a, l, b, s, w, m) EXCEPT !.writes = z] = Link(a, l, b, s, z, m)
  /\ \A a, l, b, s, w, m, z : [Link(a, l, b, s, w, m) EXCEPT !.marks = z] = Link(a, l, b, s, w, z)
<1>1. \A a, l, b, s, w, m : Link(a, l, b, s, w, m).auto = a
  BY DEF Link
<1>2. \A a, l, b, s, w, m : Link(a, l, b, s, w, m).level = l
  BY DEF Link
<1>3. \A a, l, b, s, w, m : Link(a, l, b, s, w, m).begun = b
  BY DEF Link
<1>4. \A a, l, b, s, w, m : Link(a, l, b, s, w, m).snapshot = s
  BY DEF Link
<1>5. \A a, l, b, s, w, m : Link(a, l, b, s, w, m).writes = w
  BY DEF Link
<1>6. \A a, l, b, s, w, m : Link(a, l, b, s, w, m).marks = m
  BY DEF Link
<1>7. \A a, l, b, s, w, m, z : [Link(a, l, b, s, w, m) EXCEPT !.auto = z] = Link(z, l, b, s, w, m)
  BY DEF Link
<1>8. \A a, l, b, s, w, m, z : [Link(a, l, b, s, w, m) EXCEPT !.level = z] = Link(a, z, b, s, w, m)
  BY DEF Link
<1>9. \A a, l, b, s, w, m, z : [Link(a, l, b, s, w, m) EXCEPT !.begun = z] = Link(a, l, z, s, w, m)
  BY DEF Link
<1>10. \A a, l, b, s, w, m, z : [Link(a, l, b, s, w, m) EXCEPT !.snapshot = z] = Link(a, l, b, z, w, m)
  BY DEF Link
<1>11. \A a, l, b, s, w, m, z : [Link(a, l, b, s, w, m) EXCEPT !.writes = z] = Link(a, l, b, s, z, m)
  BY DEF Link
<1>12. \A a, l, b, s, w, m, z : [Link(a, l, b, s, w, m) EXCEPT !.marks = z] = Link(a, l, b, s, w, z)
  BY DEF Link
<1>. QED
  BY <1>1, <1>2, <1>3, <1>4, <1>5, <1>6, <1>7, <1>8, <1>9, <1>10, <1>11, <1>12

(* A call on a connection, and what it makes of it.                        *)
LEMMA OnConnection ==
  ASSUME NEW c \in Conns, NEW r1, NEW r2, NEW x, NEW y, NEW t
  PROVE  /\ At(c, r1, r2, x, y, t)[1] = Rows(r1, r2)
         /\ At(c, r1, r2, x, y, t)[2][c] = x
         /\ At(c, r1, r2, x, y, t)[3] = t
         /\ \A z : << Rows(r1, r2), [At(c, r1, r2, x, y, t)[2] EXCEPT ![c] = z], t >>
                     = At(c, r1, r2, z, y, t)
<1>. DEFINE F(u) == [d \in Conns |-> IF d = c THEN u ELSE y]
<1>1. F(x)[c] = x /\ \A z : [F(x) EXCEPT ![c] = z] = F(z)
  OBVIOUS
<1>2. \A u : At(c, r1, r2, u, y, t) = <<Rows(r1, r2), F(u), t>>
  BY DEF At
<1>. HIDE DEF F
<1>. QED
  BY <1>1, <1>2

Quiet == {"getConnection", "close", "setAutoCommit", "setTransactionIsolation", "setSavepoint",
          "releaseSavepoint", "rollbackTo", "rollback"}

(* Calls that neither write rows nor read them.                            *)
LEMMA LinkPasses ==
  ASSUME NEW call, <<call>> \in Seq(TestCalls), call[1] \in Quiet, call[2] \in Conns,
         NEW r1, NEW r2, NEW x, NEW y, NEW t, NEW z, Linking(call, x) = z
  PROVE  Passes(At(call[2], r1, r2, x, y, t), <<call>>, At(call[2], r1, r2, z, y, t))
<1>. DEFINE d == At(call[2], r1, r2, x, y, t)
<1>1. HoldsIn(call, d)
  BY DEF HoldsIn, Quiet
<1>2. Effect(call, d) = AfterLink(call, d)
  BY DEF Effect, WriteOps, ReadOps, Quiet
<1>3. AfterLink(call, d) = <<d[1], [d[2] EXCEPT ![call[2]] = Linking(call, d[2][call[2]])], d[3]>>
  BY DEF AfterLink, Quiet
<1>4. AfterLink(call, d) = At(call[2], r1, r2, z, y, t)
  BY <1>3, OnConnection
<1>. HIDE DEF d
<1>5. Passes(d, <<call>>, At(call[2], r1, r2, z, y, t))
  BY <1>1, <1>2, <1>4, PassesCall
<1>. QED
  BY <1>5 DEF d

(* What setting up, marking and ending a transaction make of a connection. *)
LEMMA Links ==
  /\ \A c, x : /\ Linking(<<"getConnection", c>>, x) = Free("READ_COMMITTED")
               /\ Linking(<<"close", c>>, x) = Shut
  /\ \A c, l, s, w, m :
       /\ Linking(<<"rollback", c>>, Busy(l, s, w, m)) = Idle(l)
       /\ Linking(<<"commit", c>>, Busy(l, s, w, m)) = Idle(l)
       /\ Linking(<<"setSavepoint", c>>, Busy(l, s, w, m)) = Busy(l, s, w, Append(m, Len(w)))
  /\ \A c, l : Linking(<<"setAutoCommit", c>>, Free(l)) = Idle(l)
  /\ \A c, l, level : Linking(<<"setTransactionIsolation", c, level>>, Free(l)) = Free(level)
  /\ \A c, l, s, w, m, k :
       /\ Linking(<<"releaseSavepoint", c, k>>, Busy(l, s, w, m))
            = Busy(l, s, w, SubSeq(m, 1, k - 1))
       /\ Linking(<<"rollbackTo", c, k>>, Busy(l, s, w, m))
            = Busy(l, s, SubSeq(w, 1, m[k]), SubSeq(m, 1, k - 1))
<1>1. \A c, x : Linking(<<"getConnection", c>>, x) = Free("READ_COMMITTED")
  BY DEF Linking, Free, Link, Fresh, Shut, On, Off
<1>2. \A c, x : Linking(<<"close", c>>, x) = Shut
  BY DEF Linking
<1>3. \A c, x : Linking(<<"rollback", c>>, x) = Ended(x)
  BY DEF Linking
<1>4. \A c, x : Linking(<<"commit", c>>, x) = Ended(x)
  BY DEF Linking
<1>5. ASSUME NEW l, NEW s, NEW w, NEW m PROVE Ended(Busy(l, s, w, m)) = Idle(l)
  <2>1. [Busy(l, s, w, m) EXCEPT !.begun = Off] = Link(Off, l, Off, s, w, m)
    BY Fields DEF Busy
  <2>2. [Link(Off, l, Off, s, w, m) EXCEPT !.snapshot = NoRows] = Link(Off, l, Off, NoRows, w, m)
    BY Fields
  <2>3. [Link(Off, l, Off, NoRows, w, m) EXCEPT !.writes = <<>>]
          = Link(Off, l, Off, NoRows, <<>>, m)
    BY Fields
  <2>4. [Link(Off, l, Off, NoRows, <<>>, m) EXCEPT !.marks = <<>>] = Idle(l)
    BY Fields DEF Idle
  <2>5. Ended(Busy(l, s, w, m))
          = [[[[Busy(l, s, w, m) EXCEPT !.begun = Off] EXCEPT !.snapshot = NoRows]
                EXCEPT !.writes = <<>>] EXCEPT !.marks = <<>>]
    BY DEF Ended, Off
  <2>. QED
    BY <2>1, <2>2, <2>3, <2>4, <2>5
<1>6. ASSUME NEW c, NEW l PROVE Linking(<<"setAutoCommit", c>>, Free(l)) = Idle(l)
  <2>1. Linking(<<"setAutoCommit", c>>, Free(l)) = [Free(l) EXCEPT !.auto = Off]
    BY DEF Linking, Off
  <2>2. [Free(l) EXCEPT !.auto = Off] = Idle(l)
    BY Fields DEF Free, Idle
  <2>. QED
    BY <2>1, <2>2
<1>7. ASSUME NEW c, NEW l, NEW level
      PROVE  Linking(<<"setTransactionIsolation", c, level>>, Free(l)) = Free(level)
  <2>1. Linking(<<"setTransactionIsolation", c, level>>, Free(l))
          = [Free(l) EXCEPT !.level = level]
    BY DEF Linking
  <2>2. [Free(l) EXCEPT !.level = level] = Free(level)
    BY Fields DEF Free
  <2>. QED
    BY <2>1, <2>2
<1>8. ASSUME NEW l, NEW s, NEW w, NEW m
      PROVE  LET b == Busy(l, s, w, m)
             IN  /\ b.marks = m /\ b.writes = w
                 /\ \A z : [b EXCEPT !.marks = z] = Busy(l, s, w, z)
                 /\ \A z : [b EXCEPT !.writes = z] = Busy(l, s, z, m)
  <2>1. Busy(l, s, w, m).marks = m /\ Busy(l, s, w, m).writes = w
    BY Fields DEF Busy
  <2>2. \A z : [Busy(l, s, w, m) EXCEPT !.marks = z] = Busy(l, s, w, z)
    BY Fields DEF Busy
  <2>3. \A z : [Busy(l, s, w, m) EXCEPT !.writes = z] = Busy(l, s, z, m)
    BY Fields DEF Busy
  <2>. QED
    BY <2>1, <2>2, <2>3
<1>9. ASSUME NEW c, NEW l, NEW s, NEW w, NEW m
      PROVE  Linking(<<"setSavepoint", c>>, Busy(l, s, w, m)) = Busy(l, s, w, Append(m, Len(w)))
  <2>. DEFINE b == Busy(l, s, w, m)
  <2>1. Linking(<<"setSavepoint", c>>, b) = [b EXCEPT !.marks = Append(b.marks, Len(b.writes))]
    BY DEF Linking
  <2>2. b.marks = m /\ b.writes = w
    BY <1>8
  <2>. HIDE DEF b
  <2>3. Linking(<<"setSavepoint", c>>, b) = [b EXCEPT !.marks = Append(m, Len(w))]
    BY <2>1, <2>2, Zenon
  <2>4. \A z : [b EXCEPT !.marks = z] = Busy(l, s, w, z)
    BY <1>8 DEF b
  <2>5. Linking(<<"setSavepoint", c>>, b) = Busy(l, s, w, Append(m, Len(w)))
    BY <2>3, <2>4, Zenon
  <2>. QED
    BY <2>5 DEF b
<1>10. ASSUME NEW c, NEW l, NEW s, NEW w, NEW m, NEW k
       PROVE  Linking(<<"releaseSavepoint", c, k>>, Busy(l, s, w, m))
                = Busy(l, s, w, SubSeq(m, 1, k - 1))
  <2>. DEFINE b == Busy(l, s, w, m)
  <2>1. Linking(<<"releaseSavepoint", c, k>>, b)
          = [b EXCEPT !.marks = SubSeq(b.marks, 1, k - 1)]
    BY DEF Linking
  <2>2. b.marks = m
    BY <1>8
  <2>. HIDE DEF b
  <2>3. Linking(<<"releaseSavepoint", c, k>>, b) = [b EXCEPT !.marks = SubSeq(m, 1, k - 1)]
    BY <2>1, <2>2, Zenon
  <2>4. \A z : [b EXCEPT !.marks = z] = Busy(l, s, w, z)
    BY <1>8 DEF b
  <2>5. Linking(<<"releaseSavepoint", c, k>>, b) = Busy(l, s, w, SubSeq(m, 1, k - 1))
    BY <2>3, <2>4, Zenon
  <2>. QED
    BY <2>5 DEF b
<1>11. ASSUME NEW c, NEW l, NEW s, NEW w, NEW m, NEW k
       PROVE  Linking(<<"rollbackTo", c, k>>, Busy(l, s, w, m))
                = Busy(l, s, SubSeq(w, 1, m[k]), SubSeq(m, 1, k - 1))
  <2>. DEFINE b == Busy(l, s, w, m)
              marks == SubSeq(b.marks, 1, k - 1)
              writes == SubSeq(b.writes, 1, b.marks[k])
  <2>1. Linking(<<"rollbackTo", c, k>>, b)
          = [[b EXCEPT !.marks = marks] EXCEPT !.writes = writes]
    BY DEF Linking
  <2>2. marks = SubSeq(m, 1, k - 1) /\ writes = SubSeq(w, 1, m[k])
    <3>1. b.marks = m /\ b.writes = w
      BY <1>8
    <3>. HIDE DEF b
    <3>. QED
      BY <3>1, Zenon
  <2>. HIDE DEF marks, writes
  <2>3. [b EXCEPT !.marks = marks] = Busy(l, s, w, marks)
    BY <1>8
  <2>4. [Busy(l, s, w, marks) EXCEPT !.writes = writes] = Busy(l, s, writes, marks)
    BY <1>8
  <2>. QED
    BY <2>1, <2>2, <2>3, <2>4
<1>. QED
  BY <1>1, <1>2, <1>3, <1>4, <1>5, <1>6, <1>7, <1>9, <1>10, <1>11

(* The calls on connections that leave the rows alone.                     *)
LEMMA LinkRules ==
  ASSUME NEW c \in Conns, NEW r1, NEW r2, NEW x, NEW y, NEW t,
         NEW l, NEW level \in Words, NEW s, NEW w, NEW m, NEW k \in Nat
  PROVE  /\ Passes(At(c, r1, r2, x, y, t), Do("getConnection", c),
                   At(c, r1, r2, Free("READ_COMMITTED"), y, t))
         /\ Passes(At(c, r1, r2, x, y, t), Do("close", c), At(c, r1, r2, Shut, y, t))
         /\ Passes(At(c, r1, r2, Busy(l, s, w, m), y, t), Do("rollback", c),
                   At(c, r1, r2, Idle(l), y, t))
         /\ Passes(At(c, r1, r2, Free(l), y, t), Do("setAutoCommit", c),
                   At(c, r1, r2, Idle(l), y, t))
         /\ Passes(At(c, r1, r2, Free(l), y, t),
                   << <<"setTransactionIsolation", c, level>> >>,
                   At(c, r1, r2, Free(level), y, t))
         /\ Passes(At(c, r1, r2, Busy(l, s, w, m), y, t), Do("setSavepoint", c),
                   At(c, r1, r2, Busy(l, s, w, Append(m, Len(w))), y, t))
<1>. DEFINE S(z) == At(c, r1, r2, z, y, t)
<1>1. \A op \in {"getConnection", "close", "setAutoCommit", "setSavepoint", "rollback"} :
        /\ Do(op, c) = << <<op, c>> >> /\ Do(op, c) \in Seq(TestCalls)
        /\ <<op, c>>[1] \in Quiet /\ <<op, c>>[2] = c
  <2>1. c \in Words
    BY DEF Conns, Words
  <2>2. \A op \in {"getConnection", "close", "setAutoCommit", "setSavepoint", "rollback"} :
          op \in TestOps /\ op \in Quiet
    BY DEF TestOps, Quiet
  <2>. HIDE DEF TestCalls, Words, TestOps, Quiet
  <2>. QED
    BY <2>1, <2>2, Pieces DEF Do
<1>2. \A op \in {"getConnection", "close", "setAutoCommit", "setSavepoint", "rollback"} :
        \A z, v : Linking(<<op, c>>, z) = v => Passes(S(z), Do(op, c), S(v))
  <2>. HIDE DEF TestCalls, Quiet
  <2>1. SUFFICES ASSUME NEW op \in {"getConnection", "close", "setAutoCommit", "setSavepoint",
                                    "rollback"}, NEW z, NEW v, Linking(<<op, c>>, z) = v
                 PROVE  Passes(S(z), Do(op, c), S(v))
    OBVIOUS
  <2>. QED
    BY <1>1, <2>1, LinkPasses
<1>3. \A z, v : Linking(<<"setTransactionIsolation", c, level>>, z) = v =>
        Passes(S(z), << <<"setTransactionIsolation", c, level>> >>, S(v))
  <2>. DEFINE call == <<"setTransactionIsolation", c, level>>
  <2>1. call[1] \in Quiet /\ call[2] = c
    BY DEF Quiet
  <2>2. c \in Words
    BY DEF Conns, Words
  <2>. HIDE DEF TestCalls, Quiet, Words
  <2>3. <<call>> \in Seq(TestCalls)
    BY <2>2, Pieces
  <2>. HIDE DEF call
  <2>4. \A z, v : Linking(call, z) = v => Passes(S(z), <<call>>, S(v))
    BY <2>1, <2>3, LinkPasses
  <2>. QED
    BY <2>4 DEF call
<1>. HIDE DEF TestCalls, Quiet
<1>. HIDE DEF S
<1>4. Passes(S(x), Do("getConnection", c), S(Free("READ_COMMITTED")))
  <2>1. Linking(<<"getConnection", c>>, x) = Free("READ_COMMITTED")
    BY Links
  <2>. QED
    BY <1>2, <2>1
<1>5. Passes(S(x), Do("close", c), S(Shut))
  <2>1. Linking(<<"close", c>>, x) = Shut
    BY Links
  <2>. QED
    BY <1>2, <2>1
<1>6. Passes(S(Busy(l, s, w, m)), Do("rollback", c), S(Idle(l)))
  <2>1. Linking(<<"rollback", c>>, Busy(l, s, w, m)) = Idle(l)
    BY Links
  <2>. QED
    BY <1>2, <2>1
<1>7. Passes(S(Free(l)), Do("setAutoCommit", c), S(Idle(l)))
  <2>1. Linking(<<"setAutoCommit", c>>, Free(l)) = Idle(l)
    BY Links
  <2>. QED
    BY <1>2, <2>1
<1>8. Passes(S(Busy(l, s, w, m)), Do("setSavepoint", c), S(Busy(l, s, w, Append(m, Len(w)))))
  <2>1. Linking(<<"setSavepoint", c>>, Busy(l, s, w, m)) = Busy(l, s, w, Append(m, Len(w)))
    BY Links
  <2>. QED
    BY <1>2, <2>1
<1>9. Passes(S(Free(l)), << <<"setTransactionIsolation", c, level>> >>, S(Free(level)))
  <2>1. Linking(<<"setTransactionIsolation", c, level>>, Free(l)) = Free(level)
    BY Links
  <2>. QED
    BY <1>3, <2>1
<1>. QED
  BY <1>4, <1>5, <1>6, <1>7, <1>8, <1>9 DEF S

(* Savepoints are only used on the connection "conn".                      *)
LEMMA SavepointRules ==
  ASSUME NEW r1, NEW r2, NEW y, NEW t, NEW l, NEW s, NEW w, NEW m, NEW k \in Nat
  PROVE  /\ Passes(At("conn", r1, r2, Busy(l, s, w, m), y, t), OnSavepoint("releaseSavepoint", k),
                   At("conn", r1, r2, Busy(l, s, w, SubSeq(m, 1, k - 1)), y, t))
         /\ Passes(At("conn", r1, r2, Busy(l, s, w, m), y, t), OnSavepoint("rollbackTo", k),
                   At("conn", r1, r2, Busy(l, s, SubSeq(w, 1, m[k]), SubSeq(m, 1, k - 1)), y, t))
<1>. DEFINE S(z) == At("conn", r1, r2, z, y, t)
<1>1. ASSUME NEW op \in {"releaseSavepoint", "rollbackTo"}
      PROVE  \A z, v : Linking(<<op, "conn", k>>, z) = v => Passes(S(z), OnSavepoint(op, k), S(v))
  <2>. DEFINE call == <<op, "conn", k>>
  <2>1. call[1] \in Quiet /\ call[2] = "conn" /\ op \in TestOps
    BY DEF Quiet, TestOps
  <2>2. "conn" \in Words /\ "conn" \in Conns
    BY DEF Conns, Words
  <2>. HIDE DEF TestCalls, Quiet, Words, TestOps
  <2>3. <<call>> \in Seq(TestCalls) /\ OnSavepoint(op, k) = <<call>>
    BY <2>1, <2>2, Pieces DEF OnSavepoint
  <2>. HIDE DEF call
  <2>4. \A z, v : Linking(call, z) = v => Passes(S(z), <<call>>, S(v))
    BY <2>1, <2>2, <2>3, LinkPasses
  <2>. QED
    BY <2>3, <2>4 DEF call
<1>2. "conn" \in Conns
  BY DEF Conns
<1>. HIDE DEF S
<1>3. Passes(S(Busy(l, s, w, m)), OnSavepoint("releaseSavepoint", k),
             S(Busy(l, s, w, SubSeq(m, 1, k - 1))))
  <2>1. Linking(<<"releaseSavepoint", "conn", k>>, Busy(l, s, w, m))
          = Busy(l, s, w, SubSeq(m, 1, k - 1))
    BY <1>2, Links
  <2>. QED
    BY <1>1, <2>1
<1>4. Passes(S(Busy(l, s, w, m)), OnSavepoint("rollbackTo", k),
             S(Busy(l, s, SubSeq(w, 1, m[k]), SubSeq(m, 1, k - 1))))
  <2>1. Linking(<<"rollbackTo", "conn", k>>, Busy(l, s, w, m))
          = Busy(l, s, SubSeq(w, 1, m[k]), SubSeq(m, 1, k - 1))
    BY <1>2, Links
  <2>. QED
    BY <1>1, <2>1
<1>. QED
  BY <1>3, <1>4 DEF S

(* The first statement begins the transaction.                             *)
LEMMA Begins ==
  ASSUME NEW r, NEW l, NEW s, NEW w, NEW m
  PROVE  /\ Free(l).auto /\ ~Idle(l).auto /\ ~Busy(l, s, w, m).auto
         /\ BegunOn(r, Idle(l)) = Busy(l, r, <<>>, <<>>)
         /\ BegunOn(r, Busy(l, s, w, m)) = Busy(l, s, w, m)
<1>a. /\ Free(l).auto = On /\ Idle(l).auto = Off /\ Idle(l).begun = Off
      /\ Busy(l, s, w, m).auto = Off /\ Busy(l, s, w, m).begun = On
  BY Fields DEF Free, Idle, Busy
<1>b. On /\ ~Off
  BY DEF On, Off
<1>1. /\ Free(l).auto /\ ~Idle(l).auto /\ ~Idle(l).begun
      /\ ~Busy(l, s, w, m).auto /\ Busy(l, s, w, m).begun
  BY <1>a, <1>b
<1>2. BegunOn(r, Busy(l, s, w, m)) = Busy(l, s, w, m)
  BY <1>1 DEF BegunOn
<1>3. BegunOn(r, Idle(l)) = [[Idle(l) EXCEPT !.begun = On] EXCEPT !.snapshot = r]
  BY <1>1 DEF BegunOn, On
<1>4. [Idle(l) EXCEPT !.begun = On] = Link(Off, l, On, NoRows, <<>>, <<>>)
  BY Fields DEF Idle
<1>5. [Link(Off, l, On, NoRows, <<>>, <<>>) EXCEPT !.snapshot = r] = Busy(l, r, <<>>, <<>>)
  BY Fields DEF Busy
<1>6. Free(l).auto /\ ~Idle(l).auto /\ ~Busy(l, s, w, m).auto
  BY <1>1
<1>. QED
  BY <1>2, <1>3, <1>4, <1>5, <1>6

(* A write of a connection that commits each statement, of one that begins *)
(* its transaction with it, and of one in the middle of it.                *)
LEMMA WritePasses ==
  ASSUME NEW call, <<call>> \in Seq(TestCalls), call[1] \in WriteOps, call[2] \in Conns,
         NEW r1, NEW r2, NEW y, NEW t, NEW l, NEW s, NEW w, NEW m
  PROVE  LET c == call[2]
             u == <<call[1], call[3], call[4]>>
         IN  /\ \A v1, v2 : Written(Rows(r1, r2), u) = Rows(v1, v2) =>
                  Passes(At(c, r1, r2, Free(l), y, t), <<call>>, At(c, v1, v2, Free(l), y, t))
             /\ Passes(At(c, r1, r2, Idle(l), y, t), <<call>>,
                       At(c, r1, r2, Busy(l, Rows(r1, r2), Append(<<>>, u), <<>>), y, t))
             /\ Passes(At(c, r1, r2, Busy(l, s, w, m), y, t), <<call>>,
                       At(c, r1, r2, Busy(l, s, Append(w, u), m), y, t))
<1>. DEFINE c == call[2]
            u == <<call[1], call[3], call[4]>>
            S(x) == At(c, r1, r2, x, y, t)
<1>1. \A d : HoldsIn(call, d)
  BY DEF HoldsIn, WriteOps
<1>2. \A d : Effect(call, d) = AfterWrite(call, d)
  BY DEF Effect
<1>3. \A d : Passes(d, <<call>>, AfterWrite(call, d))
  BY <1>1, <1>2, PassesCall
<1>4. \A d : d[2][c].auto => AfterWrite(call, d) = <<Written(d[1], u), d[2], d[3]>>
  BY DEF AfterWrite
<1>5. \A d : ~d[2][c].auto => AfterWrite(call, d)
        = <<d[1], [d[2] EXCEPT ![c] = [BegunOn(d[1], d[2][c]) EXCEPT !.writes =
                     Append(BegunOn(d[1], d[2][c]).writes, u)]], d[3]>>
  BY DEF AfterWrite
<1>6. \A x : /\ S(x)[1] = Rows(r1, r2) /\ S(x)[2][c] = x /\ S(x)[3] = t
             /\ \A z : << Rows(r1, r2), [S(x)[2] EXCEPT ![c] = z], t >> = S(z)
  BY OnConnection
<1>7. ASSUME NEW v1, NEW v2, Written(Rows(r1, r2), u) = Rows(v1, v2)
      PROVE  Passes(S(Free(l)), <<call>>, At(c, v1, v2, Free(l), y, t))
  <2>1. AfterWrite(call, S(Free(l))) = <<Rows(v1, v2), S(Free(l))[2], t>>
    <3>. HIDE DEF S, u, c
    <3>1. S(Free(l))[2][c].auto
      BY <1>6, Begins
    <3>. QED
      BY <1>4, <1>6, <1>7, <3>1
  <2>2. <<Rows(v1, v2), S(Free(l))[2], t>> = At(c, v1, v2, Free(l), y, t)
    BY DEF At
  <2>. HIDE DEF S, u, c
  <2>. QED
    BY <1>3, <2>1, <2>2
<1>8. ASSUME NEW x, ~x.auto, NEW b, BegunOn(Rows(r1, r2), x) = b, NEW z,
             [b EXCEPT !.writes = Append(b.writes, u)] = z
      PROVE  Passes(S(x), <<call>>, S(z))
  <2>. HIDE DEF S, u, c
  <2>1. ~S(x)[2][c].auto
    BY <1>6, <1>8
  <2>2. AfterWrite(call, S(x)) = <<S(x)[1], [S(x)[2] EXCEPT ![c] =
           [BegunOn(S(x)[1], S(x)[2][c]) EXCEPT !.writes =
              Append(BegunOn(S(x)[1], S(x)[2][c]).writes, u)]], S(x)[3]>>
    BY <1>5, <2>1, Zenon
  <2>3. BegunOn(S(x)[1], S(x)[2][c]) = b /\ S(x)[1] = Rows(r1, r2) /\ S(x)[3] = t
    BY <1>6, <1>8
  <2>4. AfterWrite(call, S(x)) = <<Rows(r1, r2), [S(x)[2] EXCEPT ![c] =
           [b EXCEPT !.writes = Append(b.writes, u)]], t>>
    BY <2>2, <2>3, Zenon
  <2>5. AfterWrite(call, S(x)) = <<Rows(r1, r2), [S(x)[2] EXCEPT ![c] = z], t>>
    BY <2>4, <1>8, Zenon
  <2>6. AfterWrite(call, S(x)) = S(z)
    BY <2>5, <1>6
  <2>. QED
    BY <1>3, <2>6
<1>9. ASSUME NEW s1, NEW w1, NEW m1
      PROVE  [Busy(l, s1, w1, m1) EXCEPT !.writes = Append(Busy(l, s1, w1, m1).writes, u)]
               = Busy(l, s1, Append(w1, u), m1)
  <2>. DEFINE b == Busy(l, s1, w1, m1)
              z == Append(b.writes, u)
  <2>1. b.writes = w1
    BY Fields DEF Busy
  <2>2. z = Append(w1, u)
    <3>. HIDE DEF b, u
    <3>. QED
      BY <2>1, Zenon
  <2>. HIDE DEF z
  <2>3. [b EXCEPT !.writes = z] = Busy(l, s1, z, m1)
    BY Fields DEF Busy
  <2>4. [b EXCEPT !.writes = z] = Busy(l, s1, Append(w1, u), m1)
    BY <2>2, <2>3
  <2>. QED
    BY <2>4 DEF z
<1>10. Passes(S(Idle(l)), <<call>>, S(Busy(l, Rows(r1, r2), Append(<<>>, u), <<>>)))
  <2>. DEFINE x == Idle(l)
              b == Busy(l, Rows(r1, r2), <<>>, <<>>)
              z == Busy(l, Rows(r1, r2), Append(<<>>, u), <<>>)
  <2>1. ~x.auto /\ BegunOn(Rows(r1, r2), x) = b
    BY Begins
  <2>2. [b EXCEPT !.writes = Append(b.writes, u)] = z
    BY <1>9
  <2>. HIDE DEF S, u, c, x, b, z
  <2>3. Passes(S(x), <<call>>, S(z))
    BY <2>1, <2>2, <1>8, Zenon
  <2>. QED
    BY <2>3 DEF x, z
<1>11. Passes(S(Busy(l, s, w, m)), <<call>>, S(Busy(l, s, Append(w, u), m)))
  <2>. DEFINE x == Busy(l, s, w, m)
              z == Busy(l, s, Append(w, u), m)
  <2>1. ~x.auto /\ BegunOn(Rows(r1, r2), x) = x
    BY Begins
  <2>2. [x EXCEPT !.writes = Append(x.writes, u)] = z
    BY <1>9
  <2>. HIDE DEF S, u, c, x, z
  <2>3. Passes(S(x), <<call>>, S(z))
    BY <2>1, <2>2, <1>8, Zenon
  <2>. QED
    BY <2>3 DEF x, z
<1>. QED
  BY <1>7, <1>10, <1>11

(* A commit applies the writes to the rows.                                *)
LEMMA CommitPasses ==
  ASSUME NEW c \in Conns, NEW r1, NEW r2, NEW v1, NEW v2, NEW y, NEW t,
         NEW l, NEW s, NEW w, NEW m,
         After(Rows(r1, r2), w) = Rows(v1, v2)
  PROVE  Passes(At(c, r1, r2, Busy(l, s, w, m), y, t), Do("commit", c),
                At(c, v1, v2, Idle(l), y, t))
<1>. DEFINE call == <<"commit", c>>
            x == Busy(l, s, w, m)
            d == At(c, r1, r2, x, y, t)
            e == At(c, v1, v2, Idle(l), y, t)
<1>1. Do("commit", c) = <<call>> /\ <<call>> \in Seq(TestCalls)
  <2>1. c \in Words /\ "commit" \in TestOps
    BY DEF Conns, Words, TestOps
  <2>. HIDE DEF TestCalls, Words, TestOps
  <2>. QED
    BY <2>1, Pieces DEF Do
<1>2. HoldsIn(call, d)
  BY DEF HoldsIn
<1>3. Effect(call, d) = AfterLink(call, d)
  BY DEF Effect, WriteOps, ReadOps
<1>4. AfterLink(call, d)
        = <<After(d[1], d[2][c].writes), [d[2] EXCEPT ![c] = Linking(call, d[2][c])], d[3]>>
  BY DEF AfterLink
<1>5. d[1] = Rows(r1, r2) /\ d[2][c] = x /\ d[3] = t
  BY OnConnection
<1>6. x.writes = w
  BY Fields DEF Busy
<1>7. Linking(call, x) = Idle(l)
  BY Links
<1>8. <<Rows(v1, v2), [d[2] EXCEPT ![c] = Idle(l)], t>> = e
  BY DEF At
<1>. HIDE DEF call, x, d, e
<1>9. AfterLink(call, d) = <<Rows(v1, v2), [d[2] EXCEPT ![c] = Idle(l)], t>>
  <2>1. d[2][c].writes = w
    BY <1>5, <1>6, Zenon
  <2>2. After(d[1], d[2][c].writes) = Rows(v1, v2)
    BY <2>1, <1>5
  <2>. QED
    BY <2>2, <1>4, <1>5, <1>7
<1>10. Passes(d, <<call>>, e)
  BY <1>1, <1>2, <1>3, <1>8, <1>9, PassesCall
<1>. QED
  BY <1>1, <1>10 DEF d, e, x

(* The rows a connection sees.                                             *)
LEMMA Views ==
  ASSUME NEW r, NEW l, NEW s, NEW w, NEW m
  PROVE  /\ ViewOf(r, Idle(l)) = After(r, <<>>)
         /\ ViewOf(r, Busy("READ_COMMITTED", s, w, m)) = After(r, w)
         /\ ViewOf(r, Busy("REPEATABLE_READ", s, w, m)) = After(s, w)
<1>1. On /\ ~Off
  BY DEF On, Off
<1>2. Idle(l).begun = Off /\ Idle(l).writes = <<>>
  BY Fields DEF Idle
<1>3. \A k : /\ Busy(k, s, w, m).begun = On /\ Busy(k, s, w, m).writes = w
             /\ Busy(k, s, w, m).level = k /\ Busy(k, s, w, m).snapshot = s
  BY Fields DEF Busy
<1>4. ViewOf(r, Idle(l)) = After(r, <<>>)
  BY <1>1, <1>2 DEF ViewOf
<1>5. ViewOf(r, Busy("READ_COMMITTED", s, w, m)) = After(r, w)
  BY <1>3 DEF ViewOf
<1>6. ViewOf(r, Busy("REPEATABLE_READ", s, w, m)) = After(s, w)
  BY <1>1, <1>3 DEF ViewOf
<1>. QED
  BY <1>4, <1>5, <1>6

(* A read on a connection of its own sees the committed rows.              *)
LEMMA NewSelectPasses ==
  ASSUME NEW c \in Conns, NEW r1, NEW r2, NEW x, NEW y, NEW t, NEW i \in Ids, NEW v \in Words,
         ReadsAs(v, IF i = 1 THEN r1 ELSE r2)
  PROVE  Passes(At(c, r1, r2, x, y, t), Select("new", i, v), At(c, r1, r2, x, y, t))
<1>. DEFINE call == <<"assertSelect", "new", i, v>>
            d == At(c, r1, r2, x, y, t)
<1>1. Select("new", i, v) = <<call>> /\ <<call>> \in Seq(TestCalls)
  <2>1. "new" \in Words /\ i \in Nat
    BY DEF Words, Ids
  <2>. HIDE DEF TestCalls, Words
  <2>. QED
    BY <2>1, Pieces DEF Select
<1>2. SeenIn(d, "new", i) = IF i = 1 THEN r1 ELSE r2
  BY DEF SeenIn, At, Rows
<1>3. HoldsIn(call, d)
  BY <1>2 DEF HoldsIn
<1>4. Effect(call, d) = <<d[1], d[2], d[3]>>
  BY DEF Effect, AfterRead, WriteOps, ReadOps
<1>5. <<d[1], d[2], d[3]>> = d
  BY DEF At
<1>. HIDE DEF call, d
<1>6. Passes(d, <<call>>, d)
  BY <1>1, <1>3, <1>4, <1>5, PassesCall
<1>. QED
  BY <1>1, <1>6 DEF d

(* A read in a transaction sees its view, and begins it where it has not   *)
(* begun.                                                                  *)
LEMMA ReadPasses ==
  ASSUME NEW call, <<call>> \in Seq(TestCalls), call[1] \in ReadOps, call[2] = "conn",
         NEW r1, NEW r2, NEW x, NEW b, NEW y, NEW t, NEW v1, NEW v2, NEW i \in Ids, call[3] = i,
         ViewOf(Rows(r1, r2), x) = Rows(v1, v2), BegunOn(Rows(r1, r2), x) = b
  PROVE  LET v == IF i = 1 THEN v1 ELSE v2
         IN  /\ call[1] = "take" =>
                  Passes(At("conn", r1, r2, x, y, t), <<call>>, At("conn", r1, r2, b, y, v))
             /\ call[1] = "assertSelect" /\ ReadsAs(call[4], v) =>
                  Passes(At("conn", r1, r2, x, y, t), <<call>>, At("conn", r1, r2, b, y, t))
             /\ call[1] = "assertTaken" /\ v = t =>
                  Passes(At("conn", r1, r2, x, y, t), <<call>>, At("conn", r1, r2, b, y, t))
             /\ call[1] = "assertChanged" /\ v # t =>
                  Passes(At("conn", r1, r2, x, y, t), <<call>>, At("conn", r1, r2, b, y, t))
<1>. DEFINE v == IF i = 1 THEN v1 ELSE v2
            d == At("conn", r1, r2, x, y, t)
            e(u) == At("conn", r1, r2, b, y, u)
<1>1. d[1] = Rows(r1, r2) /\ d[2]["conn"] = x /\ d[3] = t
  BY OnConnection DEF Conns
<1>2. \A u : <<Rows(r1, r2), [d[2] EXCEPT !["conn"] = b], u>> = e(u)
  BY DEF At
<1>. HIDE DEF d, e
<1>3. SeenIn(d, call[2], call[3]) = v
  <2>1. Rows(v1, v2)[i] = v
    BY DEF Rows
  <2>2. SeenIn(d, call[2], call[3]) = ViewOf(d[1], d[2]["conn"])[i]
    BY DEF SeenIn
  <2>. QED
    BY <2>1, <2>2, <1>1
<1>4. Effect(call, d) = e(IF call[1] = "take" THEN v ELSE t)
  <2>1. Effect(call, d) = AfterRead(call, d)
    BY DEF Effect, WriteOps, ReadOps
  <2>2. AfterRead(call, d) = << d[1], [d[2] EXCEPT !["conn"] = BegunOn(d[1], d[2]["conn"])],
                                IF call[1] = "take" THEN v ELSE d[3] >>
    BY <1>3 DEF AfterRead
  <2>. QED
    BY <2>1, <2>2, <1>1, <1>2
<1>. HIDE DEF v
<1>5. ASSUME call[1] = "take" PROVE Passes(d, <<call>>, e(v))
  <2>1. HoldsIn(call, d)
    BY <1>5 DEF HoldsIn
  <2>. QED
    BY <2>1, <1>4, <1>5, PassesCall
<1>6. ASSUME call[1] = "assertSelect", ReadsAs(call[4], v) PROVE Passes(d, <<call>>, e(t))
  <2>1. HoldsIn(call, d)
    BY <1>3, <1>6 DEF HoldsIn
  <2>. QED
    BY <2>1, <1>4, <1>6, PassesCall
<1>7. ASSUME call[1] = "assertTaken", v = t PROVE Passes(d, <<call>>, e(t))
  <2>1. HoldsIn(call, d)
    BY <1>1, <1>3, <1>7 DEF HoldsIn
  <2>. QED
    BY <2>1, <1>4, <1>7, PassesCall
<1>8. ASSUME call[1] = "assertChanged", v # t PROVE Passes(d, <<call>>, e(t))
  <2>1. HoldsIn(call, d)
    BY <1>1, <1>3, <1>8 DEF HoldsIn
  <2>. QED
    BY <2>1, <1>4, <1>8, PassesCall
<1>. QED
  BY <1>5, <1>6, <1>7, <1>8 DEF d, e, v

(* The commit that is to throw does, on a connection that commits each     *)
(* statement.                                                              *)
LEMMA ThrowingCommitPasses ==
  ASSUME NEW r1, NEW r2, NEW y, NEW t, NEW l
  PROVE  Passes(At("conn", r1, r2, Free(l), y, t), Do("assertCommitThrows", "conn"),
                At("conn", r1, r2, Free(l), y, t))
<1>. DEFINE call == <<"assertCommitThrows", "conn">>
            d == At("conn", r1, r2, Free(l), y, t)
<1>1. Do("assertCommitThrows", "conn") = <<call>> /\ <<call>> \in Seq(TestCalls)
  <2>1. "conn" \in Words /\ "assertCommitThrows" \in TestOps
    BY DEF Words, TestOps
  <2>. HIDE DEF TestCalls, Words, TestOps
  <2>. QED
    BY <2>1, Pieces DEF Do
<1>2. d[2]["conn"] = Free(l) /\ Free(l).auto
  BY OnConnection, Begins DEF Conns
<1>. HIDE DEF d
<1>3. HoldsIn(call, d)
  BY <1>2 DEF HoldsIn
<1>4. Effect(call, d) = d
  BY DEF Effect, WriteOps, ReadOps
<1>. HIDE DEF call
<1>5. Passes(d, <<call>>, d)
  BY <1>1, <1>3, <1>4, PassesCall
<1>. QED
  BY <1>1, <1>5 DEF d

-----------------------------------------------------------------------------
(* The rows the tests make                                                 *)

Ins(i, v) == <<"insert", i, v>>
Upd(i, v) == <<"update", i, v>>

(* Short sequences.                                                        *)
LEMMA Lists ==
  ASSUME NEW M, NEW a \in M, NEW b \in M, NEW c \in M
  PROVE  /\ Append(<<a>>, b) = <<a, b>> /\ Append(<<a, b>>, c) = <<a, b, c>>
         /\ SubSeq(<<a, b>>, 1, 1) = <<a>> /\ SubSeq(<<a, b, c>>, 1, 1) = <<a>>
<1>. DEFINE s1 == <<a>>
            s2 == <<a, b>>
            s3 == <<a, b, c>>
<1>1. /\ s1 \in Seq(M) /\ Len(s1) = 1 /\ s1[1] = a
      /\ s2 \in Seq(M) /\ Len(s2) = 2 /\ s2[1] = a /\ s2[2] = b
      /\ s3 \in Seq(M) /\ Len(s3) = 3 /\ s3[1] = a /\ s3[2] = b /\ s3[3] = c
  OBVIOUS
<1>. HIDE DEF s1, s2, s3
<1>2. ASSUME NEW s \in Seq(M), NEW x \in M, NEW t \in Seq(M), Len(t) = Len(s) + 1,
             \A i \in 1..Len(s) : t[i] = s[i], t[Len(s) + 1] = x
      PROVE  Append(s, x) = t
  <2>. DEFINE u == Append(s, x)
  <2>a. u \in Seq(M)
    BY AppendProperties
  <2>b. Len(u) = Len(s) + 1
    OBVIOUS
  <2>c. \A i \in 1..Len(s) : u[i] = s[i]
    OBVIOUS
  <2>d. u[Len(s) + 1] = x
    OBVIOUS
  <2>1. /\ u \in Seq(M) /\ Len(u) = Len(s) + 1
        /\ \A i \in 1..Len(s) : u[i] = s[i]
        /\ u[Len(s) + 1] = x
    BY <2>a, <2>b, <2>c, <2>d, Zenon
  <2>2. Len(s) \in Nat
    OBVIOUS
  <2>. HIDE DEF u
  <2>3. \A i \in 1..Len(u) : u[i] = t[i]
    <3>1. \A i \in 1..Len(u) : i = Len(s) + 1 \/ i \in 1..Len(s)
      BY <2>1, <2>2
    <3>. QED
      BY <3>1, <2>1, <1>2
  <2>4. u = t
    BY <2>1, <2>3, <1>2, SeqEqual
  <2>. QED
    BY <2>4 DEF u
<1>3. Append(s1, b) = s2 /\ Append(s2, c) = s3
  <2>1. Len(s1) + 1 = 2 /\ Len(s2) + 1 = 3 /\ 1..Len(s1) = {1} /\ 1..Len(s2) = {1, 2}
    BY <1>1
  <2>2. s2[Len(s1) + 1] = b /\ s3[Len(s2) + 1] = c
    BY <1>1, <2>1, Zenon
  <2>3. (\A i \in 1..Len(s1) : s2[i] = s1[i]) /\ (\A i \in 1..Len(s2) : s3[i] = s2[i])
    BY <1>1, <2>1
  <2>4. Append(s1, b) = s2
    BY <1>1, <1>2, <2>1, <2>2, <2>3
  <2>5. Append(s2, c) = s3
    BY <1>1, <1>2, <2>1, <2>2, <2>3
  <2>. QED
    BY <2>4, <2>5
<1>4. ASSUME NEW s \in Seq(M), Len(s) \in {2, 3}, s[1] = a PROVE SubSeq(s, 1, 1) = s1
  <2>1. \A i \in 1..1 : i = 1 /\ s[i] \in M
    BY <1>4
  <2>2. SubSeq(s, 1, 1) \in Seq(M) /\ Len(SubSeq(s, 1, 1)) = 1
    BY <2>1, SubSeqProperties
  <2>3. SubSeq(s, 1, 1)[1] = s[1]
    BY <1>4
  <2>. QED
    BY <1>1, <1>4, <2>2, <2>3, SeqEqual
<1>5. SubSeq(s2, 1, 1) = s1 /\ SubSeq(s3, 1, 1) = s1
  BY <1>1, <1>4
<1>. QED
  BY <1>3, <1>5 DEF s1, s2, s3

(* The rows after the writes the tests make.                               *)
LEMMA RowsWritten ==
  /\ NoRows = Rows({}, {})
  /\ \A r1, r2, v : /\ Written(Rows(r1, r2), Ins(1, v)) = Rows(r1 \union {v}, r2)
                    /\ Written(Rows(r1, r2), Ins(2, v)) = Rows(r1, r2 \union {v})
                    /\ r1 # {} => Written(Rows(r1, r2), Upd(1, v)) = Rows({v}, r2)
<1>1. NoRows = Rows({}, {})
  BY DEF NoRows, Rows
<1>2. ASSUME NEW r1, NEW r2, NEW x
      PROVE  [Rows(r1, r2) EXCEPT ![1] = x] = Rows(x, r2)
  BY DEF Rows, Ids
<1>3. ASSUME NEW r1, NEW r2, NEW x
      PROVE  [Rows(r1, r2) EXCEPT ![2] = x] = Rows(r1, x)
  <2>1. \A i \in Ids : [Rows(r1, r2) EXCEPT ![2] = x][i] = Rows(r1, x)[i]
    BY DEF Rows, Ids
  <2>2. /\ [Rows(r1, r2) EXCEPT ![2] = x] = [i \in Ids |-> [Rows(r1, r2) EXCEPT ![2] = x][i]]
        /\ Rows(r1, x) = [i \in Ids |-> Rows(r1, x)[i]]
    BY DEF Rows
  <2>. QED
    BY <2>1, <2>2, Zenon
<1>4. ASSUME NEW r1, NEW r2 PROVE Rows(r1, r2)[1] = r1 /\ Rows(r1, r2)[2] = r2
  BY DEF Rows, Ids
<1>5. ASSUME NEW r, NEW i, NEW v
      PROVE  /\ Written(r, Ins(i, v)) = [r EXCEPT ![i] = r[i] \union {v}]
             /\ r[i] # {} => Written(r, Upd(i, v)) = [r EXCEPT ![i] = {v}]
  BY DEF Written, Ins, Upd
<1>6. ASSUME NEW r1, NEW r2, NEW v
      PROVE  Written(Rows(r1, r2), Ins(1, v)) = Rows(r1 \union {v}, r2)
  <2>1. Written(Rows(r1, r2), Ins(1, v)) = [Rows(r1, r2) EXCEPT ![1] = Rows(r1, r2)[1] \union {v}]
    BY <1>5
  <2>2. Written(Rows(r1, r2), Ins(1, v)) = [Rows(r1, r2) EXCEPT ![1] = r1 \union {v}]
    BY <1>4, <2>1
  <2>. QED
    BY <1>2, <2>2
<1>7. ASSUME NEW r1, NEW r2, NEW v
      PROVE  Written(Rows(r1, r2), Ins(2, v)) = Rows(r1, r2 \union {v})
  <2>1. Written(Rows(r1, r2), Ins(2, v)) = [Rows(r1, r2) EXCEPT ![2] = Rows(r1, r2)[2] \union {v}]
    BY <1>5
  <2>2. Written(Rows(r1, r2), Ins(2, v)) = [Rows(r1, r2) EXCEPT ![2] = r2 \union {v}]
    BY <1>4, <2>1
  <2>. QED
    BY <1>3, <2>2
<1>8. ASSUME NEW r1, NEW r2, NEW v, r1 # {}
      PROVE  Written(Rows(r1, r2), Upd(1, v)) = Rows({v}, r2)
  <2>1. Rows(r1, r2)[1] # {}
    BY <1>4, <1>8
  <2>2. Written(Rows(r1, r2), Upd(1, v)) = [Rows(r1, r2) EXCEPT ![1] = {v}]
    BY <1>5, <2>1
  <2>. QED
    BY <1>2, <2>2
<1>. QED
  BY <1>1, <1>6, <1>7, <1>8

(* The rows after none to three writes.                                    *)
LEMMA AfterWrites ==
  \A r : /\ After(r, <<>>) = r
         /\ \A a : After(r, <<a>>) = Written(r, a)
         /\ \A a, b : After(r, <<a, b>>) = Written(Written(r, a), b)
         /\ \A a, b, c : After(r, <<a, b, c>>) = Written(Written(Written(r, a), b), c)
<1>a. 0 \in 0..3 /\ 1 \in 0..3 /\ 2 \in 0..3 /\ 3 \in 0..3
  OBVIOUS
<1>b. \A r, w : /\ DOMAIN w = 1..0 => After(r, w) = r
                /\ DOMAIN w = 1..1 => After(r, w) = Written(r, w[1])
                /\ DOMAIN w = 1..2 => After(r, w) = Written(Written(r, w[1]), w[2])
                /\ DOMAIN w = 1..3 =>
                     After(r, w) = Written(Written(Written(r, w[1]), w[2]), w[3])
  BY <1>a, FoldWrites
<1>1. ASSUME NEW r PROVE After(r, <<>>) = r
  <2>1. DOMAIN <<>> = 1..0
    OBVIOUS
  <2>. QED
    BY <2>1, <1>b
<1>2. ASSUME NEW r, NEW a PROVE After(r, <<a>>) = Written(r, a)
  <2>. DEFINE w == <<a>>
  <2>1. DOMAIN w = 1..1
    OBVIOUS
  <2>2. w[1] = a
    OBVIOUS
  <2>. HIDE DEF w
  <2>3. After(r, w) = Written(r, w[1])
    BY <2>1, <1>b
  <2>4. After(r, w) = Written(r, a)
    BY <2>2, <2>3, Zenon
  <2>. QED
    BY <2>4 DEF w
<1>3. ASSUME NEW r, NEW a, NEW b PROVE After(r, <<a, b>>) = Written(Written(r, a), b)
  <2>. DEFINE w == <<a, b>>
  <2>1. DOMAIN w = 1..2
    OBVIOUS
  <2>2. w[1] = a /\ w[2] = b
    OBVIOUS
  <2>. HIDE DEF w
  <2>3. After(r, w) = Written(Written(r, w[1]), w[2])
    BY <2>1, <1>b
  <2>4. After(r, w) = Written(Written(r, a), b)
    BY <2>2, <2>3, Zenon
  <2>. QED
    BY <2>4 DEF w
<1>4. ASSUME NEW r, NEW a, NEW b, NEW c
      PROVE  After(r, <<a, b, c>>) = Written(Written(Written(r, a), b), c)
  <2>. DEFINE w == <<a, b, c>>
  <2>1. DOMAIN w = 1..3
    OBVIOUS
  <2>2. w[1] = a /\ w[2] = b /\ w[3] = c
    OBVIOUS
  <2>. HIDE DEF w
  <2>3. After(r, w) = Written(Written(Written(r, w[1]), w[2]), w[3])
    BY <2>1, <1>b
  <2>4. After(r, w) = Written(Written(Written(r, a), b), c)
    BY <2>2, <2>3, Zenon
  <2>. QED
    BY <2>4 DEF w
<1>. QED
  BY <1>1, <1>2, <1>3, <1>4

(* What the transactions of the tests leave of the rows.                   *)
LEMMA Outcomes ==
  /\ \A r1, r2 : After(Rows(r1, r2), <<>>) = Rows(r1, r2)
  /\ \A v : After(Rows({}, {}), <<Ins(1, v)>>) = Rows({v}, {})
  /\ \A u, v : After(Rows({u}, {}), <<Ins(2, v)>>) = Rows({u}, {v})
  /\ \A u, v : After(Rows({u}, {}), <<Upd(1, v)>>) = Rows({v}, {})
  /\ \A u, v : After(Rows({}, {}), <<Ins(1, u), Ins(2, v)>>) = Rows({u}, {v})
  /\ \A u, v : After(Rows({}, {}), <<Ins(1, u), Upd(1, v)>>) = Rows({v}, {})
  /\ \A u, v, w : After(Rows({}, {}), <<Ins(1, u), Upd(1, v), Upd(1, w)>>) = Rows({w}, {})
<1>1. \A v : {} \union {v} = {v} /\ {v} # {}
  OBVIOUS
<1>2. \A v, r2 : Written(Rows({}, r2), Ins(1, v)) = Rows({v}, r2)
  BY <1>1, RowsWritten
<1>3. \A v, r1 : Written(Rows(r1, {}), Ins(2, v)) = Rows(r1, {v})
  BY <1>1, RowsWritten
<1>4. \A u, v, r2 : Written(Rows({u}, r2), Upd(1, v)) = Rows({v}, r2)
  BY <1>1, RowsWritten
<1>5. \A r1, r2 : After(Rows(r1, r2), <<>>) = Rows(r1, r2)
  BY AfterWrites
<1>6. \A v : After(Rows({}, {}), <<Ins(1, v)>>) = Rows({v}, {})
  BY <1>2, AfterWrites
<1>7. \A u, v : After(Rows({u}, {}), <<Ins(2, v)>>) = Rows({u}, {v})
  BY <1>3, AfterWrites
<1>8. ASSUME NEW u, NEW v PROVE After(Rows({u}, {}), <<Upd(1, v)>>) = Rows({v}, {})
  <2>1. After(Rows({u}, {}), <<Upd(1, v)>>) = Written(Rows({u}, {}), Upd(1, v))
    BY AfterWrites
  <2>. QED
    BY <1>4, <2>1
<1>9. \A u, v : After(Rows({}, {}), <<Ins(1, u), Ins(2, v)>>) = Rows({u}, {v})
  BY <1>2, <1>3, AfterWrites
<1>10. ASSUME NEW u, NEW v PROVE After(Rows({}, {}), <<Ins(1, u), Upd(1, v)>>) = Rows({v}, {})
  <2>1. After(Rows({}, {}), <<Ins(1, u), Upd(1, v)>>)
          = Written(Written(Rows({}, {}), Ins(1, u)), Upd(1, v))
    BY AfterWrites
  <2>2. Written(Rows({}, {}), Ins(1, u)) = Rows({u}, {})
    BY <1>2
  <2>3. Written(Rows({u}, {}), Upd(1, v)) = Rows({v}, {})
    BY <1>4
  <2>. QED
    BY <2>1, <2>2, <2>3
<1>11. ASSUME NEW u, NEW v, NEW w
       PROVE  After(Rows({}, {}), <<Ins(1, u), Upd(1, v), Upd(1, w)>>) = Rows({w}, {})
  <2>1. After(Rows({}, {}), <<Ins(1, u), Upd(1, v), Upd(1, w)>>)
          = Written(Written(Written(Rows({}, {}), Ins(1, u)), Upd(1, v)), Upd(1, w))
    BY AfterWrites
  <2>2. Written(Rows({}, {}), Ins(1, u)) = Rows({u}, {})
    BY <1>2
  <2>3. Written(Rows({u}, {}), Upd(1, v)) = Rows({v}, {})
    BY <1>4
  <2>4. Written(Rows({v}, {}), Upd(1, w)) = Rows({w}, {})
    BY <1>4
  <2>. QED
    BY <2>1, <2>2, <2>3, <2>4
<1>. QED
  BY <1>5, <1>6, <1>7, <1>8, <1>9, <1>10, <1>11

-----------------------------------------------------------------------------
(* The calls as the tests make them                                        *)

(* The writes and savepoints of a transaction.                             *)
None == <<>>
One(a) == <<a>>
Two(a, b) == <<a, b>>
Three(a, b, c) == <<a, b, c>>

(* The lists of writes grow by one and are cut to the first.               *)
LEMMA Appended ==
  /\ \A a : Append(None, a) = One(a)
  /\ \A a, b : Append(One(a), b) = Two(a, b)
  /\ \A a, b, c : Append(Two(a, b), c) = Three(a, b, c)
  /\ \A a, b : SubSeq(Two(a, b), 1, 1) = One(a)
  /\ \A a, b, c : SubSeq(Three(a, b, c), 1, 1) = One(a)
<1>1. ASSUME NEW a PROVE Append(None, a) = One(a)
  BY DEF None, One
<1>2. ASSUME NEW a, NEW b, NEW c
      PROVE  /\ Append(One(a), b) = Two(a, b) /\ Append(Two(a, b), c) = Three(a, b, c)
             /\ SubSeq(Two(a, b), 1, 1) = One(a) /\ SubSeq(Three(a, b, c), 1, 1) = One(a)
  <2>. DEFINE M == {a, b, c}
  <2>1. a \in M /\ b \in M /\ c \in M
    OBVIOUS
  <2>. HIDE DEF M
  <2>2. /\ Append(<<a>>, b) = <<a, b>> /\ Append(<<a, b>>, c) = <<a, b, c>>
        /\ SubSeq(<<a, b>>, 1, 1) = <<a>> /\ SubSeq(<<a, b, c>>, 1, 1) = <<a>>
    BY <2>1, Lists
  <2>. QED
    BY <2>2, Zenon DEF One, Two, Three
<1>. QED
  BY <1>1, <1>2

(* The savepoints of the tests: their positions, and releasing the first.  *)
LEMMA Marked ==
  /\ \A a : Len(One(a)) = 1
  /\ \A a, b : Len(Two(a, b)) = 2
  /\ \A a : One(a)[1] = a /\ SubSeq(One(a), 1, 0) = None
  /\ \A a, b : Two(a, b)[1] = a /\ SubSeq(Two(a, b), 1, 0) = None
<1>1. ASSUME NEW a, NEW b
      PROVE  /\ Len(One(a)) = 1 /\ Len(Two(a, b)) = 2 /\ One(a)[1] = a /\ Two(a, b)[1] = a
             /\ One(a) \in Seq({a, b}) /\ Two(a, b) \in Seq({a, b})
  BY DEF One, Two
<1>2. ASSUME NEW M, NEW s \in Seq(M) PROVE SubSeq(s, 1, 0) = None
  <2>1. \A i \in 1..0 : s[i] \in M
    OBVIOUS
  <2>2. SubSeq(s, 1, 0) \in Seq(M) /\ Len(SubSeq(s, 1, 0)) = 0
    BY <2>1, SubSeqProperties
  <2>. QED
    BY <2>2, EmptySeq DEF None
<1>3. ASSUME NEW a, NEW b
      PROVE  SubSeq(One(a), 1, 0) = None /\ SubSeq(Two(a, b), 1, 0) = None
  <2>. DEFINE M == {a, b}
  <2>1. One(a) \in Seq(M) /\ Two(a, b) \in Seq(M)
    BY <1>1
  <2>. HIDE DEF M
  <2>. QED
    BY <2>1, <1>2
<1>4. ASSUME NEW a, NEW b PROVE Len(One(a)) = 1 /\ Len(Two(a, b)) = 2
  BY <1>1
<1>5. ASSUME NEW a, NEW b PROVE One(a)[1] = a /\ Two(a, b)[1] = a
  BY <1>1
<1>. QED
  BY <1>3, <1>4, <1>5

(* Inserts.                                                                *)
LEMMA InsertRules ==
  ASSUME NEW i \in Ids, NEW v \in Words
  PROVE  /\ \A r1, r2, y, t, l, v1, v2 :
              Written(Rows(r1, r2), Ins(i, v)) = Rows(v1, v2) =>
                Passes(At("conn", r1, r2, Free(l), y, t), Insert(i, v),
                       At("conn", v1, v2, Free(l), y, t))
         /\ \A r1, r2, y, t, l :
              Passes(At("conn", r1, r2, Idle(l), y, t), Insert(i, v),
                     At("conn", r1, r2, Busy(l, Rows(r1, r2), One(Ins(i, v)), None), y, t))
         /\ \A r1, r2, y, t, l, s, m, a :
              Passes(At("conn", r1, r2, Busy(l, s, One(a), m), y, t), Insert(i, v),
                     At("conn", r1, r2, Busy(l, s, Two(a, Ins(i, v)), m), y, t))
<1>. DEFINE call == <<"insert", "conn", i, v>>
<1>1. call[1] \in WriteOps /\ call[2] = "conn" /\ <<call[1], call[3], call[4]>> = Ins(i, v)
  BY DEF WriteOps, Ins
<1>2. Insert(i, v) = <<call>> /\ "conn" \in Conns
  BY DEF Insert, Conns
<1>3. <<call>> \in Seq(TestCalls)
  <2>1. i \in Nat
    BY DEF Ids
  <2>. HIDE DEF TestCalls, Words
  <2>. QED
    BY <1>2, <2>1, Pieces
<1>. HIDE DEF call, TestCalls
<1>4. ASSUME NEW r1, NEW r2, NEW y, NEW t, NEW l, NEW v1, NEW v2,
             Written(Rows(r1, r2), Ins(i, v)) = Rows(v1, v2)
      PROVE  Passes(At("conn", r1, r2, Free(l), y, t), Insert(i, v),
                    At("conn", v1, v2, Free(l), y, t))
  BY <1>1, <1>2, <1>3, <1>4, WritePasses
<1>5. ASSUME NEW r1, NEW r2, NEW y, NEW t, NEW l
      PROVE  Passes(At("conn", r1, r2, Idle(l), y, t), Insert(i, v),
                    At("conn", r1, r2, Busy(l, Rows(r1, r2), One(Ins(i, v)), None), y, t))
  <2>1. Append(None, Ins(i, v)) = One(Ins(i, v))
    BY Appended
  <2>2. Passes(At("conn", r1, r2, Idle(l), y, t), Insert(i, v),
               At("conn", r1, r2, Busy(l, Rows(r1, r2), Append(None, Ins(i, v)), None), y, t))
    BY <1>1, <1>2, <1>3, WritePasses DEF None
  <2>. QED
    BY <2>1, <2>2
<1>6. ASSUME NEW r1, NEW r2, NEW y, NEW t, NEW l, NEW s, NEW m, NEW a
      PROVE  Passes(At("conn", r1, r2, Busy(l, s, One(a), m), y, t), Insert(i, v),
                    At("conn", r1, r2, Busy(l, s, Two(a, Ins(i, v)), m), y, t))
  <2>1. Append(One(a), Ins(i, v)) = Two(a, Ins(i, v))
    BY Appended
  <2>2. Passes(At("conn", r1, r2, Busy(l, s, One(a), m), y, t), Insert(i, v),
               At("conn", r1, r2, Busy(l, s, Append(One(a), Ins(i, v)), m), y, t))
    BY <1>1, <1>2, <1>3, WritePasses
  <2>. QED
    BY <2>1, <2>2
<1>. QED
  BY <1>4, <1>5, <1>6

(* Updates.                                                                *)
LEMMA UpdateRules ==
  ASSUME NEW c \in Conns, NEW v \in Words
  PROVE  /\ \A r1, r2, y, t, l :
              Passes(At(c, r1, r2, Idle(l), y, t), Update(c, 1, v),
                     At(c, r1, r2, Busy(l, Rows(r1, r2), One(Upd(1, v)), None), y, t))
         /\ \A r1, r2, y, t, l, s, m, a :
              Passes(At(c, r1, r2, Busy(l, s, One(a), m), y, t), Update(c, 1, v),
                     At(c, r1, r2, Busy(l, s, Two(a, Upd(1, v)), m), y, t))
         /\ \A r1, r2, y, t, l, s, m, a, b :
              Passes(At(c, r1, r2, Busy(l, s, Two(a, b), m), y, t), Update(c, 1, v),
                     At(c, r1, r2, Busy(l, s, Three(a, b, Upd(1, v)), m), y, t))
<1>. DEFINE call == <<"update", c, 1, v>>
<1>1. call[1] \in WriteOps /\ call[2] = c /\ <<call[1], call[3], call[4]>> = Upd(1, v)
  BY DEF WriteOps, Upd
<1>2. Update(c, 1, v) = <<call>> /\ c \in Words
  BY DEF Update, Conns, Words
<1>. HIDE DEF TestCalls, Words
<1>3. <<call>> \in Seq(TestCalls)
  BY <1>2, Pieces
<1>. HIDE DEF call
<1>4. ASSUME NEW r1, NEW r2, NEW y, NEW t, NEW l
      PROVE  Passes(At(c, r1, r2, Idle(l), y, t), Update(c, 1, v),
                    At(c, r1, r2, Busy(l, Rows(r1, r2), One(Upd(1, v)), None), y, t))
  <2>1. Append(None, Upd(1, v)) = One(Upd(1, v))
    BY Appended
  <2>2. Passes(At(c, r1, r2, Idle(l), y, t), Update(c, 1, v),
               At(c, r1, r2, Busy(l, Rows(r1, r2), Append(None, Upd(1, v)), None), y, t))
    BY <1>1, <1>2, <1>3, WritePasses DEF None
  <2>. QED
    BY <2>1, <2>2
<1>5. ASSUME NEW r1, NEW r2, NEW y, NEW t, NEW l, NEW s, NEW m, NEW w
      PROVE  Passes(At(c, r1, r2, Busy(l, s, w, m), y, t), Update(c, 1, v),
                    At(c, r1, r2, Busy(l, s, Append(w, Upd(1, v)), m), y, t))
  BY <1>1, <1>2, <1>3, WritePasses
<1>6. ASSUME NEW r1, NEW r2, NEW y, NEW t, NEW l, NEW s, NEW m, NEW a
      PROVE  Passes(At(c, r1, r2, Busy(l, s, One(a), m), y, t), Update(c, 1, v),
                    At(c, r1, r2, Busy(l, s, Two(a, Upd(1, v)), m), y, t))
  <2>1. Append(One(a), Upd(1, v)) = Two(a, Upd(1, v))
    BY Appended
  <2>2. Passes(At(c, r1, r2, Busy(l, s, One(a), m), y, t), Update(c, 1, v),
               At(c, r1, r2, Busy(l, s, Append(One(a), Upd(1, v)), m), y, t))
    BY <1>5
  <2>. QED
    BY <2>1, <2>2
<1>7. ASSUME NEW r1, NEW r2, NEW y, NEW t, NEW l, NEW s, NEW m, NEW a, NEW b
      PROVE  Passes(At(c, r1, r2, Busy(l, s, Two(a, b), m), y, t), Update(c, 1, v),
                    At(c, r1, r2, Busy(l, s, Three(a, b, Upd(1, v)), m), y, t))
  <2>1. Append(Two(a, b), Upd(1, v)) = Three(a, b, Upd(1, v))
    BY Appended
  <2>2. Passes(At(c, r1, r2, Busy(l, s, Two(a, b), m), y, t), Update(c, 1, v),
               At(c, r1, r2, Busy(l, s, Append(Two(a, b), Upd(1, v)), m), y, t))
    BY <1>5
  <2>. QED
    BY <2>1, <2>2
<1>. QED
  BY <1>4, <1>6, <1>7

(* Savepoints, and releasing or rolling back to the first one.             *)
LEMMA SavepointSteps ==
  ASSUME NEW r1, NEW r2, NEW y, NEW t, NEW l, NEW s, NEW a, NEW b, NEW c, NEW j
  PROVE  /\ Passes(At("conn", r1, r2, Busy(l, s, One(a), None), y, t), Savepoint,
                   At("conn", r1, r2, Busy(l, s, One(a), One(1)), y, t))
         /\ Passes(At("conn", r1, r2, Busy(l, s, Two(a, b), One(1)), y, t), Savepoint,
                   At("conn", r1, r2, Busy(l, s, Two(a, b), Two(1, 2)), y, t))
         /\ Passes(At("conn", r1, r2, Busy(l, s, Two(a, b), One(1)), y, t),
                   OnSavepoint("releaseSavepoint", 1),
                   At("conn", r1, r2, Busy(l, s, Two(a, b), None), y, t))
         /\ Passes(At("conn", r1, r2, Busy(l, s, Two(a, b), One(1)), y, t),
                   OnSavepoint("rollbackTo", 1),
                   At("conn", r1, r2, Busy(l, s, One(a), None), y, t))
         /\ Passes(At("conn", r1, r2, Busy(l, s, Three(a, b, c), Two(1, 2)), y, t),
                   OnSavepoint("rollbackTo", 1),
                   At("conn", r1, r2, Busy(l, s, One(a), None), y, t))
<1>. DEFINE S(w, m) == At("conn", r1, r2, Busy(l, s, w, m), y, t)
<1>a. "conn" \in Conns /\ 1 \in Nat /\ 1 - 1 = 0 /\ "READ_COMMITTED" \in Words
  BY DEF Conns, Words
<1>1. \A w, m : Passes(S(w, m), Savepoint, S(w, Append(m, Len(w))))
  BY <1>a, LinkRules DEF Savepoint
<1>2. \A w, m : Passes(S(w, m), OnSavepoint("releaseSavepoint", 1), S(w, SubSeq(m, 1, 0)))
  <2>1. ASSUME NEW w, NEW m
        PROVE  Passes(S(w, m), OnSavepoint("releaseSavepoint", 1), S(w, SubSeq(m, 1, 1 - 1)))
    BY <1>a, SavepointRules
  <2>. HIDE DEF S
  <2>. QED
    BY <1>a, <2>1
<1>3. \A w, m : Passes(S(w, m), OnSavepoint("rollbackTo", 1),
                       S(SubSeq(w, 1, m[1]), SubSeq(m, 1, 0)))
  <2>1. ASSUME NEW w, NEW m
        PROVE  Passes(S(w, m), OnSavepoint("rollbackTo", 1),
                      S(SubSeq(w, 1, m[1]), SubSeq(m, 1, 1 - 1)))
    BY <1>a, SavepointRules
  <2>. HIDE DEF S
  <2>. QED
    BY <1>a, <2>1
<1>. HIDE DEF S
<1>4. Passes(S(One(a), None), Savepoint, S(One(a), One(1)))
  <2>1. Append(None, Len(One(a))) = One(1)
    BY Appended, Marked
  <2>. QED
    BY <1>1, <2>1
<1>5. Passes(S(Two(a, b), One(1)), Savepoint, S(Two(a, b), Two(1, 2)))
  <2>1. Append(One(1), Len(Two(a, b))) = Two(1, 2)
    BY Appended, Marked
  <2>. QED
    BY <1>1, <2>1
<1>6. Passes(S(Two(a, b), One(1)), OnSavepoint("releaseSavepoint", 1), S(Two(a, b), None))
  <2>1. SubSeq(One(1), 1, 0) = None
    BY Marked
  <2>. QED
    BY <1>2, <2>1
<1>7. Passes(S(Two(a, b), One(1)), OnSavepoint("rollbackTo", 1), S(One(a), None))
  <2>1. SubSeq(One(1), 1, 0) = None /\ One(1)[1] = 1
    BY Marked
  <2>2. SubSeq(Two(a, b), 1, 1) = One(a)
    BY Appended
  <2>3. SubSeq(Two(a, b), 1, One(1)[1]) = One(a)
    BY <2>1, <2>2
  <2>. QED
    BY <1>3, <2>1, <2>3
<1>8. Passes(S(Three(a, b, c), Two(1, 2)), OnSavepoint("rollbackTo", 1), S(One(a), None))
  <2>1. SubSeq(Two(1, 2), 1, 0) = None /\ Two(1, 2)[1] = 1
    BY Marked
  <2>2. SubSeq(Three(a, b, c), 1, 1) = One(a)
    BY Appended
  <2>3. SubSeq(Three(a, b, c), 1, Two(1, 2)[1]) = One(a)
    BY <2>1, <2>2
  <2>. QED
    BY <1>3, <2>1, <2>3
<1>. QED
  BY <1>4, <1>5, <1>6, <1>7, <1>8 DEF S

(* Reads in a transaction: of the rows as committed and as it has written  *)
(* them, and of its snapshot.                                              *)
LEMMA ReadRules ==
  ASSUME NEW r1, NEW r2, NEW y, NEW t, NEW l, NEW s, NEW w, NEW m, NEW v1, NEW v2, NEW v \in Words
  PROVE  /\ After(Rows(r1, r2), w) = Rows(v1, v2) /\ ReadsAs(v, v1) =>
              Passes(At("conn", r1, r2, Busy("READ_COMMITTED", s, w, m), y, t),
                     Select("conn", 1, v),
                     At("conn", r1, r2, Busy("READ_COMMITTED", s, w, m), y, t))
         /\ Passes(At("conn", r1, r2, Idle(l), y, t), << <<"take", "conn", 1>> >>,
                   At("conn", r1, r2, Busy(l, Rows(r1, r2), None, None), y, r1))
         /\ r1 # t =>
              Passes(At("conn", r1, r2, Busy("READ_COMMITTED", s, None, m), y, t),
                     << <<"assertChanged", "conn", 1>> >>,
                     At("conn", r1, r2, Busy("READ_COMMITTED", s, None, m), y, t))
         /\ Passes(At("conn", r1, r2, Busy("REPEATABLE_READ", Rows(v1, v2), None, m), y, v1),
                   << <<"assertTaken", "conn", 1>> >>,
                   At("conn", r1, r2, Busy("REPEATABLE_READ", Rows(v1, v2), None, m), y, v1))
<1>a. "conn" \in Words /\ 1 \in Nat /\ 1 \in Ids
      /\ {"take", "assertTaken", "assertChanged"} \subseteq TestOps
  BY DEF Words, Ids, TestOps
<1>b. \A u1, u2 : After(Rows(u1, u2), None) = Rows(u1, u2)
  BY Outcomes DEF None
<1>. HIDE DEF TestCalls, Words, TestOps
<1>1. ASSUME After(Rows(r1, r2), w) = Rows(v1, v2), ReadsAs(v, v1)
      PROVE  Passes(At("conn", r1, r2, Busy("READ_COMMITTED", s, w, m), y, t),
                    Select("conn", 1, v),
                    At("conn", r1, r2, Busy("READ_COMMITTED", s, w, m), y, t))
  <2>. DEFINE call == <<"assertSelect", "conn", 1, v>>
              b == Busy("READ_COMMITTED", s, w, m)
  <2>1. /\ call[1] = "assertSelect" /\ call[1] \in ReadOps /\ call[2] = "conn" /\ call[3] = 1
        /\ call[4] = v /\ Select("conn", 1, v) = <<call>>
    BY DEF Select, ReadOps
  <2>. HIDE DEF call
  <2>2. <<call>> \in Seq(TestCalls)
    BY <1>a, <2>1, Pieces
  <2>3. ViewOf(Rows(r1, r2), b) = Rows(v1, v2) /\ BegunOn(Rows(r1, r2), b) = b
    BY <1>1, Views, Begins
  <2>. HIDE DEF b
  <2>4. Passes(At("conn", r1, r2, b, y, t), <<call>>, At("conn", r1, r2, b, y, t))
    BY <1>1, <1>a, <2>1, <2>2, <2>3, ReadPasses
  <2>. QED
    BY <2>1, <2>4 DEF b
<1>2. Passes(At("conn", r1, r2, Idle(l), y, t), << <<"take", "conn", 1>> >>,
             At("conn", r1, r2, Busy(l, Rows(r1, r2), None, None), y, r1))
  <2>. DEFINE call == <<"take", "conn", 1>>
  <2>1. call[1] = "take" /\ call[1] \in ReadOps /\ call[2] = "conn" /\ call[3] = 1
    BY DEF ReadOps
  <2>2. <<call>> \in Seq(TestCalls)
    BY <1>a, Pieces
  <2>. HIDE DEF call
  <2>3. ViewOf(Rows(r1, r2), Idle(l)) = Rows(r1, r2)
    BY <1>b, Views DEF None
  <2>4. BegunOn(Rows(r1, r2), Idle(l)) = Busy(l, Rows(r1, r2), None, None)
    BY Begins DEF None
  <2>5. Passes(At("conn", r1, r2, Idle(l), y, t), <<call>>,
               At("conn", r1, r2, Busy(l, Rows(r1, r2), None, None), y, r1))
    BY <1>a, <2>1, <2>2, <2>3, <2>4, ReadPasses
  <2>. QED
    BY <2>5 DEF call
<1>3. ASSUME r1 # t
      PROVE  Passes(At("conn", r1, r2, Busy("READ_COMMITTED", s, None, m), y, t),
                    << <<"assertChanged", "conn", 1>> >>,
                    At("conn", r1, r2, Busy("READ_COMMITTED", s, None, m), y, t))
  <2>. DEFINE call == <<"assertChanged", "conn", 1>>
              b == Busy("READ_COMMITTED", s, None, m)
  <2>1. call[1] = "assertChanged" /\ call[1] \in ReadOps /\ call[2] = "conn" /\ call[3] = 1
    BY DEF ReadOps
  <2>2. <<call>> \in Seq(TestCalls)
    BY <1>a, Pieces
  <2>. HIDE DEF call
  <2>3. ViewOf(Rows(r1, r2), b) = Rows(r1, r2) /\ BegunOn(Rows(r1, r2), b) = b
    BY <1>b, Views, Begins
  <2>. HIDE DEF b
  <2>4. Passes(At("conn", r1, r2, b, y, t), <<call>>, At("conn", r1, r2, b, y, t))
    BY <1>3, <1>a, <2>1, <2>2, <2>3, ReadPasses
  <2>. QED
    BY <2>4 DEF b, call
<1>4. Passes(At("conn", r1, r2, Busy("REPEATABLE_READ", Rows(v1, v2), None, m), y, v1),
             << <<"assertTaken", "conn", 1>> >>,
             At("conn", r1, r2, Busy("REPEATABLE_READ", Rows(v1, v2), None, m), y, v1))
  <2>. DEFINE call == <<"assertTaken", "conn", 1>>
              b == Busy("REPEATABLE_READ", Rows(v1, v2), None, m)
  <2>1. call[1] = "assertTaken" /\ call[1] \in ReadOps /\ call[2] = "conn" /\ call[3] = 1
    BY DEF ReadOps
  <2>2. <<call>> \in Seq(TestCalls)
    BY <1>a, Pieces
  <2>. HIDE DEF call
  <2>3. ViewOf(Rows(r1, r2), b) = Rows(v1, v2) /\ BegunOn(Rows(r1, r2), b) = b
    BY <1>b, Views, Begins
  <2>. HIDE DEF b
  <2>4. Passes(At("conn", r1, r2, b, y, v1), <<call>>, At("conn", r1, r2, b, y, v1))
    BY <1>a, <2>1, <2>2, <2>3, ReadPasses
  <2>. QED
    BY <2>4 DEF b, call
<1>. QED
  BY <1>1, <1>2, <1>3, <1>4

-----------------------------------------------------------------------------
(* Putting calls together                                                  *)

(* Three and four pieces of a script in turn.                              *)
LEMMA Chain3 ==
  ASSUME NEW s0, NEW s1, NEW s2, NEW s3, NEW a1, NEW a2, NEW a3,
         Passes(s0, a1, s1), Passes(s1, a2, s2), Passes(s2, a3, s3)
  PROVE  Passes(s0, a1 \o a2 \o a3, s3)
<1>1. Passes(s0, a1 \o a2, s2)
  BY PassesBoth
<1>. QED
  BY <1>1, PassesBoth

(* Four pieces.                                                            *)
LEMMA Chain4 ==
  ASSUME NEW s0, NEW s1, NEW s2, NEW s3, NEW s4, NEW a1, NEW a2, NEW a3, NEW a4,
         Passes(s0, a1, s1), Passes(s1, a2, s2), Passes(s2, a3, s3), Passes(s3, a4, s4)
  PROVE  Passes(s0, a1 \o a2 \o a3 \o a4, s4)
<1>1. Passes(s0, a1 \o a2 \o a3, s3)
  BY Chain3
<1>. QED
  BY <1>1, PassesBoth

(* A connection taken from the driver and closed in the end.               *)
LEMMA UsingPasses ==
  ASSUME NEW c \in Conns, NEW r1, NEW r2, NEW v1, NEW v2, NEW x, NEW y, NEW t,
         NEW z, NEW y2, NEW t2, NEW body,
         Passes(At(c, r1, r2, Free("READ_COMMITTED"), y, t), body, At(c, v1, v2, z, y2, t2))
  PROVE  Passes(At(c, r1, r2, x, y, t), Using(c, body), At(c, v1, v2, Shut, y2, t2))
<1>1. "READ_COMMITTED" \in Words /\ 1 \in Nat
  BY DEF Words
<1>2. Passes(At(c, r1, r2, x, y, t), Do("getConnection", c),
             At(c, r1, r2, Free("READ_COMMITTED"), y, t))
  BY <1>1, LinkRules
<1>3. Passes(At(c, v1, v2, z, y2, t2), Do("close", c), At(c, v1, v2, Shut, y2, t2))
  BY <1>1, LinkRules
<1>. QED
  BY <1>2, <1>3, Chain3 DEF Using

(* A transaction on such a connection.                                     *)
LEMMA ManuallyPasses ==
  ASSUME NEW r1, NEW r2, NEW v1, NEW v2, NEW x, NEW y, NEW t, NEW z, NEW y2, NEW t2, NEW body,
         Passes(At("conn", r1, r2, Idle("READ_COMMITTED"), y, t), body,
                At("conn", v1, v2, z, y2, t2))
  PROVE  Passes(At("conn", r1, r2, x, y, t), Manually(body), At("conn", v1, v2, Shut, y2, t2))
<1>1. "READ_COMMITTED" \in Words /\ 1 \in Nat /\ "conn" \in Conns
  BY DEF Words, Conns
<1>2. Passes(At("conn", r1, r2, Free("READ_COMMITTED"), y, t), Do("setAutoCommit", "conn"),
             At("conn", r1, r2, Idle("READ_COMMITTED"), y, t))
  BY <1>1, LinkRules
<1>3. Passes(At("conn", r1, r2, Free("READ_COMMITTED"), y, t),
             Do("setAutoCommit", "conn") \o body, At("conn", v1, v2, z, y2, t2))
  BY <1>2, PassesBoth
<1>. QED
  BY <1>1, <1>3, UsingPasses DEF Manually

(* A script that passes whenever the table is empty; one that does on a    *)
(* connection that commits each statement, and one of a transaction.       *)
Sound(body) == \A x, y, t : \E e : Passes(At("conn", {}, {}, x, y, t), body, e)

OnFree(body) ==
  \A y, t : \E r1, r2, x : Passes(At("conn", {}, {}, Free("READ_COMMITTED"), y, t), body,
                                  At("conn", r1, r2, x, y, t))

InTransaction(body) ==
  \A y, t : \E r1, r2, x : Passes(At("conn", {}, {}, Idle("READ_COMMITTED"), y, t), body,
                                  At("conn", r1, r2, x, y, t))

(* A script of either kind within its connection passes.                   *)
LEMMA UsingSound ==
  ASSUME NEW body, OnFree(body)
  PROVE  Sound(Using("conn", body))
<1>1. SUFFICES ASSUME NEW x, NEW y, NEW t
      PROVE  \E e : Passes(At("conn", {}, {}, x, y, t), Using("conn", body), e)
  BY DEF Sound
<1>2. PICK r1, r2, z : Passes(At("conn", {}, {}, Free("READ_COMMITTED"), y, t), body,
                              At("conn", r1, r2, z, y, t))
  BY DEF OnFree
<1>3. "conn" \in Conns
  BY DEF Conns
<1>4. Passes(At("conn", {}, {}, x, y, t), Using("conn", body), At("conn", r1, r2, Shut, y, t))
  BY <1>2, <1>3, UsingPasses
<1>. QED
  BY <1>4

(* The same of a transaction.                                              *)
LEMMA ManuallySound ==
  ASSUME NEW body, InTransaction(body)
  PROVE  Sound(Manually(body))
<1>1. SUFFICES ASSUME NEW x, NEW y, NEW t
      PROVE  \E e : Passes(At("conn", {}, {}, x, y, t), Manually(body), e)
  BY DEF Sound
<1>2. PICK r1, r2, z : Passes(At("conn", {}, {}, Idle("READ_COMMITTED"), y, t), body,
                              At("conn", r1, r2, z, y, t))
  BY DEF InTransaction
<1>3. Passes(At("conn", {}, {}, x, y, t), Manually(body), At("conn", r1, r2, Shut, y, t))
  BY <1>2, ManuallyPasses
<1>. QED
  BY <1>3

(* What the tests read.                                                    *)
LEMMA Reading ==
  /\ ReadsAs(Null, {}) /\ ReadsAs("text", {"text"}) /\ ReadsAs("newText", {"newText"})
  /\ ReadsAs("newTexta", {"newTexta"})
  /\ {"text", "newText", "newTexta", Null} \subseteq Words
  BY DEF ReadsAs, Null, Words

(* A read of the row 1 or 2 on a connection of its own.                    *)
LEMMA NewSelects ==
  ASSUME NEW r1, NEW r2, NEW x, NEW y, NEW t, NEW v \in Words
  PROVE  /\ ReadsAs(v, r1) =>
              Passes(At("conn", r1, r2, x, y, t), Select("new", 1, v), At("conn", r1, r2, x, y, t))
         /\ ReadsAs(v, r2) =>
              Passes(At("conn", r1, r2, x, y, t), Select("new", 2, v), At("conn", r1, r2, x, y, t))
<1>1. "conn" \in Conns /\ 1 \in Ids /\ 2 \in Ids /\ 2 # 1
  BY DEF Conns, Ids
<1>. HIDE DEF Words
<1>2. ASSUME ReadsAs(v, r1)
      PROVE  Passes(At("conn", r1, r2, x, y, t), Select("new", 1, v), At("conn", r1, r2, x, y, t))
  BY <1>1, <1>2, NewSelectPasses
<1>3. ASSUME ReadsAs(v, r2)
      PROVE  Passes(At("conn", r1, r2, x, y, t), Select("new", 2, v), At("conn", r1, r2, x, y, t))
  BY <1>1, <1>3, NewSelectPasses
<1>. QED
  BY <1>2, <1>3

(* A commit on the connection "conn".                                      *)
LEMMA CommitRule ==
  ASSUME NEW r1, NEW r2, NEW v1, NEW v2, NEW y, NEW t, NEW l, NEW s, NEW w, NEW m,
         After(Rows(r1, r2), w) = Rows(v1, v2)
  PROVE  Passes(At("conn", r1, r2, Busy(l, s, w, m), y, t), Commit,
                At("conn", v1, v2, Idle(l), y, t))
  BY CommitPasses DEF Conns, Commit

-----------------------------------------------------------------------------
(* The tests, each on an empty table                                       *)

(* The same, of the lists None, One, Two and Three.                        *)
LEMMA TransactionRows ==
  /\ \A r1, r2 : After(Rows(r1, r2), None) = Rows(r1, r2)
  /\ \A v : After(Rows({}, {}), One(Ins(1, v))) = Rows({v}, {})
  /\ \A u, v : After(Rows({u}, {}), One(Ins(2, v))) = Rows({u}, {v})
  /\ \A u, v : After(Rows({u}, {}), One(Upd(1, v))) = Rows({v}, {})
  /\ \A u, v : After(Rows({}, {}), Two(Ins(1, u), Ins(2, v))) = Rows({u}, {v})
  /\ \A u, v : After(Rows({}, {}), Two(Ins(1, u), Upd(1, v))) = Rows({v}, {})
  /\ \A u, v, w : After(Rows({}, {}), Three(Ins(1, u), Upd(1, v), Upd(1, w))) = Rows({w}, {})
  BY Outcomes, Zenon DEF None, One, Two, Three

(* The ids, connections and words of the scripts.                          *)
LEMMA Plain ==
  /\ 1 \in Ids /\ 2 \in Ids /\ 1 \in Nat
  /\ "conn" \in Conns /\ "connAnother" \in Conns
  /\ "READ_COMMITTED" \in Words /\ "REPEATABLE_READ" \in Words
  /\ "text" \in Words /\ "newText" \in Words /\ "newTexta" \in Words /\ Null \in Words
  BY DEF Ids, Conns, Words, Null

(* The row is inserted and committed.                                      *)
LEMMA HowToSound == Sound(HowTo)
<1>. DEFINE body == Insert(1, "text") \o Commit
<1>1. ASSUME NEW y, NEW t
      PROVE  \E r1, r2, x : Passes(At("conn", {}, {}, Idle("READ_COMMITTED"), y, t), body,
                                 At("conn", r1, r2, x, y, t))
  <2>. DEFINE Out(r1, r2) == At("conn", r1, r2, Idle("READ_COMMITTED"), y, t)
              In(w, m) == At("conn", {}, {}, Busy("READ_COMMITTED", Rows({}, {}), w, m), y, t)
              s0 == Out({}, {})
              s1 == In(One(Ins(1, "text")), None)
              s2 == Out({"text"}, {})
  <2>1. Passes(s0, Insert(1, "text"), s1)
    BY InsertRules, Plain
  <2>2. Passes(s1, Commit, s2)
    <3>1. After(Rows({}, {}), One(Ins(1, "text"))) = Rows({"text"}, {})
      BY TransactionRows
    <3>. QED
      BY <3>1, CommitRule
  <2>. HIDE DEF s0, s1, s2
  <2>3. Passes(s0, body, s2)
    BY <2>1, <2>2, PassesBoth
  <2>. QED
    BY <2>3 DEF s0, s2
<1>2. InTransaction(body)
  BY <1>1 DEF InTransaction
<1>. QED
  BY <1>2, ManuallySound DEF HowTo

(* Each insert is committed at once, so that an explicit commit is         *)
(* refused.                                                                *)
LEMMA AutocommitTrueSound == Sound(AutocommitTrue)
<1>. DEFINE body == Insert(1, "text") \o Insert(2, "text") \o Select("new", 1, "text")
                          \o Select("new", 2, "text") \o Do("assertCommitThrows", "conn")
<1>1. ASSUME NEW y, NEW t
      PROVE  \E r1, r2, x : Passes(At("conn", {}, {}, Free("READ_COMMITTED"), y, t), body,
                                 At("conn", r1, r2, x, y, t))
  <2>. DEFINE s0 == At("conn", {}, {}, Free("READ_COMMITTED"), y, t)
              s1 == At("conn", {"text"}, {}, Free("READ_COMMITTED"), y, t)
              s2 == At("conn", {"text"}, {"text"}, Free("READ_COMMITTED"), y, t)
  <2>1. Passes(s0, Insert(1, "text"), s1)
    <3>1. Written(Rows({}, {}), Ins(1, "text")) = Rows({"text"}, {})
      BY RowsWritten
    <3>. QED
      BY <3>1, InsertRules, Plain
  <2>2. Passes(s1, Insert(2, "text"), s2)
    <3>1. Written(Rows({"text"}, {}), Ins(2, "text")) = Rows({"text"}, {"text"})
      BY RowsWritten
    <3>. QED
      BY <3>1, InsertRules, Plain
  <2>3. Passes(s2, Select("new", 1, "text"), s2)
    BY Reading, NewSelects, Plain
  <2>4. Passes(s2, Select("new", 2, "text"), s2)
    BY Reading, NewSelects, Plain
  <2>5. Passes(s2, Do("assertCommitThrows", "conn"), s2)
    BY ThrowingCommitPasses
  <2>. HIDE DEF s0, s1, s2
  <2>6. Passes(s0, Insert(1, "text") \o Insert(2, "text") \o Select("new", 1, "text"), s2)
    BY <2>1, <2>2, <2>3, Chain3
  <2>7. Passes(s0, body, s2)
    BY <2>6, <2>4, <2>5, Chain3
  <2>. QED
    BY <2>7 DEF s0, s2
<1>2. OnFree(body)
  BY <1>1 DEF OnFree
<1>. QED
  BY <1>2, UsingSound DEF AutocommitTrue

(* Other connections see the two rows from the commit on.                  *)
LEMMA AutocommitFalseSound == Sound(AutocommitFalse)
<1>. DEFINE body == Insert(1, "text") \o Insert(2, "text") \o Select("new", 1, Null)
                          \o Select("new", 2, Null) \o Commit \o Select("new", 1, "text")
<1>1. ASSUME NEW y, NEW t
      PROVE  \E r1, r2, x : Passes(At("conn", {}, {}, Idle("READ_COMMITTED"), y, t), body,
                                 At("conn", r1, r2, x, y, t))
  <2>. DEFINE Out(r1, r2) == At("conn", r1, r2, Idle("READ_COMMITTED"), y, t)
              In(w, m) == At("conn", {}, {}, Busy("READ_COMMITTED", Rows({}, {}), w, m), y, t)
              s0 == Out({}, {})
              s1 == In(One(Ins(1, "text")), None)
              s2 == In(Two(Ins(1, "text"), Ins(2, "text")), None)
              s3 == Out({"text"}, {"text"})
  <2>1. Passes(s0, Insert(1, "text"), s1)
    BY InsertRules, Plain
  <2>2. Passes(s1, Insert(2, "text"), s2)
    BY InsertRules, Plain
  <2>3. Passes(s2, Select("new", 1, Null), s2)
    BY Reading, NewSelects, Plain
  <2>4. Passes(s2, Select("new", 2, Null), s2)
    BY Reading, NewSelects, Plain
  <2>5. Passes(s2, Commit, s3)
    <3>1. After(Rows({}, {}), Two(Ins(1, "text"), Ins(2, "text"))) = Rows({"text"}, {"text"})
      BY TransactionRows
    <3>. QED
      BY <3>1, CommitRule
  <2>6. Passes(s3, Select("new", 1, "text"), s3)
    BY Reading, NewSelects, Plain
  <2>. HIDE DEF s0, s1, s2, s3
  <2>7. Passes(s0, Insert(1, "text") \o Insert(2, "text") \o Select("new", 1, Null)
            \o Select("new", 2, Null), s2)
    BY <2>1, <2>2, <2>3, <2>4, Chain4
  <2>8. Passes(s0, body, s3)
    BY <2>7, <2>5, <2>6, Chain3
  <2>. QED
    BY <2>8 DEF s0, s3
<1>2. InTransaction(body)
  BY <1>1 DEF InTransaction
<1>. QED
  BY <1>2, ManuallySound DEF AutocommitFalse

(* A transaction for each of the two rows.                                 *)
LEMMA AutocommitFalse2Sound == Sound(AutocommitFalse2)
<1>. DEFINE body == Insert(1, "text") \o Commit \o Insert(2, "text") \o Commit
                          \o Select("new", 1, "text") \o Select("new", 2, "text")
<1>1. ASSUME NEW y, NEW t
      PROVE  \E r1, r2, x : Passes(At("conn", {}, {}, Idle("READ_COMMITTED"), y, t), body,
                                 At("conn", r1, r2, x, y, t))
  <2>. DEFINE Out(r1, r2) == At("conn", r1, r2, Idle("READ_COMMITTED"), y, t)
              In(w, m) == At("conn", {}, {}, Busy("READ_COMMITTED", Rows({}, {}), w, m), y, t)
              s0 == Out({}, {})
              s1 == In(One(Ins(1, "text")), None)
              s2 == Out({"text"}, {})
              s3 == At("conn", {"text"}, {},
                       Busy("READ_COMMITTED", Rows({"text"}, {}), One(Ins(2, "text")), None), y, t)
              s4 == Out({"text"}, {"text"})
  <2>1. Passes(s0, Insert(1, "text"), s1)
    BY InsertRules, Plain
  <2>2. Passes(s1, Commit, s2)
    <3>1. After(Rows({}, {}), One(Ins(1, "text"))) = Rows({"text"}, {})
      BY TransactionRows
    <3>. QED
      BY <3>1, CommitRule
  <2>3. Passes(s2, Insert(2, "text"), s3)
    BY InsertRules, Plain
  <2>4. Passes(s3, Commit, s4)
    <3>1. After(Rows({"text"}, {}), One(Ins(2, "text"))) = Rows({"text"}, {"text"})
      BY TransactionRows
    <3>. QED
      BY <3>1, CommitRule
  <2>5. Passes(s4, Select("new", 1, "text"), s4)
    BY Reading, NewSelects, Plain
  <2>6. Passes(s4, Select("new", 2, "text"), s4)
    BY Reading, NewSelects, Plain
  <2>. HIDE DEF s0, s1, s2, s3, s4
  <2>7. Passes(s0, Insert(1, "text") \o Commit \o Insert(2, "text") \o Commit, s4)
    BY <2>1, <2>2, <2>3, <2>4, Chain4
  <2>8. Passes(s0, body, s4)
    BY <2>7, <2>5, <2>6, Chain3
  <2>. QED
    BY <2>8 DEF s0, s4
<1>2. InTransaction(body)
  BY <1>1 DEF InTransaction
<1>. QED
  BY <1>2, ManuallySound DEF AutocommitFalse2

(* A rollback leaves no row.                                               *)
LEMMA AutocommitFalseWithRollbackSound == Sound(AutocommitFalseWithRollback)
<1>. DEFINE body == InsertHidden \o Do("rollback", "conn") \o Select("new", 1, Null)
<1>1. ASSUME NEW y, NEW t
      PROVE  \E r1, r2, x : Passes(At("conn", {}, {}, Idle("READ_COMMITTED"), y, t), body,
                                 At("conn", r1, r2, x, y, t))
  <2>. DEFINE Out(r1, r2) == At("conn", r1, r2, Idle("READ_COMMITTED"), y, t)
              In(w, m) == At("conn", {}, {}, Busy("READ_COMMITTED", Rows({}, {}), w, m), y, t)
              s0 == Out({}, {})
              s1 == In(One(Ins(1, "text")), None)
  <2>1. Passes(s0, Insert(1, "text"), s1)
    BY InsertRules, Plain
  <2>2. Passes(s1, Select("new", 1, Null), s1)
    BY Reading, NewSelects, Plain
  <2>3. Passes(s1, Do("rollback", "conn"), s0)
    BY LinkRules, Plain
  <2>4. Passes(s0, Select("new", 1, Null), s0)
    BY Reading, NewSelects, Plain
  <2>. HIDE DEF s0, s1
  <2>5. Passes(s0, InsertHidden, s1)
    BY <2>1, <2>2, PassesBoth DEF InsertHidden
  <2>6. Passes(s0, body, s0)
    BY <2>5, <2>3, <2>4, Chain3
  <2>. QED
    BY <2>6 DEF s0
<1>2. InTransaction(body)
  BY <1>1 DEF InTransaction
<1>. QED
  BY <1>2, ManuallySound DEF AutocommitFalseWithRollback

(* A connection closed without a commit leaves no row.                     *)
LEMMA ClosingConnectionMeansRollbackSound == Sound(ClosingConnectionMeansRollback)
<1>. DEFINE body == InsertHidden \o Do("close", "conn") \o Select("new", 1, Null)
<1>1. ASSUME NEW y, NEW t
      PROVE  \E r1, r2, x : Passes(At("conn", {}, {}, Idle("READ_COMMITTED"), y, t), body,
                                 At("conn", r1, r2, x, y, t))
  <2>. DEFINE Out(r1, r2) == At("conn", r1, r2, Idle("READ_COMMITTED"), y, t)
              In(w, m) == At("conn", {}, {}, Busy("READ_COMMITTED", Rows({}, {}), w, m), y, t)
              s0 == Out({}, {})
              s1 == In(One(Ins(1, "text")), None)
              s2 == At("conn", {}, {}, Shut, y, t)
  <2>1. Passes(s0, Insert(1, "text"), s1)
    BY InsertRules, Plain
  <2>2. Passes(s1, Select("new", 1, Null), s1)
    BY Reading, NewSelects, Plain
  <2>3. Passes(s1, Do("close", "conn"), s2)
    BY LinkRules, Plain
  <2>4. Passes(s2, Select("new", 1, Null), s2)
    BY Reading, NewSelects, Plain
  <2>. HIDE DEF s0, s1, s2
  <2>5. Passes(s0, InsertHidden, s1)
    BY <2>1, <2>2, PassesBoth DEF InsertHidden
  <2>6. Passes(s0, body, s2)
    BY <2>5, <2>3, <2>4, Chain3
  <2>. QED
    BY <2>6 DEF s0, s2
<1>2. InTransaction(body)
  BY <1>1 DEF InTransaction
<1>. QED
  BY <1>2, ManuallySound DEF ClosingConnectionMeansRollback

(* The transaction reads its own insert, then its own update.              *)
LEMMA DoubleChangeInTransactionSound == Sound(DoubleChangeInTransaction)
<1>. DEFINE body == InsertHidden \o Select("conn", 1, "text") \o Update("conn", 1, "newText")
                          \o Select("conn", 1, "newText") \o Commit \o Select("new", 1, "newText")
<1>1. ASSUME NEW y, NEW t
      PROVE  \E r1, r2, x : Passes(At("conn", {}, {}, Idle("READ_COMMITTED"), y, t), body,
                                 At("conn", r1, r2, x, y, t))
  <2>. DEFINE Out(r1, r2) == At("conn", r1, r2, Idle("READ_COMMITTED"), y, t)
              In(w, m) == At("conn", {}, {}, Busy("READ_COMMITTED", Rows({}, {}), w, m), y, t)
              s0 == Out({}, {})
              s1 == In(One(Ins(1, "text")), None)
              s2 == In(Two(Ins(1, "text"), Upd(1, "newText")), None)
              s3 == Out({"newText"}, {})
  <2>1. Passes(s0, Insert(1, "text"), s1)
    BY InsertRules, Plain
  <2>2. Passes(s1, Select("new", 1, Null), s1)
    BY Reading, NewSelects, Plain
  <2>3. Passes(s1, Select("conn", 1, "text"), s1)
    <3>1. After(Rows({}, {}), One(Ins(1, "text"))) = Rows({"text"}, {})
      BY TransactionRows
    <3>. QED
      BY <3>1, Reading, ReadRules, Plain
  <2>4. Passes(s1, Update("conn", 1, "newText"), s2)
    BY UpdateRules, Plain
  <2>5. Passes(s2, Select("conn", 1, "newText"), s2)
    <3>1. After(Rows({}, {}), Two(Ins(1, "text"), Upd(1, "newText"))) = Rows({"newText"}, {})
      BY TransactionRows
    <3>. QED
      BY <3>1, Reading, ReadRules, Plain
  <2>6. Passes(s2, Commit, s3)
    <3>1. After(Rows({}, {}), Two(Ins(1, "text"), Upd(1, "newText"))) = Rows({"newText"}, {})
      BY TransactionRows
    <3>. QED
      BY <3>1, CommitRule
  <2>7. Passes(s3, Select("new", 1, "newText"), s3)
    BY Reading, NewSelects, Plain
  <2>. HIDE DEF s0, s1, s2, s3
  <2>8. Passes(s0, InsertHidden, s1)
    BY <2>1, <2>2, PassesBoth DEF InsertHidden
  <2>9. Passes(s0, InsertHidden \o Select("conn", 1, "text") \o Update("conn", 1, "newText")
            \o Select("conn", 1, "newText"), s2)
    BY <2>8, <2>3, <2>4, <2>5, Chain4
  <2>10. Passes(s0, body, s3)
    BY <2>9, <2>6, <2>7, Chain3
  <2>. QED
    BY <2>10 DEF s0, s3
<1>2. InTransaction(body)
  BY <1>1 DEF InTransaction
<1>. QED
  BY <1>2, ManuallySound DEF DoubleChangeInTransaction

(* The insert is seen before the commit that is refused.                   *)
LEMMA CommitForAutocommitTrueSound == Sound(CommitForAutocommitTrue)
<1>. DEFINE body == Insert(1, "text") \o Select("new", 1, "text")
<1>1. ASSUME NEW y, NEW t
      PROVE  \E r1, r2, x : Passes(At("conn", {}, {}, Free("READ_COMMITTED"), y, t), body,
                                 At("conn", r1, r2, x, y, t))
  <2>. DEFINE s0 == At("conn", {}, {}, Free("READ_COMMITTED"), y, t)
              s1 == At("conn", {"text"}, {}, Free("READ_COMMITTED"), y, t)
  <2>1. Passes(s0, Insert(1, "text"), s1)
    <3>1. Written(Rows({}, {}), Ins(1, "text")) = Rows({"text"}, {})
      BY RowsWritten
    <3>. QED
      BY <3>1, InsertRules, Plain
  <2>2. Passes(s1, Select("new", 1, "text"), s1)
    BY Reading, NewSelects, Plain
  <2>. HIDE DEF s0, s1
  <2>3. Passes(s0, body, s1)
    BY <2>1, <2>2, PassesBoth
  <2>. QED
    BY <2>3 DEF s0, s1
<1>2. OnFree(body)
  BY <1>1 DEF OnFree
<1>. QED
  BY <1>2, UsingSound DEF CommitForAutocommitTrue

(* Releasing the savepoint keeps the update made after it.                 *)
LEMMA SafePointCommitSound == Sound(SafePointCommit)
<1>. DEFINE body == InsertHidden \o Select("conn", 1, "text") \o Savepoint
                          \o Update("conn", 1, "newText") \o Select("conn", 1, "newText")
                          \o OnSavepoint("releaseSavepoint", 1) \o Commit
                          \o Select("new", 1, "newText")
<1>1. ASSUME NEW y, NEW t
      PROVE  \E r1, r2, x : Passes(At("conn", {}, {}, Idle("READ_COMMITTED"), y, t), body,
                                 At("conn", r1, r2, x, y, t))
  <2>. DEFINE Out(r1, r2) == At("conn", r1, r2, Idle("READ_COMMITTED"), y, t)
              In(w, m) == At("conn", {}, {}, Busy("READ_COMMITTED", Rows({}, {}), w, m), y, t)
              s0 == Out({}, {})
              s1 == In(One(Ins(1, "text")), None)
              s2 == In(One(Ins(1, "text")), One(1))
              s3 == In(Two(Ins(1, "text"), Upd(1, "newText")), One(1))
              s4 == In(Two(Ins(1, "text"), Upd(1, "newText")), None)
              s5 == Out({"newText"}, {})
  <2>1. Passes(s0, Insert(1, "text"), s1)
    BY InsertRules, Plain
  <2>2. Passes(s1, Select("new", 1, Null), s1)
    BY Reading, NewSelects, Plain
  <2>3. Passes(s1, Select("conn", 1, "text"), s1)
    <3>1. After(Rows({}, {}), One(Ins(1, "text"))) = Rows({"text"}, {})
      BY TransactionRows
    <3>. QED
      BY <3>1, Reading, ReadRules, Plain
  <2>4. Passes(s1, Savepoint, s2)
    BY SavepointSteps
  <2>5. Passes(s2, Update("conn", 1, "newText"), s3)
    BY UpdateRules, Plain
  <2>6. Passes(s3, Select("conn", 1, "newText"), s3)
    <3>1. After(Rows({}, {}), Two(Ins(1, "text"), Upd(1, "newText"))) = Rows({"newText"}, {})
      BY TransactionRows
    <3>. QED
      BY <3>1, Reading, ReadRules, Plain
  <2>7. Passes(s3, OnSavepoint("releaseSavepoint", 1), s4)
    BY SavepointSteps
  <2>8. Passes(s4, Commit, s5)
    <3>1. After(Rows({}, {}), Two(Ins(1, "text"), Upd(1, "newText"))) = Rows({"newText"}, {})
      BY TransactionRows
    <3>. QED
      BY <3>1, CommitRule
  <2>9. Passes(s5, Select("new", 1, "newText"), s5)
    BY Reading, NewSelects, Plain
  <2>. HIDE DEF s0, s1, s2, s3, s4, s5
  <2>10. Passes(s0, InsertHidden, s1)
    BY <2>1, <2>2, PassesBoth DEF InsertHidden
  <2>11. Passes(s0, InsertHidden \o Select("conn", 1, "text") \o Savepoint
            \o Update("conn", 1, "newText"), s3)
    BY <2>10, <2>3, <2>4, <2>5, Chain4
  <2>12. Passes(s0, 
            InsertHidden \o Select("conn", 1, "text") \o Savepoint \o Update("conn", 1, "newText")
            \o Select("conn", 1, "newText") \o OnSavepoint("releaseSavepoint", 1), s4)
    BY <2>11, <2>6, <2>7, Chain3
  <2>13. Passes(s0, body, s5)
    BY <2>12, <2>8, <2>9, Chain3
  <2>. QED
    BY <2>13 DEF s0, s5
<1>2. InTransaction(body)
  BY <1>1 DEF InTransaction
<1>. QED
  BY <1>2, ManuallySound DEF SafePointCommit

(* Rolling back to the savepoint takes the update back.                    *)
LEMMA SafePointRollbackSound == Sound(SafePointRollback)
<1>. DEFINE body == InsertHidden \o Savepoint \o Update("conn", 1, "newText")
                          \o OnSavepoint("rollbackTo", 1) \o Commit \o Select("new", 1, "text")
<1>1. ASSUME NEW y, NEW t
      PROVE  \E r1, r2, x : Passes(At("conn", {}, {}, Idle("READ_COMMITTED"), y, t), body,
                                 At("conn", r1, r2, x, y, t))
  <2>. DEFINE Out(r1, r2) == At("conn", r1, r2, Idle("READ_COMMITTED"), y, t)
              In(w, m) == At("conn", {}, {}, Busy("READ_COMMITTED", Rows({}, {}), w, m), y, t)
              s0 == Out({}, {})
              s1 == In(One(Ins(1, "text")), None)
              s2 == In(One(Ins(1, "text")), One(1))
              s3 == In(Two(Ins(1, "text"), Upd(1, "newText")), One(1))
              s4 == Out({"text"}, {})
  <2>1. Passes(s0, Insert(1, "text"), s1)
    BY InsertRules, Plain
  <2>2. Passes(s1, Select("new", 1, Null), s1)
    BY Reading, NewSelects, Plain
  <2>3. Passes(s1, Savepoint, s2)
    BY SavepointSteps
  <2>4. Passes(s2, Update("conn", 1, "newText"), s3)
    BY UpdateRules, Plain
  <2>5. Passes(s3, OnSavepoint("rollbackTo", 1), s1)
    BY SavepointSteps
  <2>6. Passes(s1, Commit, s4)
    <3>1. After(Rows({}, {}), One(Ins(1, "text"))) = Rows({"text"}, {})
      BY TransactionRows
    <3>. QED
      BY <3>1, CommitRule
  <2>7. Passes(s4, Select("new", 1, "text"), s4)
    BY Reading, NewSelects, Plain
  <2>. HIDE DEF s0, s1, s2, s3, s4
  <2>8. Passes(s0, InsertHidden, s1)
    BY <2>1, <2>2, PassesBoth DEF InsertHidden
  <2>9. Passes(s0, InsertHidden \o Savepoint \o Update("conn", 1, "newText")
            \o OnSavepoint("rollbackTo", 1), s1)
    BY <2>8, <2>3, <2>4, <2>5, Chain4
  <2>10. Passes(s0, body, s4)
    BY <2>9, <2>6, <2>7, Chain3
  <2>. QED
    BY <2>10 DEF s0, s4
<1>2. InTransaction(body)
  BY <1>1 DEF InTransaction
<1>. QED
  BY <1>2, ManuallySound DEF SafePointRollback

(* Rolling back to the first of two savepoints takes both updates back.    *)
LEMMA SafePointDoubleRollbackSound == Sound(SafePointDoubleRollback)
<1>. DEFINE body == Insert(1, "text") \o Savepoint \o Update("conn", 1, "newText") \o Savepoint
                          \o Update("conn", 1, "newTexta") \o Select("conn", 1, "newTexta")
                          \o OnSavepoint("rollbackTo", 1) \o Select("conn", 1, "text") \o Commit
                          \o Select("new", 1, "text")
<1>1. ASSUME NEW y, NEW t
      PROVE  \E r1, r2, x : Passes(At("conn", {}, {}, Idle("READ_COMMITTED"), y, t), body,
                                 At("conn", r1, r2, x, y, t))
  <2>. DEFINE Out(r1, r2) == At("conn", r1, r2, Idle("READ_COMMITTED"), y, t)
              In(w, m) == At("conn", {}, {}, Busy("READ_COMMITTED", Rows({}, {}), w, m), y, t)
              s0 == Out({}, {})
              s1 == In(One(Ins(1, "text")), None)
              s2 == In(One(Ins(1, "text")), One(1))
              s3 == In(Two(Ins(1, "text"), Upd(1, "newText")), One(1))
              s4 == In(Two(Ins(1, "text"), Upd(1, "newText")), Two(1, 2))
              s5 == In(Three(Ins(1, "text"), Upd(1, "newText"), Upd(1, "newTexta")), Two(1, 2))
              s6 == Out({"text"}, {})
  <2>1. Passes(s0, Insert(1, "text"), s1)
    BY InsertRules, Plain
  <2>2. Passes(s1, Savepoint, s2)
    BY SavepointSteps
  <2>3. Passes(s2, Update("conn", 1, "newText"), s3)
    BY UpdateRules, Plain
  <2>4. Passes(s3, Savepoint, s4)
    BY SavepointSteps
  <2>5. Passes(s4, Update("conn", 1, "newTexta"), s5)
    BY UpdateRules, Plain
  <2>6. Passes(s5, Select("conn", 1, "newTexta"), s5)
    <3>1. After(Rows({}, {}), Three(Ins(1, "text"), Upd(1, "newText"), Upd(1, "newTexta")))
            = Rows({"newTexta"}, {})
      BY TransactionRows
    <3>. QED
      BY <3>1, Reading, ReadRules, Plain
  <2>7. Passes(s5, OnSavepoint("rollbackTo", 1), s1)
    BY SavepointSteps
  <2>8. Passes(s1, Select("conn", 1, "text"), s1)
    <3>1. After(Rows({}, {}), One(Ins(1, "text"))) = Rows({"text"}, {})
      BY TransactionRows
    <3>. QED
      BY <3>1, Reading, ReadRules, Plain
  <2>9. Passes(s1, Commit, s6)
    <3>1. After(Rows({}, {}), One(Ins(1, "text"))) = Rows({"text"}, {})
      BY TransactionRows
    <3>. QED
      BY <3>1, CommitRule
  <2>10. Passes(s6, Select("new", 1, "text"), s6)
    BY Reading, NewSelects, Plain
  <2>. HIDE DEF s0, s1, s2, s3, s4, s5, s6
  <2>11. Passes(s0, Insert(1, "text") \o Savepoint \o Update("conn", 1, "newText") \o Savepoint, s4)
    BY <2>1, <2>2, <2>3, <2>4, Chain4
  <2>12. Passes(s0, Insert(1, "text") \o Savepoint \o Update("conn", 1, "newText") \o Savepoint
            \o Update("conn", 1, "newTexta") \o Select("conn", 1, "newTexta")
            \o OnSavepoint("rollbackTo", 1), s1)
    BY <2>11, <2>5, <2>6, <2>7, Chain4
  <2>13. Passes(s0, body, s6)
    BY <2>12, <2>8, <2>9, <2>10, Chain4
  <2>. QED
    BY <2>13 DEF s0, s6
<1>2. InTransaction(body)
  BY <1>1 DEF InTransaction
<1>. QED
  BY <1>2, ManuallySound DEF SafePointDoubleRollback

(* A rollback takes what a released savepoint has kept as well.            *)
LEMMA SafePointWholeTransactionRollbackSound == Sound(SafePointWholeTransactionRollback)
<1>. DEFINE body == InsertHidden \o Savepoint \o Update("conn", 1, "newText")
                          \o OnSavepoint("releaseSavepoint", 1) \o Select("new", 1, Null)
                          \o Do("rollback", "conn") \o Select("new", 1, Null)
<1>1. ASSUME NEW y, NEW t
      PROVE  \E r1, r2, x : Passes(At("conn", {}, {}, Idle("READ_COMMITTED"), y, t), body,
                                 At("conn", r1, r2, x, y, t))
  <2>. DEFINE Out(r1, r2) == At("conn", r1, r2, Idle("READ_COMMITTED"), y, t)
              In(w, m) == At("conn", {}, {}, Busy("READ_COMMITTED", Rows({}, {}), w, m), y, t)
              s0 == Out({}, {})
              s1 == In(One(Ins(1, "text")), None)
              s2 == In(One(Ins(1, "text")), One(1))
              s3 == In(Two(Ins(1, "text"), Upd(1, "newText")), One(1))
              s4 == In(Two(Ins(1, "text"), Upd(1, "newText")), None)
  <2>1. Passes(s0, Insert(1, "text"), s1)
    BY InsertRules, Plain
  <2>2. Passes(s1, Select("new", 1, Null), s1)
    BY Reading, NewSelects, Plain
  <2>3. Passes(s1, Savepoint, s2)
    BY SavepointSteps
  <2>4. Passes(s2, Update("conn", 1, "newText"), s3)
    BY UpdateRules, Plain
  <2>5. Passes(s3, OnSavepoint("releaseSavepoint", 1), s4)
    BY SavepointSteps
  <2>6. Passes(s4, Select("new", 1, Null), s4)
    BY Reading, NewSelects, Plain
  <2>7. Passes(s4, Do("rollback", "conn"), s0)
    BY LinkRules, Plain
  <2>8. Passes(s0, Select("new", 1, Null), s0)
    BY Reading, NewSelects, Plain
  <2>. HIDE DEF s0, s1, s2, s3, s4
  <2>9. Passes(s0, InsertHidden, s1)
    BY <2>1, <2>2, PassesBoth DEF InsertHidden
  <2>10. Passes(s0, InsertHidden \o Savepoint \o Update("conn", 1, "newText")
            \o OnSavepoint("releaseSavepoint", 1), s4)
    BY <2>9, <2>3, <2>4, <2>5, Chain4
  <2>11. Passes(s0, body, s0)
    BY <2>10, <2>6, <2>7, <2>8, Chain4
  <2>. QED
    BY <2>11 DEF s0
<1>2. InTransaction(body)
  BY <1>1 DEF InTransaction
<1>. QED
  BY <1>2, ManuallySound DEF SafePointWholeTransactionRollback

(* A batch is seen from the commit on.                                     *)
LEMMA RunBatchSound == Sound(RunBatch)
<1>. DEFINE body == Insert(1, "text") \o Insert(2, "newText") \o Select("new", 1, Null)
                          \o Select("new", 2, Null) \o Commit \o Select("new", 1, "text")
                          \o Select("new", 2, "newText")
<1>1. ASSUME NEW y, NEW t
      PROVE  \E r1, r2, x : Passes(At("conn", {}, {}, Idle("READ_COMMITTED"), y, t), body,
                                 At("conn", r1, r2, x, y, t))
  <2>. DEFINE Out(r1, r2) == At("conn", r1, r2, Idle("READ_COMMITTED"), y, t)
              In(w, m) == At("conn", {}, {}, Busy("READ_COMMITTED", Rows({}, {}), w, m), y, t)
              s0 == Out({}, {})
              s1 == In(One(Ins(1, "text")), None)
              s2 == In(Two(Ins(1, "text"), Ins(2, "newText")), None)
              s3 == Out({"text"}, {"newText"})
  <2>1. Passes(s0, Insert(1, "text"), s1)
    BY InsertRules, Plain
  <2>2. Passes(s1, Insert(2, "newText"), s2)
    BY InsertRules, Plain
  <2>3. Passes(s2, Select("new", 1, Null), s2)
    BY Reading, NewSelects, Plain
  <2>4. Passes(s2, Select("new", 2, Null), s2)
    BY Reading, NewSelects, Plain
  <2>5. Passes(s2, Commit, s3)
    <3>1. After(Rows({}, {}), Two(Ins(1, "text"), Ins(2, "newText")))
            = Rows({"text"}, {"newText"})
      BY TransactionRows
    <3>. QED
      BY <3>1, CommitRule
  <2>6. Passes(s3, Select("new", 1, "text"), s3)
    BY Reading, NewSelects, Plain
  <2>7. Passes(s3, Select("new", 2, "newText"), s3)
    BY Reading, NewSelects, Plain
  <2>. HIDE DEF s0, s1, s2, s3
  <2>8. Passes(s0, Insert(1, "text") \o Insert(2, "newText") \o Select("new", 1, Null)
            \o Select("new", 2, Null), s2)
    BY <2>1, <2>2, <2>3, <2>4, Chain4
  <2>9. Passes(s0, body, s3)
    BY <2>8, <2>5, <2>6, <2>7, Chain4
  <2>. QED
    BY <2>9 DEF s0, s3
<1>2. InTransaction(body)
  BY <1>1 DEF InTransaction
<1>. QED
  BY <1>2, ManuallySound DEF RunBatch

(* The other connection updates the row and commits.                       *)
LEMMA UpdateMeanwhilePasses ==
  ASSUME NEW x, NEW y, NEW t
  PROVE  Passes(At("conn", {"text"}, {}, x, y, t), UpdateMeanwhile,
                At("conn", {"newText"}, {}, x, Shut, t))
<1>. DEFINE body == Do("setAutoCommit", "connAnother") \o Update("connAnother", 1, "newText")
                      \o Do("commit", "connAnother")
            s0 == At("connAnother", {"text"}, {}, Free("READ_COMMITTED"), x, t)
            s1 == At("connAnother", {"text"}, {}, Idle("READ_COMMITTED"), x, t)
            s2 == At("connAnother", {"text"}, {},
                     Busy("READ_COMMITTED", Rows({"text"}, {}), One(Upd(1, "newText")), None), x, t)
            s3 == At("connAnother", {"newText"}, {}, Idle("READ_COMMITTED"), x, t)
<1>1. Passes(s0, Do("setAutoCommit", "connAnother"), s1)
  BY LinkRules, Plain
<1>2. Passes(s1, Update("connAnother", 1, "newText"), s2)
  BY UpdateRules, Plain
<1>3. Passes(s2, Do("commit", "connAnother"), s3)
  <2>1. After(Rows({"text"}, {}), One(Upd(1, "newText"))) = Rows({"newText"}, {})
    BY TransactionRows
  <2>. QED
    BY <2>1, CommitPasses, Plain
<1>4. Passes(s0, body, s3)
  <2>. HIDE DEF s0, s1, s2, s3
  <2>. QED
    BY <1>1, <1>2, <1>3, Chain3
<1>5. Passes(At("connAnother", {"text"}, {}, y, x, t), UpdateMeanwhile,
             At("connAnother", {"newText"}, {}, Shut, x, t))
  <2>. HIDE DEF body
  <2>1. Passes(At("connAnother", {"text"}, {}, y, x, t), Using("connAnother", body),
               At("connAnother", {"newText"}, {}, Shut, x, t))
    BY <1>4, UsingPasses, Plain
  <2>. QED
    BY <2>1 DEF UpdateMeanwhile, body
<1>6. \A r1, r2, u, v : At("connAnother", r1, r2, u, v, t) = At("conn", r1, r2, v, u, t)
  BY DEF At, Conns
<1>. QED
  BY <1>5, <1>6

(* What the transaction of the isolation tests sees after that update:     *)
(* its reads begin with the rows {"newText"}, the kept text {"text"}.      *)
Reread(level, reads) ==
  \E b : LET s == At("conn", {"newText"}, {}, b, Shut, {"text"})
         IN  /\ b = Busy(level, Rows({"text"}, {}), None, None)
             /\ Passes(s, reads, s)

(* The test of an isolation level whose reads pass after the update.       *)
LEMMA LevelSound ==
  ASSUME NEW level \in Words, NEW reads, Reread(level, reads)
  PROVE  Sound(AtLevel(level, reads))
<1>1. SUFFICES ASSUME NEW x, NEW y, NEW t
      PROVE  \E e : Passes(At("conn", {}, {}, x, y, t), AtLevel(level, reads), e)
  BY DEF Sound
<1>. DEFINE set == << <<"setTransactionIsolation", "conn", level>> >>
            take == << <<"take", "conn", 1>> >>
            body == set \o Do("setAutoCommit", "conn") \o take \o UpdateMeanwhile \o reads
                      \o Select("new", 1, "newText") \o Commit
            b == Busy(level, Rows({"text"}, {}), None, None)
            s0 == At("conn", {}, {}, x, y, t)
            s1 == At("conn", {"text"}, {}, Shut, y, t)
            s2 == At("conn", {"text"}, {}, Free("READ_COMMITTED"), y, t)
            s3 == At("conn", {"text"}, {}, Free(level), y, t)
            s4 == At("conn", {"text"}, {}, Idle(level), y, t)
            s5 == At("conn", {"text"}, {}, b, y, {"text"})
            s6 == At("conn", {"newText"}, {}, b, Shut, {"text"})
            s7 == At("conn", {"newText"}, {}, Idle(level), Shut, {"text"})
            s8 == At("conn", {"newText"}, {}, Shut, Shut, {"text"})
<1>2. Passes(s0, Using("conn", Insert(1, "text")), s1)
  <2>1. Written(Rows({}, {}), Ins(1, "text")) = Rows({"text"}, {})
    BY RowsWritten
  <2>2. Passes(At("conn", {}, {}, Free("READ_COMMITTED"), y, t), Insert(1, "text"),
               At("conn", {"text"}, {}, Free("READ_COMMITTED"), y, t))
    BY <2>1, InsertRules, Plain
  <2>. QED
    BY <2>2, UsingPasses, Plain
<1>3. Passes(s2, set, s3)
  BY LinkRules, Plain
<1>4. Passes(s3, Do("setAutoCommit", "conn"), s4)
  BY LinkRules, Plain
<1>5. Passes(s4, take, s5)
  BY ReadRules, Plain
<1>6. Passes(s5, UpdateMeanwhile, s6)
  BY UpdateMeanwhilePasses
<1>7. Passes(s6, reads, s6)
  BY DEF Reread
<1>8. Passes(s6, Select("new", 1, "newText"), s6)
  BY Reading, NewSelects, Plain
<1>9. Passes(s6, Commit, s7)
  <2>1. After(Rows({"newText"}, {}), None) = Rows({"newText"}, {})
    BY TransactionRows
  <2>. QED
    BY <2>1, CommitRule
<1>10. Passes(s2, body, s7)
  <2>. HIDE DEF s2, s3, s4, s5, s6, s7, set, take
  <2>1. Passes(s2, set \o Do("setAutoCommit", "conn") \o take \o UpdateMeanwhile, s6)
    BY <1>3, <1>4, <1>5, <1>6, Chain4
  <2>. QED
    BY <2>1, <1>7, <1>8, <1>9, Chain4
<1>11. Passes(s1, Using("conn", body), s8)
  <2>. HIDE DEF body
  <2>. QED
    BY <1>10, UsingPasses, Plain
<1>12. Passes(s0, Using("conn", Insert(1, "text")) \o Using("conn", body), s8)
  <2>. HIDE DEF s0, s1, s8, body
  <2>. QED
    BY <1>2, <1>11, PassesBoth
<1>13. Passes(s0, AtLevel(level, reads), s8)
  BY <1>12, Zenon DEF AtLevel
<1>. QED
  BY <1>13

(* A second read sees the update.                                          *)
LEMMA ReadCommittedSound == Sound(ReadCommitted)
<1>. DEFINE changed == << <<"assertChanged", "conn", 1>> >>
            b == Busy("READ_COMMITTED", Rows({"text"}, {}), None, None)
            s == At("conn", {"newText"}, {}, b, Shut, {"text"})
<1>1. Passes(s, changed, s)
  <2>1. {"newText"} # {"text"}
    OBVIOUS
  <2>. QED
    BY <2>1, ReadRules, Plain
<1>2. Passes(s, Select("conn", 1, "newText"), s)
  <2>1. After(Rows({"newText"}, {}), None) = Rows({"newText"}, {})
    BY TransactionRows
  <2>. QED
    BY <2>1, Reading, ReadRules, Plain
<1>3. Passes(s, changed \o Select("conn", 1, "newText"), s)
  <2>. HIDE DEF s, changed
  <2>. QED
    BY <1>1, <1>2, PassesBoth
<1>4. Reread("READ_COMMITTED", changed \o Select("conn", 1, "newText"))
  BY <1>3 DEF Reread
<1>. QED
  BY <1>4, LevelSound, Plain DEF ReadCommitted

(* A second read sees what the first one saw.                              *)
LEMMA RepeatableReadSound == Sound(RepeatableRead)
<1>. DEFINE again == << <<"assertTaken", "conn", 1>> >>
            b == Busy("REPEATABLE_READ", Rows({"text"}, {}), None, None)
            s == At("conn", {"newText"}, {}, b, Shut, {"text"})
<1>1. Passes(s, again, s)
  BY ReadRules, Plain
<1>2. Reread("REPEATABLE_READ", again)
  BY <1>1 DEF Reread
<1>. QED
  BY <1>2, LevelSound, Plain DEF RepeatableRead

(* Every test passes on an empty table, whatever connections and kept text *)
(* the tests before it have left.                                          *)
LEMMA BodiesSound == \A t \in Tests : Sound(Bodies[t])
<1>. HIDE DEF Sound
<1>. QED
  BY HowToSound, AutocommitTrueSound, AutocommitFalseSound, AutocommitFalse2Sound,
     AutocommitFalseWithRollbackSound, ClosingConnectionMeansRollbackSound,
     DoubleChangeInTransactionSound, CommitForAutocommitTrueSound, SafePointCommitSound,
     SafePointRollbackSound, SafePointDoubleRollbackSound,
     SafePointWholeTransactionRollbackSound, RunBatchSound, ReadCommittedSound,
     RepeatableReadSound
  DEF Tests, Bodies

-----------------------------------------------------------------------------
(* The invariant of the assertions                                         *)

Linked(f) == f = [c \in Conns |-> f[c]]

(* In a class nothing has disturbed the table is empty between the tests,  *)
(* and what is left of a running test is free of failures.                 *)
TestInv ==
  /\ failed => disturbed
  /\ Linked(conn)
  /\ stage = "ready" /\ class = "JdbcTest" /\ ~disturbed => rows = NoRows
  /\ stage = "test" /\ ~disturbed => Clear(Bodies[test], pc, Database)

(* An assignment to one connection, and closing all, keep the function.    *)
LEMMA LinkedKept ==
  /\ \A f, a, z : Linked(f) => Linked([f EXCEPT ![a] = z])
  /\ Linked([c \in Conns |-> Shut])
  BY DEF Linked

(* So does every call that is served.                                      *)
LEMMA ServedLinked ==
  ASSUME Served, Linked(conn)
  PROVE  Linked(conn')
<1>. DEFINE Same == conn' = conn
            Set == \E a, z : conn' = [conn EXCEPT ![a] = z]
<1>1. ASSUME Set PROVE Linked(conn')
  <2>1. PICK a, z : conn' = [conn EXCEPT ![a] = z]
    BY <1>1
  <2>2. Linked([conn EXCEPT ![a] = z])
    BY LinkedKept
  <2>. QED
    BY <2>1, <2>2
<1>2. CASE OnLoaders /\ UNCHANGED db
  BY <1>2 DEF db
<1>3. CASE Statement \/ Finish \/ Reads
  <2>1. Same \/ Set
    BY <1>3 DEF Statement, Finish, Reads
  <2>. QED
    BY <1>1, <2>1
<1>4. CASE GetConnection \/ Configure \/ SetSavepoint \/ ToSavepoint
  <2>1. Set
    BY <1>4 DEF GetConnection, Configure, SetSavepoint, ToSavepoint, ConnBecomes
  <2>. QED
    BY <1>1, <2>1
<1>5. CASE AssertCommitThrows \/ CreateTable \/ DropTable \/ DeleteTable
  BY <1>5 DEF AssertCommitThrows, CreateTable, DropTable, DeleteTable, db
<1>. QED
  BY <1>2, <1>3, <1>4, <1>5 DEF Served, OnDatabase

(* Setting up and cleaning up empty the table.                             *)
LEMMA ServedEmpties ==
  ASSUME Served, Call[1] \in {"createTable", "deleteTable"}
  PROVE  rows' = NoRows
<1>1. OnDatabase
  BY DEF Served, OnLoaders, RegisterDriver, SetContextClassLoader, RestoreClassloader, IsOp
<1>. QED
  BY <1>1 DEF OnDatabase, Statement, Finish, GetConnection, Configure, SetSavepoint, ToSavepoint,
              Reads, AssertCommitThrows, CreateTable, DropTable, DeleteTable, IsOp

(* A test that starts with an empty table has nothing to fail.             *)
LEMMA TestStarts ==
  ASSUME NEW t \in Tests, Linked(conn), rows = NoRows
  PROVE  Clear(Bodies[t], 1, Database)
<1>. DEFINE x == conn["conn"]
            y == conn["connAnother"]
<1>1. Database = At("conn", {}, {}, x, y, taken)
  <2>1. conn = [d \in Conns |-> IF d = "conn" THEN x ELSE y]
    BY DEF Linked, Conns
  <2>2. rows = Rows({}, {})
    BY RowsWritten
  <2>. QED
    BY <2>1, <2>2 DEF Database, At
<1>2. PICK e : Passes(At("conn", {}, {}, x, y, taken), Bodies[t], e)
  BY BodiesSound DEF Sound
<1>. QED
  BY <1>1, <1>2, PassesClear

(* A call of a script that is served.                                      *)
LEMMA TestStepKept ==
  ASSUME SessionInv, TestInv, Step
  PROVE  TestInv'
<1>a. /\ InScript /\ Served
      /\ IF pc < Len(Script) THEN pc' = pc + 1 /\ stage' = stage ELSE Go(NextStage[stage])
      /\ class' = class /\ test' = test
      /\ disturbed' = (disturbed /\ ~IsOp("deleteTable"))
      /\ failed' = (failed /\ ~IsOp("deleteTable"))
  BY DEF Step
<1>b. StageInv
  BY DEF SessionInv
<1>1. failed' => disturbed'
  BY <1>a DEF TestInv
<1>2. Linked(conn')
  BY <1>a, ServedLinked DEF TestInv
<1>c. stage \in {"before", "test", "clean", "after"}
  BY <1>a, <1>b, StageCalls
<1>d. stage' \in {stage, NextStage[stage]} /\ class \in Classes
  BY <1>a, <1>b, <1>c DEF Go, StageInv, InClass
<1>3. CASE stage = "test"
  <2>1. test \in Tests /\ Bodies[test] \in Seq(TestCalls) /\ Script = Bodies[test]
    BY <1>3, <1>b, BodiesPlain DEF StageInv, Script
  <2>2. Call[1] \in TestOps /\ pc \in DOMAIN Bodies[test] /\ Call = Bodies[test][pc]
    BY <1>3, <1>a, <1>b, <2>1, StageCalls DEF InScript, Call
  <2>3. Database' = Effect(Call, Database)
    BY <1>a, <2>2, ServedEffect
  <2>4. stage' # "ready"
    BY <1>3, <1>d DEF NextStage
  <2>5. ASSUME stage' = "test", ~disturbed' PROVE Clear(Bodies[test'], pc', Database')
    <3>1. ~disturbed
      BY <1>a, <2>2, <2>5 DEF IsOp, TestOps
    <3>2. pc' = pc + 1
      BY <1>a, <1>3, <2>5 DEF Go, NextStage
    <3>3. Clear(Bodies[test], pc, Database)
      BY <1>3, <3>1 DEF TestInv
    <3>. HIDE DEF TestCalls
    <3>4. Clear(Bodies[test], pc + 1, Effect(Bodies[test][pc], Database))
      BY <2>1, <2>2, <3>3, ClearStep
    <3>. QED
      BY <1>a, <2>2, <2>3, <3>2, <3>4
  <2>. QED
    BY <1>1, <1>2, <2>4, <2>5 DEF TestInv
<1>4. CASE stage = "clean"
  <2>1. rows' = NoRows
    BY <1>4, <1>a, <1>b, StageCalls, ServedEmpties
  <2>2. stage' # "test"
    BY <1>4, <1>d DEF NextStage
  <2>. QED
    BY <1>1, <1>2, <2>1, <2>2 DEF TestInv
<1>5. CASE stage = "before" /\ class = "JdbcTest"
  <2>1. Len(Script) = 2 /\ (pc = 1 \/ (pc = 2 /\ Call[1] = "createTable"))
    BY <1>5, <1>a, <1>b, StageCalls
  <2>2. stage' # "test"
    BY <1>5, <1>d DEF NextStage
  <2>3. stage' = "ready" => rows' = NoRows
    <3>1. CASE pc = 1
      BY <3>1, <1>5, <1>a, <2>1
    <3>2. CASE pc = 2
      BY <3>2, <1>a, <2>1, ServedEmpties
    <3>. QED
      BY <2>1, <3>1, <3>2
  <2>. QED
    BY <1>1, <1>2, <2>2, <2>3 DEF TestInv
<1>6. CASE stage = "after" \/ (stage = "before" /\ class = "JPATest")
  <2>1. stage' # "test" /\ (stage' = "ready" => class' = "JPATest")
    BY <1>6, <1>a, <1>d DEF NextStage
  <2>. QED
    BY <1>1, <1>2, <2>1 DEF TestInv
<1>. QED
  BY <1>3, <1>4, <1>5, <1>6, <1>c, <1>d DEF Classes

(* An assertion fails only in a class something has disturbed.             *)
LEMMA FailuresDisturbed ==
  ASSUME SessionInv, TestInv, InScript, ~Holds
  PROVE  disturbed
<1>a. StageInv
  BY DEF SessionInv
<1>1. CASE stage = "test"
  <2>1. SUFFICES ASSUME ~disturbed PROVE FALSE
    OBVIOUS
  <2>2. Bodies[test] \in Seq(TestCalls) /\ Script = Bodies[test]
    BY <1>1, <1>a, BodiesPlain DEF StageInv, Script
  <2>3. pc \in DOMAIN Bodies[test] /\ Call = Bodies[test][pc]
    BY <2>2 DEF InScript, Call
  <2>4. Clear(Bodies[test], pc, Database)
    BY <1>1, <2>1 DEF TestInv
  <2>. HIDE DEF TestCalls
  <2>5. HoldsIn(Call, Database)
    BY <2>2, <2>3, <2>4, ClearStep
  <2>. QED
    BY <2>5, HoldsOfDatabase
<1>2. CASE stage # "test"
  <2>1. stage \in {"before", "clean", "after"} /\ class \in Classes
    BY <1>2, <1>a, StageCalls DEF StageInv, InClass
  <2>2. Call[1] \in ClassOps
    BY <2>1, <1>a, StageCalls DEF ClassOps, StageInv, Classes
  <2>. QED
    BY <2>2 DEF ClassOps, Holds, IsOp
<1>. QED
  BY <1>1, <1>2

(* Every step keeps the invariant, action by action.                       *)
LEMMA TestInductive == SessionInv /\ TestInv /\ [Next]_vars => TestInv'
<1>. SUFFICES ASSUME SessionInv, TestInv, [Next]_vars PROVE TestInv'
  OBVIOUS
<1>a. /\ failed => disturbed
      /\ Linked(conn)
  BY DEF TestInv
<1>b. ASSUME conn' = conn \/ conn' = [c \in Conns |-> Shut] PROVE Linked(conn')
  BY <1>a, <1>b, LinkedKept
<1>1. CASE StartJvm
  <2>1. stage' = "jvm" /\ UNCHANGED <<conn, failed, disturbed>>
    BY <1>1 DEF StartJvm, db
  <2>. QED
    BY <1>a, <1>b, <2>1 DEF TestInv
<1>2. ASSUME NEW k \in Classes, StartClass(k) PROVE TestInv'
  <2>1. stage' = "before" /\ conn' = conn /\ failed' = FALSE
    BY <1>2 DEF StartClass, db
  <2>. QED
    BY <1>b, <2>1 DEF TestInv
<1>3. ASSUME NEW t \in Tests, StartTest(t) PROVE TestInv'
  <2>1. /\ stage = "ready" /\ class = "JdbcTest" /\ stage' = "test" /\ test' = t /\ pc' = 1
        /\ failed' = FALSE /\ UNCHANGED <<rows, conn, taken, disturbed>>
    BY <1>3 DEF StartTest, db
  <2>2. ASSUME ~disturbed' PROVE Clear(Bodies[test'], pc', Database')
    <3>1. rows = NoRows
      BY <2>1, <2>2 DEF TestInv
    <3>2. Clear(Bodies[t], 1, Database)
      BY <3>1, <1>a, TestStarts
    <3>3. Database' = Database
      BY <2>1 DEF Database
    <3>. QED
      BY <2>1, <3>2, <3>3
  <2>. QED
    BY <1>b, <2>1, <2>2 DEF TestInv
<1>4. CASE EndClass
  <2>1. stage' = "after" /\ UNCHANGED <<conn, failed, disturbed>>
    BY <1>4 DEF EndClass
  <2>. QED
    BY <1>a, <1>b, <2>1 DEF TestInv
<1>5. CASE StopJvm
  <2>1. stage' = "down" /\ UNCHANGED <<conn, failed, disturbed>>
    BY <1>5 DEF StopJvm, db
  <2>. QED
    BY <1>a, <1>b, <2>1 DEF TestInv
<1>6. CASE AssertionFails
  <2>1. InScript /\ ~Holds /\ disturbed' = disturbed /\ conn' = [c \in Conns |-> Shut]
    BY <1>6 DEF AssertionFails, Unwind
  <2>2. disturbed'
    BY <2>1, FailuresDisturbed
  <2>. QED
    BY <1>b, <2>1, <2>2 DEF TestInv
<1>7. CASE TableRefused
  <2>1. /\ InScript /\ Call[1] \in {"createTable", "dropTable"}
        /\ conn' = [c \in Conns |-> Shut] /\ stage' = StageAfterThrow[stage]
        /\ UNCHANGED <<failed, disturbed>>
    BY <1>7 DEF TableRefused, IsOp, Unwind, Go
  <2>2. stage \in {"before", "after"}
    <3>1. StageInv
      BY DEF SessionInv
    <3>. QED
      BY <2>1, <3>1, StageCalls DEF TestOps
  <2>3. stage' \in {"after", "jvm"}
    BY <2>1, <2>2 DEF StageAfterThrow
  <2>. QED
    BY <1>a, <1>b, <2>1, <2>3 DEF TestInv
<1>8. CASE Throw
  <2>1. disturbed' = TRUE /\ conn' = [c \in Conns |-> Shut]
    BY <1>8 DEF Throw, Unwind
  <2>. QED
    BY <1>b, <2>1 DEF TestInv
<1>9. CASE Kill
  <2>1. stage' = "down" /\ conn' = [c \in Conns |-> Shut] /\ UNCHANGED <<failed, disturbed>>
    BY <1>9 DEF Kill
  <2>. QED
    BY <1>a, <1>b, <2>1 DEF TestInv
<1>10. CASE (\E g \in ghosts : ForgetGhost(g)) \/ UNCHANGED vars
  <2>1. UNCHANGED <<stage, class, test, pc, rows, conn, taken, failed, disturbed>>
    BY <1>10 DEF ForgetGhost, vars, course, db
  <2>2. Database' = Database
    BY <2>1 DEF Database
  <2>. QED
    BY <2>1, <2>2 DEF TestInv
<1>. QED
  BY <1>1, <1>2, <1>3, <1>4, <1>5, <1>6, <1>7, <1>8, <1>9, <1>10, TestStepKept DEF Next, Junit

-----------------------------------------------------------------------------
(* The theorems                                                            *)

(* Where JUnit is, the loaders and the table are as SessionInv says in     *)
(* every state.                                                            *)
THEOREM SessionInvariant == Spec => []SessionInv
<1>1. Init => SessionInv
  <2>1. Init => DriverInv
    BY DEF Init, DriverInv, ClassPathDrivers
  <2>2. Init => StageInv /\ LoaderInv /\ TableInv
    BY DEF Init, StageInv, LoaderInv, TableInv, Stages, InClass, Own, Classes
  <2>. QED
    BY <2>1, <2>2 DEF SessionInv
<1>. QED
  BY <1>1, SessionInductive, PTL DEF Spec

(* The DriverManager has one delegation once the driver is registered and  *)
(* none before, of the loader that getDriverClassLoader answers and of a   *)
(* class of the class path when that has it, though failed registrations   *)
(* leave drivers that have registered themselves; the test thread has that *)
(* loader exactly while JPATest runs, whatever throws and in any order of  *)
(* the classes.                                                            *)
THEOREM LoadersMatchHolds == Spec => []LoadersMatch
<1>1. SessionInv => LoadersMatch
  BY DEF SessionInv, LoaderInv, DriverInv, LoadersMatch, Own
<1>. QED
  BY <1>1, SessionInvariant, PTL

(* A run of JdbcTest that nothing disturbs leaves no table behind,         *)
(* whatever table a killed run has left for it.                            *)
THEOREM HealsHolds == Spec => []Heals
<1>1. SessionInv => Heals
  BY DEF SessionInv, TableInv, Heals
<1>. QED
  BY <1>1, SessionInvariant, PTL

(* Every test of JdbcTest passes from where it is, and the table is empty  *)
(* between the tests, in a class no call of which has thrown.              *)
THEOREM TestInvariant == Spec => []TestInv
<1>1. Init => TestInv
  BY LinkedKept DEF Init, TestInv
<1>. QED
  BY <1>1, SessionInvariant, TestInductive, PTL DEF Spec

(* Every assertion of every test of JdbcTest holds, in any order of the    *)
(* tests and after any killed run, unless a call of this class has thrown  *)
(* since the table was last emptied.                                       *)
THEOREM IsolationAsTestedHolds == Spec => []IsolationAsTested
<1>1. TestInv => IsolationAsTested
  BY DEF TestInv, IsolationAsTested
<1>. QED
  BY <1>1, TestInvariant, PTL

=============================================================================
