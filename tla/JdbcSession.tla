---------------------------- MODULE JdbcSession -----------------------------
(***************************************************************************)
(* The standalone JDBC tests (JdbcTest) over JdbcDriver and JdbcUtil, and  *)
(* the class set-up of JPATest, which registers the same driver.  A JVM    *)
(* runs the two classes in any order: set-up, tests with a clean-up each,  *)
(* tear-down.  Any call may throw, and the JVM be killed anywhere; the     *)
(* table, and for a while the transactions of a killed JVM, are what the   *)
(* next run finds.                                                         *)
(*                                                                         *)
(* A script is the sequence of the calls and assertions of a test.  The    *)
(* database is external: a transaction is the list of its writes, applied  *)
(* to the committed rows or to its snapshot.                               *)
(***************************************************************************)
EXTENDS Naturals, Sequences, SequencesExt, FiniteSets

CONSTANTS MaxRuns,     \* JVMs started
          MaxTests,    \* tests of JdbcTest per run
          MaxFaults,   \* calls that throw
          MaxKills     \* JVMs killed

ASSUME BoundsAssumption ==
  MaxRuns \in Nat /\ MaxTests \in Nat /\ MaxFaults \in Nat /\ MaxKills \in Nat

VARIABLES
  stage,              \* "down", "jvm", "before", "ready", "test", "clean" or "after"
  class, classes,     \* the running test class, and those this JVM has run
  test, tests,        \* the running test, and those of this class that have run
  pc,                 \* position in the script
  onClassPath,        \* the driver is on the class path of the tests, as the POM has it
                      \* for one of the databases, and not in its jar only
  isRegistered,       \* JdbcDriver.isRegistered
  driverClassLoader,  \* JdbcDriver.driverClassLoader, 0 for null
  drivers,            \* drivers that have registered themselves, by the loader of
                      \* their class
  delegations,        \* DriverDelegations registered: the loader asked for the driver
                      \* and the loader of the driver's class
  contextLoader,      \* context class loader of the test thread
  original,           \* JPATest.originalContextClassloader
  table,              \* the table exists
  rows,               \* committed texts of each id
  conn,               \* the connections of the test
  ghosts,             \* transactions of a killed JVM the database still keeps
  taken,              \* JdbcTest: takenText
  disturbed,          \* a call has thrown since the last clean-up or set-up
  lost,               \* a call has thrown, or the JVM been killed, in this run
  failed,             \* an assertion has failed in this test
  runs, faults, kills

jvm == <<onClassPath, isRegistered, driverClassLoader, drivers, delegations, contextLoader,
         original>>
db == <<table, rows, conn, taken>>
course == <<stage, class, classes, test, tests, pc>>
counts == <<runs, faults, kills>>
vars == <<course, jvm, db, ghosts, disturbed, lost, failed, counts>>

Ids == {1, 2}
Null == "null"

-----------------------------------------------------------------------------
(* The scripts of JdbcTest.  Most use one connection, "conn".              *)

Insert(i, x) == << <<"insert", "conn", i, x>> >>
Update(c, i, x) == << <<"update", c, i, x>> >>
Do(call, c) == << <<call, c>> >>
Commit == Do("commit", "conn")
Savepoint == Do("setSavepoint", "conn")
OnSavepoint(call, k) == << <<call, "conn", k>> >>

(* selectById on the connection, or on one of its own ("new").             *)
Select(c, i, x) == << <<"assertSelect", c, i, x>> >>

Using(c, body) == Do("getConnection", c) \o body \o Do("close", c)
Manually(body) == Using("conn", Do("setAutoCommit", "conn") \o body)
InsertHidden == Insert(1, "text") \o Select("new", 1, Null)

HowTo == Manually(Insert(1, "text") \o Commit)

AutocommitTrue ==
  Using("conn", Insert(1, "text") \o Insert(2, "text")
    \o Select("new", 1, "text") \o Select("new", 2, "text")
    \o Do("assertCommitThrows", "conn"))

AutocommitFalse ==
  Manually(Insert(1, "text") \o Insert(2, "text")
    \o Select("new", 1, Null) \o Select("new", 2, Null)
    \o Commit \o Select("new", 1, "text"))

AutocommitFalse2 ==
  Manually(Insert(1, "text") \o Commit \o Insert(2, "text") \o Commit
    \o Select("new", 1, "text") \o Select("new", 2, "text"))

AutocommitFalseWithRollback ==
  Manually(InsertHidden \o Do("rollback", "conn") \o Select("new", 1, Null))

ClosingConnectionMeansRollback ==
  Manually(InsertHidden \o Do("close", "conn") \o Select("new", 1, Null))

DoubleChangeInTransaction ==
  Manually(InsertHidden \o Select("conn", 1, "text")
    \o Update("conn", 1, "newText") \o Select("conn", 1, "newText")
    \o Commit \o Select("new", 1, "newText"))

(* The exception of its commit is expected and ignored.                    *)
CommitForAutocommitTrue == Using("conn", Insert(1, "text") \o Select("new", 1, "text"))

SafePointCommit ==
  Manually(InsertHidden \o Select("conn", 1, "text")
    \o Savepoint \o Update("conn", 1, "newText") \o Select("conn", 1, "newText")
    \o OnSavepoint("releaseSavepoint", 1) \o Commit \o Select("new", 1, "newText"))

SafePointRollback ==
  Manually(InsertHidden \o Savepoint \o Update("conn", 1, "newText")
    \o OnSavepoint("rollbackTo", 1) \o Commit \o Select("new", 1, "text"))

SafePointDoubleRollback ==
  Manually(Insert(1, "text") \o Savepoint \o Update("conn", 1, "newText")
    \o Savepoint \o Update("conn", 1, "newTexta") \o Select("conn", 1, "newTexta")
    \o OnSavepoint("rollbackTo", 1) \o Select("conn", 1, "text")
    \o Commit \o Select("new", 1, "text"))

SafePointWholeTransactionRollback ==
  Manually(InsertHidden \o Savepoint \o Update("conn", 1, "newText")
    \o OnSavepoint("releaseSavepoint", 1) \o Select("new", 1, Null)
    \o Do("rollback", "conn") \o Select("new", 1, Null))

RunBatch ==
  Manually(Insert(1, "text") \o Insert(2, "newText")
    \o Select("new", 1, Null) \o Select("new", 2, Null) \o Commit
    \o Select("new", 1, "text") \o Select("new", 2, "newText"))

UpdateMeanwhile ==
  Using("connAnother", Do("setAutoCommit", "connAnother")
    \o Update("connAnother", 1, "newText") \o Do("commit", "connAnother"))

(* Mutant: the transaction writes the row before the other one does.       *)
AtLevelWritesFirst(level, reads) ==
  Using("conn", Insert(1, "text"))
    \o Manually(Update("conn", 1, "text") \o UpdateMeanwhile \o reads)

(* Another transaction updates the row between two reads of this one.      *)
AtLevel(level, reads) ==
  Using("conn", Insert(1, "text"))
    \o Using("conn", << <<"setTransactionIsolation", "conn", level>> >>
         \o Do("setAutoCommit", "conn") \o << <<"take", "conn", 1>> >>
         \o UpdateMeanwhile \o reads \o Select("new", 1, "newText") \o Commit)

ReadCommitted ==
  AtLevel("READ_COMMITTED",
          << <<"assertChanged", "conn", 1>> >> \o Select("conn", 1, "newText"))

RepeatableRead == AtLevel("REPEATABLE_READ", << <<"assertTaken", "conn", 1>> >>)

Bodies ==
  [howTo |-> HowTo, autocommitTrue |-> AutocommitTrue, autocommitFalse |-> AutocommitFalse,
   autocommitFalse2 |-> AutocommitFalse2,
   autocommitFalseWithRollback |-> AutocommitFalseWithRollback,
   closingConnectionMeansRollback |-> ClosingConnectionMeansRollback,
   doubleChangeInTransaction |-> DoubleChangeInTransaction,
   commitForAutocommitTrue |-> CommitForAutocommitTrue,
   safePointCommit |-> SafePointCommit, safePointRollback |-> SafePointRollback,
   safePointDoubleRollback |-> SafePointDoubleRollback,
   safePointWholeTransactionRollback |-> SafePointWholeTransactionRollback,
   runBatch |-> RunBatch, readCommitted |-> ReadCommitted, repeatableRead |-> RepeatableRead]

Tests == DOMAIN Bodies

-----------------------------------------------------------------------------
(* The database: what a transaction sees, holds and leaves behind.         *)

Conns == {"conn", "connAnother"}
NoRows == [i \in Ids |-> {}]
Shut == [open |-> FALSE, auto |-> TRUE, level |-> "READ_COMMITTED", begun |-> FALSE,
         snapshot |-> NoRows, writes |-> <<>>, marks |-> <<>>]
Fresh == [Shut EXCEPT !.open = TRUE]

Written(old, w) ==
  [old EXCEPT ![w[2]] = IF w[1] = "insert" THEN @ \union {w[3]}
                        ELSE IF @ = {} THEN @ ELSE {w[3]}]

Base(c) == IF c.begun /\ c.level = "REPEATABLE_READ" THEN c.snapshot ELSE rows
View(c) == FoldLeft(Written, Base(c), c.writes)

(* A select out of a transaction sees what is committed.                   *)
Seen(who, i) == IF who = "new" THEN rows[i] ELSE View(conn[who])[i]
ReadsAs(x, texts) == IF x = Null THEN texts = {} ELSE x \in texts

(* The committed rows a transaction has updated stay locked to its end.    *)
LockedBy(c) == {i \in Ids : rows[i] # {} /\ \E k \in DOMAIN c.writes :
                              c.writes[k][1] = "update" /\ c.writes[k][2] = i}

(* The first statement after setAutoCommit(false) or the last end begins.  *)
Begin(c) ==
  IF c.auto \/ c.begun THEN c ELSE [c EXCEPT !.begun = TRUE, !.snapshot = rows]

Ended(c) ==
  [c EXCEPT !.begun = FALSE, !.snapshot = NoRows, !.writes = <<>>, !.marks = <<>>]

-----------------------------------------------------------------------------
(* One call or assertion of the running script.                            *)

Script ==
  CASE stage = "before" -> IF class = "JdbcTest"
         THEN << <<"registerDriver">>, <<"createTable">> >>
         ELSE << <<"registerDriver">>, <<"setContextClassLoader">> >>
    [] stage = "test" -> Bodies[test]
    [] stage = "clean" -> << <<"deleteTable">> >>
    [] stage = "after" -> IF class = "JdbcTest"
         THEN << <<"dropTable">> >> ELSE << <<"restoreClassloader">> >>
    [] OTHER -> <<>>

Call == Script[pc]
InScript == pc \in DOMAIN Script
IsOp(name) == InScript /\ Call[1] = name
C == conn[Call[2]]

(* What the connection does with an update depends on autocommit.          *)
Statement ==
  /\ IsOp("insert") \/ IsOp("update")
  /\ LET w == <<Call[1], Call[3], Call[4]>>
     IN  IF C.auto
         THEN rows' = Written(rows, w) /\ UNCHANGED conn
         ELSE /\ conn' = [conn EXCEPT ![Call[2]] = [Begin(C) EXCEPT !.writes = Append(@, w)]]
              /\ UNCHANGED rows
  /\ UNCHANGED <<table, taken>>

Finish ==
  /\ IsOp("commit") \/ IsOp("rollback") \/ IsOp("close")
  /\ rows' = IF IsOp("commit") THEN FoldLeft(Written, rows, C.writes) ELSE rows
  /\ conn' = [conn EXCEPT ![Call[2]] = IF IsOp("close") THEN Shut ELSE Ended(C)]
  /\ UNCHANGED <<table, taken>>

ConnBecomes(c) == conn' = [conn EXCEPT ![Call[2]] = c] /\ UNCHANGED <<table, rows, taken>>

GetConnection == IsOp("getConnection") /\ ConnBecomes(Fresh)

Configure ==
  \/ IsOp("setAutoCommit") /\ ConnBecomes([C EXCEPT !.auto = FALSE])
  \/ IsOp("setTransactionIsolation") /\ ConnBecomes([C EXCEPT !.level = Call[3]])

SetSavepoint ==
  IsOp("setSavepoint") /\ ConnBecomes([C EXCEPT !.marks = Append(@, Len(C.writes))])

(* Releasing or rolling back to a savepoint ends the later ones too.       *)
ToSavepoint ==
  LET marked == [C EXCEPT !.marks = SubSeq(@, 1, Call[3] - 1)]
  IN  \/ IsOp("releaseSavepoint") /\ ConnBecomes(marked)
      \/ IsOp("rollbackTo")
         /\ ConnBecomes([marked EXCEPT !.writes = SubSeq(@, 1, C.marks[Call[3]])])

(* A select begins a transaction like any other statement.                 *)
Reads ==
  /\ IsOp("take") \/ IsOp("assertSelect") \/ IsOp("assertTaken") \/ IsOp("assertChanged")
  /\ IF Call[2] = "new" THEN UNCHANGED conn
     ELSE conn' = [conn EXCEPT ![Call[2]] = Begin(C)]
  /\ IF IsOp("take") THEN taken' = Seen(Call[2], Call[3]) ELSE UNCHANGED taken
  /\ UNCHANGED <<table, rows>>

AssertCommitThrows == IsOp("assertCommitThrows") /\ UNCHANGED db

Holds ==
  CASE IsOp("assertSelect") -> ReadsAs(Call[4], Seen(Call[2], Call[3]))
    [] IsOp("assertTaken") -> Seen(Call[2], Call[3]) = taken
    [] IsOp("assertChanged") -> Seen(Call[2], Call[3]) # taken
    [] IsOp("assertCommitThrows") -> C.auto
    [] OTHER -> TRUE

CreateTable ==
  /\ IsOp("createTable") /\ ~table
  /\ table' = TRUE /\ rows' = NoRows
  /\ UNCHANGED <<conn, taken>>

(* The DriverManager has a driver for the classes of the tests: it hides   *)
(* those of a loader they cannot see.                                      *)
Connects == delegations # {} \/ 1 \in drivers

DropTable ==
  /\ IsOp("dropTable") /\ table /\ Connects
  /\ table' = FALSE /\ rows' = NoRows
  /\ UNCHANGED <<conn, taken>>

(* Mutant: the connection of runSQL is closed without a commit.            *)
DeleteTableUncommitted == IsOp("deleteTable") /\ UNCHANGED db

DeleteTable ==
  /\ IsOp("deleteTable")
  /\ rows' = NoRows
  /\ UNCHANGED <<table, conn, taken>>

OnDatabase ==
  \/ Statement \/ Finish \/ GetConnection \/ Configure \/ SetSavepoint \/ ToSavepoint
  \/ Reads \/ AssertCommitThrows \/ CreateTable \/ DropTable \/ DeleteTable

-----------------------------------------------------------------------------
(* Class loaders are numbers: 0 is null, 1 the loader of the tests, later  *)
(* ones are made by FileLoader.loadJar and ask their parent first, which   *)
(* is the thread's context loader.                                         *)

NewLoader == IF driverClassLoader = 0 THEN 2 ELSE driverClassLoader + 1

DefiningLoader ==
  IF onClassPath /\ contextLoader # 0 THEN 1 ELSE NewLoader

(* The DriverManager finds the drivers of the class path by itself.        *)
ClassPathDrivers == IF onClassPath THEN {1} ELSE {}

(* Class.forName runs the static initializer, once in a class's life: the  *)
(* driver registers itself, and then its DriverDelegation is registered.   *)
Register ==
  /\ driverClassLoader' = NewLoader
  /\ drivers' = drivers \union {DefiningLoader}
  /\ delegations' = delegations \union {<<NewLoader, DefiningLoader>>}

(* Mutant: the flag is not looked at.                                      *)
RegisterDriverAgain ==
  /\ IsOp("registerDriver")
  /\ isRegistered' = TRUE /\ Register
  /\ UNCHANGED <<onClassPath, contextLoader, original>>

RegisterDriver ==
  /\ IsOp("registerDriver")
  /\ IF isRegistered THEN UNCHANGED <<isRegistered, driverClassLoader, drivers, delegations>>
     ELSE isRegistered' = TRUE /\ Register
  /\ UNCHANGED <<onClassPath, contextLoader, original>>

(* The jar is loaded; the driver is not, or it has registered itself and   *)
(* then its instance or its delegation fails.                              *)
RegisterDriverHalf ==
  /\ IsOp("registerDriver") /\ ~isRegistered
  /\ driverClassLoader' = NewLoader
  /\ drivers' \in {drivers, drivers \union {DefiningLoader}}
  /\ UNCHANGED <<onClassPath, isRegistered, delegations, contextLoader, original>>

SetContextClassLoader ==
  /\ IsOp("setContextClassLoader")
  /\ original' = contextLoader
  /\ contextLoader' = driverClassLoader
  /\ UNCHANGED <<onClassPath, isRegistered, driverClassLoader, drivers, delegations>>

RestoreClassloader ==
  /\ IsOp("restoreClassloader")
  /\ contextLoader' = original
  /\ UNCHANGED <<onClassPath, isRegistered, driverClassLoader, drivers, delegations, original>>

OnLoaders == RegisterDriver \/ SetContextClassLoader \/ RestoreClassloader

Served == \/ OnDatabase /\ UNCHANGED jvm
          \/ OnLoaders /\ UNCHANGED db

(* Those that make the call wait, of this JVM and of a killed one.         *)
OwnBlockers ==
  CASE IsOp("update") -> {c \in Conns \ {Call[2]} : Call[3] \in LockedBy(conn[c])}
    [] IsOp("deleteTable") -> {c \in Conns : LockedBy(conn[c]) # {}}
    [] IsOp("dropTable") -> {c \in Conns : conn[c].begun}
    [] OTHER -> {}

GhostBlockers ==
  CASE IsOp("update") -> {g \in ghosts : Call[3] \in g}
    [] IsOp("deleteTable") -> ghosts \ {{}}
    [] IsOp("dropTable") -> ghosts
    [] OTHER -> {}

Waits == OwnBlockers # {} \/ GhostBlockers # {}

-----------------------------------------------------------------------------
(* The run of the classes by JUnit.                                        *)

StartJvm ==
  /\ stage = "down" /\ runs < MaxRuns
  /\ stage' = "jvm" /\ classes' = {} /\ runs' = runs + 1 /\ lost' = FALSE
  /\ UNCHANGED <<class, test, tests, pc, jvm, db, ghosts, disturbed, failed, faults, kills>>

StartClass(k) ==
  /\ stage = "jvm" /\ k \notin classes
  /\ stage' = "before" /\ class' = k /\ classes' = classes \union {k} /\ pc' = 1
  /\ tests' = {} /\ disturbed' = FALSE /\ failed' = FALSE
  /\ UNCHANGED <<test, jvm, db, ghosts, lost, counts>>

StartTest(t) ==
  /\ stage = "ready" /\ class = "JdbcTest" /\ t \notin tests
  /\ Cardinality(tests) < MaxTests
  /\ stage' = "test" /\ test' = t /\ tests' = tests \union {t} /\ pc' = 1
  /\ failed' = FALSE
  /\ UNCHANGED <<class, classes, jvm, db, ghosts, disturbed, lost, counts>>

EndClass ==
  /\ stage = "ready"
  /\ stage' = "after" /\ pc' = 1
  /\ test' = "none" /\ tests' = {} /\ taken' = {}
  /\ UNCHANGED <<class, classes, jvm, table, rows, conn, ghosts, disturbed, lost, failed, counts>>

(* Static fields and loaders go with the JVM.                              *)
Exit ==
  /\ UNCHANGED onClassPath
  /\ isRegistered' = FALSE /\ driverClassLoader' = 0
  /\ drivers' = ClassPathDrivers /\ delegations' = {}
  /\ contextLoader' = 1 /\ original' = 0

StopJvm ==
  /\ stage = "jvm"
  /\ stage' = "down"
  /\ Exit
  /\ UNCHANGED <<class, classes, test, tests, pc, db, ghosts, disturbed, lost, failed, counts>>

(* Where a script goes when it is over, and where when a call of it throws. *)
NextStage == [before |-> "ready", test |-> "clean", clean |-> "ready", after |-> "jvm"]

(* Mutant: a class whose set-up throws is not torn down.                   *)
StageAfterThrowSkipsTearDown ==
  [before |-> "jvm", test |-> "clean", clean |-> "ready", after |-> "jvm"]

StageAfterThrow ==
  [before |-> "after", test |-> "clean", clean |-> "ready", after |-> "jvm"]

Go(next) == stage' = next /\ pc' = IF next \in {"clean", "after"} THEN 1 ELSE 0

Step ==
  /\ InScript /\ ~Waits /\ Holds
  /\ Served
  /\ IF pc < Len(Script) THEN pc' = pc + 1 /\ UNCHANGED stage ELSE Go(NextStage[stage])
  /\ disturbed' = (disturbed /\ ~IsOp("deleteTable"))
  /\ failed' = (failed /\ ~IsOp("deleteTable"))
  /\ UNCHANGED <<class, classes, test, tests, ghosts, lost, counts>>

(* try-with-resources closes the connections, without a commit.            *)
Unwind ==
  /\ Go(StageAfterThrow[stage])
  /\ conn' = [c \in Conns |-> Shut]

AssertionFails ==
  /\ InScript /\ ~Holds
  /\ failed' = TRUE
  /\ Unwind
  /\ UNCHANGED <<class, classes, test, tests, jvm, table, rows, taken, ghosts,
                 disturbed, lost, counts>>

(* The table is there already, or is not there at all, or no driver is.    *)
TableRefused ==
  /\ \/ IsOp("createTable") /\ table
     \/ IsOp("dropTable") /\ ~(table /\ Connects)
  /\ Unwind
  /\ UNCHANGED <<class, classes, test, tests, jvm, table, rows, taken, ghosts,
                 disturbed, lost, failed, counts>>

(* Any call throws.  One that throws after its effect is the same as the   *)
(* next one throwing, but for those that end a script; after a             *)
(* setContextClassLoader the JpaProviders of JPATest throw.                *)
Throw ==
  /\ InScript /\ faults < MaxFaults
  /\ ~IsOp("restoreClassloader") /\ ~(IsOp("registerDriver") /\ isRegistered)
  /\ faults' = faults + 1 /\ disturbed' = TRUE /\ lost' = TRUE
  /\ Unwind
  /\ \/ ~IsOp("setContextClassLoader") /\ UNCHANGED <<jvm, table, rows>>
     \/ SetContextClassLoader /\ UNCHANGED <<table, rows>>
     \/ /\ ~Waits
        /\ \/ IsOp("createTable") /\ ~table /\ table' = TRUE
           \/ IsOp("dropTable") /\ table /\ Connects /\ table' = FALSE
           \/ IsOp("deleteTable") /\ UNCHANGED table
        /\ rows' = NoRows
        /\ UNCHANGED jvm
     \/ RegisterDriverHalf /\ UNCHANGED <<table, rows>>
  /\ UNCHANGED <<class, classes, test, tests, taken, ghosts, failed, runs, kills>>

(* The database keeps the transactions of a killed JVM until it notices.   *)
Kill ==
  /\ stage # "down" /\ kills < MaxKills
  /\ kills' = kills + 1 /\ lost' = TRUE
  /\ stage' = "down" /\ pc' = 0 /\ test' = "none" /\ tests' = {} /\ taken' = {}
  /\ Exit
  /\ ghosts' = ghosts \union {LockedBy(conn[c]) : c \in {d \in Conns : conn[d].begun}}
  /\ conn' = [c \in Conns |-> Shut]
  /\ UNCHANGED <<class, classes, table, rows, disturbed, failed, runs, faults>>

ForgetGhost(g) ==
  /\ ghosts' = ghosts \ {g}
  /\ UNCHANGED <<course, jvm, db, disturbed, lost, failed, counts>>

Init ==
  /\ stage = "down" /\ class = "none" /\ classes = {} /\ test = "none" /\ tests = {} /\ pc = 0
  /\ onClassPath \in BOOLEAN /\ isRegistered = FALSE /\ driverClassLoader = 0
  /\ drivers = ClassPathDrivers /\ delegations = {}
  /\ contextLoader = 1 /\ original = 0
  /\ table = FALSE /\ rows = NoRows /\ conn = [c \in Conns |-> Shut] /\ ghosts = {}
  /\ taken = {}
  /\ disturbed = FALSE /\ lost = FALSE /\ failed = FALSE
  /\ runs = 0 /\ faults = 0 /\ kills = 0

Classes == {"JdbcTest", "JPATest"}

Junit ==
  \/ \E k \in Classes : StartClass(k)
  \/ \E t \in Tests : StartTest(t)
  \/ EndClass \/ StopJvm
  \/ Step \/ AssertionFails \/ TableRefused

Next ==
  \/ StartJvm \/ Junit \/ Throw \/ Kill
  \/ \E g \in ghosts : ForgetGhost(g)

Spec == Init /\ [][Next]_vars

(* A started JVM goes on, and the database notices dead connections.       *)
FairSpec == Spec /\ WF_vars(Junit) /\ WF_vars(\E g \in ghosts : ForgetGhost(g))

-----------------------------------------------------------------------------
Texts == {"text", "newText", "newTexta"}

TypeOK ==
  /\ stage \in {"down", "jvm", "before", "ready", "test", "clean", "after"}
  /\ class \in Classes \union {"none"} /\ classes \subseteq Classes
  /\ test \in Tests \union {"none"} /\ tests \subseteq Tests
  /\ pc \in 0..Len(Script)
  /\ onClassPath \in BOOLEAN /\ isRegistered \in BOOLEAN /\ table \in BOOLEAN
  /\ driverClassLoader \in Nat /\ drivers \subseteq Nat /\ delegations \subseteq Nat \X Nat
  /\ contextLoader \in Nat /\ original \in Nat
  /\ rows \in [Ids -> SUBSET Texts] /\ taken \subseteq Texts
  /\ DOMAIN conn = Conns
  /\ ghosts \subseteq SUBSET Ids
  /\ disturbed \in BOOLEAN /\ lost \in BOOLEAN /\ failed \in BOOLEAN

(* Every assertion of every test holds, in any order of the tests and      *)
(* after any killed run, unless a call of this test class has thrown since *)
(* the table was last emptied: autocommit, rollback, savepoints and        *)
(* isolation are as the tests say, and no test sees rows of another.       *)
IsolationAsTested == failed => disturbed

(* A run that nothing disturbs leaves no table behind, whatever it found:  *)
(* when a killed run left its table the next set-up throws, its tear-down  *)
(* drops the table, and the run after that is sound again.                 *)
Heals == stage = "down" /\ "JdbcTest" \in classes /\ ~lost => ~table

(* The DriverManager has one delegation once the driver is registered and  *)
(* none before, whatever registrations have failed half way and left a     *)
(* driver that registered itself: it is of the very loader that            *)
(* getDriverClassLoader answers, and of a class that the loader of the     *)
(* tests defines when the class path has it.  A thread that a JPATest      *)
(* whose set-up threw has left without a loader is the exception: the      *)
(* driver then comes from the jar.  The thread has the driver's loader     *)
(* exactly while JPATest runs.                                             *)
LoadersMatch ==
  /\ ~isRegistered => delegations = {}
  /\ isRegistered =>
       \E d \in drivers \intersect {1, driverClassLoader} :
         /\ delegations = {<<driverClassLoader, d>>}
         /\ ~lost => (d = 1 <=> onClassPath)
  /\ 1 \in drivers <=> onClassPath
  /\ stage = "ready" /\ class = "JPATest" =>
       isRegistered /\ contextLoader = driverClassLoader
  /\ stage = "jvm" => contextLoader = 1 \/ (contextLoader = 0 /\ lost)

(* Every run of the suite ends, the transactions a killed JVM has left in  *)
(* the database notwithstanding.                                           *)
RunsEnd == stage # "down" ~> stage = "down"

=============================================================================
