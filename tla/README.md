# A formal model of the ts-presentation examples

The repository is a presentation about Java EE transactions with the programs
that illustrate it. This directory holds TLA+ models of those programs, TLC
configurations that check them on small instances, and TLAPS proofs of what
matters most for every instance.

Paths below are shortened: `jta-distributed`, `jboss`, `servlet`,
`standalone` and `utils` are `src/examples/ts-presentation-<name>`.

## 1. Inventory

| Component | State it keeps | Operations | What is hard | What makes it correct |
|---|---|---|---|---|
| Distributed transaction (`jta-distributed`): `ServletClient` → `RemoteEJBClient` → `DBBean`, remote `ServiceEJB` → `TransactionEJB`, `PrintingToConsoleLogMDB` | a root transaction per request, a branch in each of two databases, a message, two rows | `doGet`, `call`, `update`, `exec`, `doTransaction`, `sendMessage`, `onMessage` | two-phase commit over two servers, crashes, timeouts, lost answers, swallowed exceptions, concurrent requests for the same rows | both databases and the message together or not at all; no thread keeps a transaction; row locks are released; every request is answered |
| Beans that commit, roll back or leave a transaction open (`jboss`: `ejb/exception`, `cdi/ExceptionWorker*`, `Stateless/Stateful/SingletonBmtBean`) | the thread's transaction, its timeout, the transaction a stateful bean keeps | 27 business methods | exceptions that mark or do not mark, commits that throw, timeouts set too late, transactions that outlive calls and threads | each method keeps or loses its entity as its test asserts, also with concurrent callers; each live transaction has one owner; ended transactions stay ended |
| Recording of statuses (`jboss`: `ResultsBean`, `ResultsInterceptor`, `TxnDTO`) | three lists and a map in one singleton | `clear`, `addTxnStatus…`, `addStorageValue` | shared by all callers, not written on an exception | after a call made alone it holds what the test asserts |
| Management client (`jboss` tests: `ManagementOperations`, `DatasourceSetupUtil`) | batch flag, collected batch | 40-odd operations on a remote server | operations that fail or whose answer is lost, batches, a server that goes away and may not come back | composites are whole; a batch changes nothing before it runs; batch mode ends; a reported reload has happened; every call ends |
| Setup of the server under test (`jboss` tests: `TestSetUpObserver`) | the server's persistent configuration, the deployed driver | `handleBeforeSetup`, `handleAfterStart` | kills between any two steps, runs repeated on what an earlier one left | a setup that returns has everything configured and in effect, and can be repeated |
| Session store and web servlets (`jboss`: `web/*`) | one payload and an instance counter; the transaction of a request | `doGet` of eight servlets | a shared proxy with a check-then-act on it | not modelled: nothing says what concurrent first requests should print |
| Enlistment (`servlet`: `MyBean`, `JMSUtil`, `DatabaseUtil`; `jboss`: `BeanToCheck*`, `JdbcBean`) | the resources of one transaction | inserts and sends over six kinds of resources | a second one-phase resource; failures swallowed on one side only | what is enlisted takes effect or rolls back with the transaction, the rest stays; an answer says what became of it |
| Transaction attributes and nested calls (`TransactionAttribute*`, `Asynchronous*`, `failconnection/*`, synchronization beans) | the transaction of each call on a stack | nested, asynchronous and callback calls | attributes lost by overriding, marks seen by the caller, callbacks after completion | each test ends as annotated, after any other test; identifiers and callbacks agree with what the caller hears; a transaction stays on its thread and ends |
| Standalone JMS (`standalone`: `JMSTest`; `utils`: `JmsProvider`) | a connection, its sessions, the buffers of their consumers | eight tests with a draining set-up | consumers nobody closes, redelivery, messages of killed runs that come back late | the assertions hold; a test leaves none of its messages; it ends |
| Standalone JDBC and its driver (`standalone`: `JdbcTest`; `utils`: `JdbcDriver`, `JdbcUtil`) | connections and their transactions, one table, a flag and a class loader | fifteen tests, `registerDriver` | a table and locks left by a killed run, a thread with two connections, a registration that fails halfway | the assertions hold; leftovers are gone after one run; one delegation of the driver is registered, of the loader that is handed out; runs end |
| Standalone JPA (`standalone`: `JPATest`) | persistence contexts; the thread's context class loader | the steps of `JPATest` | detached entities; a set-up that throws | its set-up and tear-down only: the loader is given back |
| Properties, files, dummy and example beans, slides | – | – | – | not modelled: reading of configuration, placeholders, no program |

`PROJECT.json` lists the components with their files and the hazards at their
lines.

How the components meet: `RemoteEJBClient` calls `DBBean` locally in the
transaction it began and `ServiceEJB` over EJB remoting, which carries the
transaction to the other server; the MDB consumes what `TransactionEJB` sent
when that transaction commits. The managed beans share the singleton
`ResultsBean` through their interceptor, and a stateful instance hands its
transaction from one calling thread to the next. The setup observer drives the
management client, which drives the server over the network; the server's
deployment scanner reads the file the observer copies. The beans of `ContainerCalls` call
each other through the container and report through `ResultsBean` to the test
that called them. The two standalone test classes on JDBC share one JVM's
`JdbcDriver`, and successive JVMs share the database.

## 2. Modules

| Module | Models |
|---|---|
| `AtomicCommit` | abstract: what a caller of the distributed transaction is promised |
| `DistributedTx` | the distributed transaction; implements `AtomicCommit` |
| `DistributedTxProofs` | TLAPS proofs about `DistributedTx` |
| `ManagedBeans` | the beans and the recording of their statuses |
| `ManagedBeansProofs` | TLAPS proofs about `ManagedBeans`: types, who owns a transaction, what has ended, and what each method comes to, as its test asserts |
| `ManagementOperations` | the management client and the server it talks to |
| `ManagementOperationsProofs` | TLAPS proofs about `ManagementOperations` |
| `ServerSetup` | the setup observer; extends `ManagementOperations`, whose actions are its steps |
| `ServerSetupProofs` | TLAPS proofs about `ServerSetup`, with the lemmas of `ManagementOperationsProofs` |
| `Enlistment` | resources of every kind in one bean's transaction |
| `EnlistmentProofs` | TLAPS proofs about `Enlistment` |
| `ContainerCalls` | transaction attributes, nested and asynchronous calls, completion callbacks, and the tests that make them |
| `ContainerCallsProofs` | TLAPS proofs about `ContainerCalls` |
| `JmsSession` | the standalone JMS tests over a broker |
| `JmsSessionProofs` | TLAPS proofs about `JmsSession` |
| `JdbcSession` | the standalone JDBC tests, the driver they register, and the class set-up of `JPATest` |
| `JdbcSessionProofs` | TLAPS proofs about `JdbcSession` |
| `MC…` | symmetry sets and the values of sequence-valued constants for TLC |

Definitions that carry "Mutant:" in their comment are plausible bugs of the
definition that follows them. No specification uses them; they are there to
show that each property can fail. Each module states the types of its
variables as `TypeOK`; those of `DistributedTx`, `ManagedBeans`, `Enlistment`
and `ContainerCalls` are proved, and the first is also checked by a run.

### AtomicCommit and DistributedTx

`AtomicCommit` has, for each transaction, a decision made once and the set of
sites where it has taken effect, which grows only after a decision to commit.

In `DistributedTx` a request is one HTTP call and its thread. `pc` is the
statement it is at: `DoGet` (`ServletClient.doGet`), `Lookup` (outside the
`try`, may leave `call` with no transaction), `Begin`, `Update` / `UpdateFails`
(`DBBean`), `Exec` / `ExecFails` / `Reply` (the remote call, which can fail on
the way there or back), `Commit` and its completion, `Catch` (prints and
swallows), `Return` (the container's part for a stateless bean with
bean-managed transactions: a transaction left on the thread is rolled back).
On the remote server `Find` and `SendMessage` are the two halves of
`doTransaction`, `DoTransactionThrows` its failures, `OnMessage` the MDB.
`tx` is the root transaction, `cb` and `sb` its two branches, `msg` the message,
`seen` the value `em.find` returned. Row locks are derived: a branch that has
written a row and has not ended holds it.

External, from how the code uses them: the two transaction managers (prepare,
the commit record, recovery, the reaper), PostgreSQL's row locks under READ
COMMITTED, the broker. A crash loses every branch that is not prepared and
every root transaction without its commit record.

What the model made plain:

* Locks are always taken in the order client row, then remote row, so two
  servers and two databases do not deadlock (`Answered`).
* `TransactionEJB.java:38` is a read-modify-write without lock or version:
  concurrent requests lose increments of the remote row, while `DBBean`, which
  adds in the database, loses none (`ClientRowExact`). A request is not only
  overlapped by another thread: one that is in doubt after a crash overlaps
  every later one until it is recovered. `LostOnlyToRace` and
  `ServerRowBounds` say exactly how much can be lost.
* The comment "There's no active transaction at this point!" in the handler of
  `call` is true only when `ut.commit()` threw: after a failure of `update` or
  `exec` the thread still has its transaction. No harm follows because the
  container cleans up on return (`ThreadsClean`).
* Whether a failed send is swallowed depends on how it failed: the handler
  itself dereferences a cause and a suppressed exception that may not exist,
  and then the transaction is marked. Both are modelled; `MessageWithEntity`
  says what is left: a committed entity may lack its message, a message is
  never without its entity.
* `DBBean` never closes its connection. Connections are not modelled: whether
  the server reclaims them is configured outside this repository.

### ManagedBeans

A method is the sequence of its operations (`Begin`, `Persist`, `Caught(e)`, …)
as the bean's source has them; a caller's call walks through it, one action per
kind of operation. `Invoke` is the way in (the wait for a stateful or singleton
instance, the container's transaction or the stateful bean's own, then the
interceptor's first entry), `InterceptorExit` the entry after `proceed()`,
`Complete` the container's way out (commit, rollback, or keeping the stateful
bean's transaction). Call number k begins at most one transaction, named k.
`Timeout` is the reaper: a one-second timeout may strike anywhere, the default
one only while no thread works in the transaction. `SetUp` is the tests' own
`setUp`.

Abstractions: an entity is the transaction it was persisted in; entity ids are
call numbers; logging is left out; a stateful and a singleton instance are one
each, as the tests inject them.

`alone` is a history variable: since `results.clear()` nobody else has called.
It is needed because `ResultsBean` is one for all callers: with two of them at
the same time its lists mix, and the code promises nothing then.

### ManagementOperations and ServerSetup

A public method of `ManagementOperations` is a program of instructions
(`execute`, `isDefined`, `startBatch`, `reinitialize`, `wait`, …), and there is
one action per instruction, so that an exception ends the call where the code
would throw. `executeOperation` is two actions: `AddToBatch` in batch mode
(queues and answers with a made-up success) and `ExecuteOperation` (applied;
refused; unreachable; applied with its answer lost). `ExecuteServerReinitialization`
and `Poll` are the two halves of a reload. The server, external, has a
persistent configuration `config`, the part `booted` in effect since the last
boot, and a lifecycle; it may take for ever to come back.

`ServerSetup` adds the run of the test suite: `HandleBeforeSetup` and
`FinishCopy` (a copy creates the file first and writes it then),
`StartContainer`, `HandleAfterStart` as a program over the same instructions,
with the `wasChangeDone` flag, and `Kill` at any step. `arquillian.xml` allows
a server that is already running; then the driver may not have been scanned
yet (`unscanned`).

Abstractions: values of attributes, address parsing, lists of properties,
enable/disable, system properties and security domains are left out, and with
them the errors of an argument or an address between `startBatch` and `runBatch`
of `addXADataSource`, which would leave the client in batch mode
(`ManagementOperations.java:570`). The two seconds before a
poll are taken to be enough for the server to leave its running state. A server
that is still stopping is not started.

### Enlistment

A request is one call of `MyBean.call`, of a method of `BeanToCheckEnlistment`
or of a bean of the branch qualifier test. `Script` is what each method does,
statement by statement; `Work`, `FailSwallowed` and `FailThrown` are the three
ways a statement can go: `JMSUtil.sendMessage` and both `createTable` swallow
every exception, the inserts and the sends of `BeanToCheckEnlistment` rethrow
and so mark their transaction. `AtOnce` says which work is in no transaction
(`java:/ConnectionFactory`, the non-jta datasource, everything in a
`NOT_SUPPORTED` method). `runInsertionWithCreation` calls `createTable` through
`thisBean`, so that it runs in a transaction of its own (level "inner") while
the caller's is suspended. `End` includes `setRollbackOnly` of `MyBean.call`.

External: the completion. XA resources prepare, a last resource commits when
all others have voted, a single branch is committed in one phase, the log
record is the decision (`Decide`). Phase two follows, by the thread of the call
(`CommitBranch`, `CommitRefused`), which then answers (`Answer`): what got no
answer is left to recovery, which finishes or rolls back what is prepared; the
reaper rolls back an unfinished transaction. PostgreSQL refuses an insert into
a table that is not there, lets a second `CREATE TABLE` of the same name wait
for the first, and gives up a branch after a failed statement ("broken"): a
COMMIT rolls it back and is no error for the driver, and so does a PREPARE
("void"). The manager does not know of either. It has logged a decision to
commit when COMMIT PREPARED is refused for a branch that is not there
("missing"), goes on with the others, and raises a heuristic exception.

What the model made plain:

* `MyBean.call` mixes two one-phase resources with two-phase ones, and
  `standalone-full.xml:38` allows it. Without the `setRollbackOnly` in its last
  line a crash, or the failure of the second of them, leaves the first
  committed and the rest rolled back (the mutant of `EnlistedTogether`).
* The answer of a method with two branches or more is reliable in both
  directions (`AnswersReliable`), but for the `createTable` of the next point;
  with a single branch an exception from its one-phase commit leaves the
  outcome open.
* When the table exists, the failure `createTable` swallows still costs it its
  branch: in a transaction with its caller no insert could follow
  (`InsertsMeetNoBrokenBranch`). With two databases it is worse. The table is in
  one of them, the other creates it, both answer the prepare, and phase two
  commits one and finds the other gone: one database has the table that was to
  be created in both or in none. This is the one case in which two resources of
  a transaction end differently (`EnlistedTogether` names it and asks that nobody
  around such a split gets a normal answer). The caller learns of it by the
  heuristic exception at the end of the transaction, past every `catch` of the
  method; so `runInsertionWithCreation` inserts nothing although both tables are
  there then. Its comment, at line 46, says that it "somelike does not work".

Abstractions: values and row counts are left out, two inserts through one
branch are one; a refused second last resource is one of the failures of a
statement; the tables of `MyBean` and `BeanToCheckEnlistment` exist.

### ContainerCalls

A thread is its stack of calls; a frame has a method, a position in its body
and the transaction its caller had put aside (`outer`). `Methods` maps each
bean's method to its attribute and the operations of its body, and each test
method to a body of attribute `TEST`; the beans are records named after their
classes. `Enter…` is what the container (or the CDI interceptor) makes of the
attribute: a new transaction, the caller's, none, or a refusal; `Leave…` is
what it makes of the method's end; `BeforeCompletion`, `Complete` and
`AfterCompletion` are three steps of the thread that commits, with the
callbacks of `BeanSynchronization`, its registry twin and the session bean in
the first and the last. `StartJob` is a thread of the pool that takes up an
asynchronous call. `StartTest` is the `setUp` of the test's class, with the
rollback of what an earlier test has left on that thread, which
`TransactionSynchronizationTest` does not make.

Faults: no instance of a bean can be had, a connection fails, a commit fails.
A failed commit is a rollback; with an entity it may also be that the one-phase
commit of the datasource, the only resource, got through and its answer did not:
the manager then reports a rollback, and the database has the entity (status
"kept"). `disturbed` is a history variable: a fault has hit this test, or
its `setUp` has kept a transaction an earlier one had left.

What the model made plain:

* `TransactionSynchronizationTest.setUp` only clears the results. When an
  earlier test on that thread failed between `begin` and `commit`, both of its
  tests join that transaction, nothing completes, and they fail for it. The
  other classes roll back what they find (`TestsPass`).
* `CallerBean` stores the identifier before its transaction commits. A caller
  that gets no exception can rely on it. One that gets an exception finds no
  identifier, or that of an entity which is not there, unless it was the commit
  that failed: then the entity may be in the database (`ReportsAgree`).
* `callRethrower` fails because the exception of the nested call has marked the
  transaction, `callCatch` because the database has aborted it; only the
  nested transaction of `callRequiresNew` spares the caller. The comment "there
  is no transaction at this time" at `CallerBean.java:38` is not so: there is a
  marked one.

Left out: `notSupported()` and `supports()`, which nobody calls; the
persistence context beyond "an entity is in this transaction".

### JmsSession

A script is the calls of one test, helpers inlined, between `SetUp` (the
draining loop of `setUp`) and `TearDown`. `session` has the test's own session
and the one of `getMessageFromQueue`; a session has what it has sent in a
transaction, what it has received and not acknowledged, and one buffer for each
consumer. `receiveMessage` makes a new consumer each time and closes none, and
the broker pushes its first message to any of them while the connection is
started (`Deliver`); a receive looks at its own consumer only.

Faults: a call throws with or without its effect, a receive gives up although a
message is on its way, the JVM is killed and the broker notices at any later
time (`ReturnOrphaned`), an automatic acknowledgement got through or not.

What the model made plain:

* The consumers nobody closes do no harm within the tests: either the
  connection is closed, or the session is rolled back, before it matters. The
  exception is `transactedWithRollback`: its own message + "2" is committed and
  goes to its last assertion, which fails, or into the buffer of its first
  consumer, and then stays on the broker (run `jms_left`).
* `howTo` overwrites the connection `setUp` has made and never closes it. It
  has no session and no consumer, so nothing depends on it; no property is
  about it.
* One drain in `setUp` suffices for whatever earlier tests and runs have left,
  unless the broker gives back the messages of a killed run later than that.

### JdbcSession

A JVM runs `JdbcTest` and `JPATest` in any order: `stage` is where JUnit is
(class set-up, a test, its clean-up, class tear-down), `StageAfterThrow` where
it goes when a call throws. A test's script is its calls and assertions. A
connection has its mode, its isolation level, the snapshot its transaction
began with and the list of its writes; a savepoint is a length of that list.
`rows` is what is committed. A call that needs a lock held by another
connection of the test (`OwnBlockers`) or by a transaction of a killed JVM that
the database still keeps (`GhostBlockers`) waits.

Class loaders are numbers: 1 is that of the tests, 0 is null, the others are
made by `FileLoader.loadJar`, each with the thread's context loader as parent.
`drivers` has the drivers that have registered themselves in their static
initializer, which `Class.forName` runs once for each class, by the loader that
defines the class; `delegations` the `DriverDelegation` of each registration.
`RegisterDriverHalf` is a registration that fails: the jar is loaded, the flag
is not set, and the driver has registered itself or has not. Which loader
defines the class depends on `onClassPath`, chosen at the start:
`standalone/pom.xml:48` puts PostgreSQL's driver on the class path of the tests,
where the parent of the new loader and the `DriverManager` itself find it; a
driver of the other databases in `resource.properties` is in the jar only. A connection can be had once a
delegation is registered or the class path has the driver (`Connects`). Of
`JPATest` the model has the class set-up and tear-down.

What the model made plain:

* A run that was killed leaves its table; the next `CREATE TABLE` fails, and
  because JUnit runs `@AfterClass` all the same, that failed run drops the
  table: the suite fails once and heals (`Heals`).
* When the set-up of `JPATest` throws before it has saved the thread's class
  loader, its tear-down sets a null one for the classes that follow. The driver
  they register has no parent to ask and comes from the jar, beside the one of
  the class path (`LoadersMatch` names the case).
* The comment at `JPATest.java:48` that the driver is "not on application
  classpath" does not hold for PostgreSQL: the loader that is handed out finds
  the class of the class path.
* A registration that failed halfway leaves a driver the tests cannot use, since
  its class is of a loader they do not see. When the class path does not have
  the driver, the tear-down of such a class gets no connection either, and a
  table of a killed run stays (`TableRefused`).
* The two isolation tests update a row on a second connection of the same
  thread. They end because the first connection has only read; one write
  earlier and the thread would wait for itself (the mutant of `RunsEnd`).

Left out: the ignored tests, which no suite runs.

## 3. Runs

| Run | Instance | Asks |
|---|---|---|
| `dist` | 2 requests, 1 id, 2 crashes, 1 delivery | all safety properties of the distributed transaction, its liveness, and `PromiseKept`: it implements `AtomicCommit!FairSpec` |
| `beans` | 2 callers, 2 calls, 2 records | outcomes, owners, commits across calls, recorded results; every transaction ends, once |
| `mgmt` | 1 name (DB2), 1 queue, 1 logger, 2 properties, 4 calls, 1 fault, 2 polls | composites, batches, and calls that did what they report |
| `mgmt_driver` | 2 calls, no fault | expected violation: `addJdbcDriver()` in batch mode |
| `setup` | 4 datasources, 2 properties, 5 runs, 4 faults | repeated setups with kills |
| `setup_driver` | 2 runs, 1 fault | expected violation: the interrupted copy of the driver |
| `enlist` | 2 requests, all ten methods, 1 crash, 2 deliveries | safety of enlistment, with a crash, timeouts and failures anywhere |
| `enlist_live` | 2 requests that create tables or send, 1 crash, 2 deliveries | nothing stays in doubt, calls end, messages are handled |
| `jms` | 3 tests, 1 fault, 1 kill | nothing is left, assertions hold, tests end |
| `jms_left` | 1 test, no fault | expected violation: the comment at `JMSTest.java:218` |
| `jdbc` | 3 JVMs, 2 tests each, 2 faults, 1 kill, the driver on the class path or in the jar only | assertions, leftovers, the driver and its loader, runs end |
| `calls` | 2 tests, 2 threads, 2 pool threads, 2 faults | tests as annotated, reports, confinement, transactions end |

The properties each run checks:

* `dist`: `TypeOK`, `Atomic`, `ClientRowExact`, `ServerRowBounds`, `LostOnlyToRace`, `MessageWithEntity`, `ThreadsClean`, `Answered`, `PromiseKept`.
* `beans`: `OutcomeAsTested`, `OneOwner`, `CommitsAcrossCalls`, `ResultsAsTested`, `EndedForGood`, `TransactionsEnd`.
* `mgmt`: `XaComplete`, `EndsAsReported`, `BatchIsolated`.
* `mgmt_driver`: `DriverAdded`.
* `setup`: `SetupDone`, `NoSpuriousFailure`, `SetupEnds`.
* `setup_driver`: `DriverDeployed`.
* `enlist`: `EnlistedTogether`, `CallLeavesOnlyOutside`, `AnswersReliable`, `InsertsMeetNoBrokenBranch`, `MessageFollowsTx`.
* `enlist_live`: `NothingStaysInDoubt`, `EveryCallEnds`, `MessageHandled`.
* `jms`: `LeavesNothing`, `AssertionsHold`, `TestsEnd`.
* `jms_left`: `NotDelivered`.
* `jdbc`: `IsolationAsTested`, `Heals`, `LoadersMatch`, `RunsEnd`.
* `calls`: `TestsPass`, `ReportsAgree`, `Confined`, `TransactionsEnd`.

Four properties are conjunctions of what one caller wants to rely on:
`EndsAsReported` of `BatchClosed`, `RebootedWithoutFaults` and
`ValidationEffective`; `SetupDone` of `SetupComplete` and
`EffectiveWithoutFaults`; `AnswersReliable` of `OkMeansDone` and
`ErrorMeansNothing`; and `ReportsAgree` of `EntityAsReported` and
`CallbacksAgree`. The parts are named definitions of their own.

Why the bounds are enough. `dist`: every property relates one request to
itself or two requests over one row; two requests for the same row are the
worst case for locks and increments, and two crashes let the second server (or
the same one) go down before the recovery of the first. That ids differ, and
that there may be more requests and crashes, is covered by the proofs for the
safety properties. Redelivery (`MaxDelivery`) touches nothing but `attempts`.
`beans`: two calls are a begin and a commit, or a begin and what gets in between,
on one thread or two; each method occurs in both positions. `MaxRecorded` lets a
call begin only while `ResultsBean` holds at most that many entries: any idle
caller may clear it first, and nothing but the properties reads it, so that no
interleaving of the transactions is lost. `mgmt`: four calls are
`startBatch`, two operations and `runBatch`, or a change, a failure, its repair
and a reload. A name on DB2 has the longest program; the wait stands for 22
polls with 2. `setup`: five runs with four faults are more than any property
needs (a kill, a repair, a kill in the repair, a second repair).

`jms`: a test meets what the two before it have left, one of them killed; three
tests that ran well leave the queue as one does. `jdbc`: a killed run, the run
that finds its table, and one after; two tests of a class show what the first
leaves the second. `calls`: a test meets what the one before has left, on the
same thread or another, and each job it started; with two faults one can spoil
the first test and one the second.

Deadlock is checked in `dist` and `beans`; a `Settled` state of
`DistributedTx` stutters explicitly (`Idle`), anything else that stops is an
error. The management client stops when nobody calls, so the `mgmt` and `setup`
configurations say `CHECK_DEADLOCK FALSE`; so do those of `enlist`, where every
request is made once and the system rests when all have ended, and those of
`jms`, `jdbc` and `calls`, where the last test ends.
`enlist`: requests meet only in the two databases, where a second one is enough
to wait or to be refused, and one crash separates any two steps; a second crash
would find only branches that already wait for recovery.

The properties, in words, stand above each definition. Those of the code's own
promises that it does not keep in every case are stated with what they do
depend on: `RebootedWithoutFaults`, `ValidationEffective` and
`EffectiveWithoutFaults` hold for executions without faults only. With one
lost operation a reload can be reported that never was sent
(`ManagementOperations.java:716`), and after a kill between a datasource and
the reload, no later run reloads, because it finds the datasource defined and
changes nothing. `NoSpuriousFailure` names the two ways a setup fails without a
fault: the server is slower than the wait, or it was already running and had
not scanned the driver.

### Fairness

* `DistributedTx!Fairness`: weak fairness of each thread, of both managers'
  completion and recovery, and of the restart of a crashed server. Waiting for
  a row lock is not counted as a failure of the statement. Nothing is assumed
  of requests, timeouts, crashes, or of a commit that fails without a reason.
* `ManagedBeans!Fairness`: a called method runs on, and the reaper takes a
  transaction that has outlived its timeout (`TransactionsEnd` needs it: the
  transaction a removed stateful bean leaves behind has nobody else).
* `Enlistment!FairSpec`: threads run on, each transaction's second phase and
  recovery are carried out, the broker delivers, a crashed server is started
  again. A statement that waits for a table is not counted as failed.
* `ServerSetup!SetupFairSpec`: the observer's thread runs on, and
  Arquillian starts the container or gives up. The server may never boot again.
* `JmsSession!FairSpec`: the thread of the tests runs on, and the broker hands
  out what it can. When it notices a dead connection is left open, and a receive
  may wait for as long as its message is elsewhere.
* `JdbcSession!FairSpec`: a started JVM runs on, and the database notices in the
  end that a killed one is gone; a thread that waits for a lock does not fail.
* `ContainerCalls!FairSpec`: each thread runs on, and the pool takes up what
  waits.

## 4. Proofs

Each `…Proofs` module extends the module it is about and assumes nothing but
the named assumption of that module. The theorems hold for any number of
requests, callers, threads, calls, crashes and faults.

In the larger modules an invariant is not carried through each action by
itself. An action is first shown to be of one of a few *kinds* of step, each a
predicate that says what becomes of the variables the invariant speaks of; the
invariant is then preserved by each kind. So a new operation costs one lemma
about its kind, and the kinds say in a page what the program can do.

### DistributedTxProofs

From `DistAssumption`: finitely many requests, `NoId` is no id, bounds are
naturals.

* `TypeCorrect`: `Spec => []TypeOK`, one step per group of actions.
* `AtomicityHolds` and `ThreadsCleanHolds`. `Atomic` is not inductive: a state
  with one branch committed and the other still active satisfies it and has a
  bad successor. `TxInv` strengthens it: `ThreadInv` ties the thread's
  position, its association and the status of its transaction together;
  `BranchInv` says what the root transaction's status allows in each branch
  (a branch is committed only under a logged commit, which needs both
  prepared; neither branch of a logged commit is anything but prepared or
  committed). `TxInvInductive` has one step per action.
* `MessageWithEntityHolds` from `MsgInv`, relative to `TxInv`: the message
  leaves "pending" exactly with the end of the branch that holds it.
* `ClientRowExactHolds`: the row's value equals one plus the cardinality of the
  committed requests for it. Only `CommitClient` changes either side
  (`CommittedStable`), and it adds one to both (`FS_AddElement`).
* `ServerRowBoundsHolds` from `ReadInv`: what an uncommitted request has read
  is no more than what has been committed, so that its write cannot exceed it.
* `LostOnlyToRaceHolds` from `RaceInv`: the values that n committed requests
  have read are among 1..n. While no two of them have read the same, they have
  read all of 1..n (`ReadValuesBound`), so the next one that reads another
  value reads n + 1 and writes n + 2, and the row has lost nothing.
* `Implements`: `Spec => Promise!Spec`, the safety part of the refinement that
  the run `dist` checks with its liveness. `CrashClient` maps to `DecideAbort`
  of the set of undecided requests, every other step to one decision, one
  application or a stutter.

### ManagedBeansProofs

From `BeansAssumption`: `MaxCalls` and `MaxRecorded` are naturals.

* `BeansInvariant`: `Spec => []BeansInv`, with `TypeCorrect` as a corollary.
* `OneOwnerHolds`. That a live transaction is on one thread, or kept by the
  stateful bean, is not inductive: with two threads in the bean both could leave a
  transaction in it, and one of them would be lost. `OwnerInv` adds that one
  thread at most is in the stateful bean and that the bean then keeps nothing
  itself (`HeldInv`), that a thread's transaction is its own call's or the
  stateful bean's (`ThreadInv`), that a live transaction on no thread is kept,
  or was until the bean was removed (`LostInv`), and that a call which has its
  `begin` still before it has no transaction (`BeginInv`), which is where the
  text of the methods enters (`BodyShape`: one `begin` at most each, none where
  the container begins).
* `EndedForGoodHolds`, an action property: each kind of step leaves an ended
  transaction ended in the same way.

* `CourseInvariant`: `Spec => [](BeansInv /\ CourseInv)`. The tests assert what a call has
  left behind, which is nothing an operation could preserve. `CourseInv` says of
  each operation of each method which transaction the thread has, its status,
  its timeouts and whether the entity is stored, as a function of what the
  method's own text has before that operation (`Did`, `Began`, `Marked`), and
  of an ended call what the whole of its text accounts for (`Past`). Two methods
  differ: `setTimeoutCorrect`, whose transaction the reaper may end under it,
  has a course of its own (`LateCourse`), and those of the stateful bean are
  left to `SpanInv`.
* `OutcomeAsTestedHolds`: read off from `Past` for each method (`ExitVerdicts`
  for methods that run to their end, `AbruptVerdicts` for those an exception
  leaves).
* `ResultsAsTestedHolds` from `RecordInv`: while one call is alone, each list of
  `ResultsBean` holds what the operations passed so far have recorded.
* `CommitsAcrossCallsHolds` compares two numbers: entities committed and calls
  of the closing method that returned. `SpanInvariant` says where the stateful
  bean's transaction is: one that is kept, or on the thread of another call than
  began it, comes from an opening call that has stored its entity. So
  each commit by a closing call adds one transaction to the first set and one
  call to the second, and no other step changes either (`OneForOne`).

A `CASE` whose guards overlap has no definite value for the prover, whatever
order TLC tries them in; `ExitStatus`, which had one, is a chain of conditions
since this proof asked which.

### ManagementOperationsProofs

From `ManagementAssumption`.

* `BatchIsolatedHolds`, an action property, by cases of `Next`: while a batch
  is collected no step of the client changes the server.
* `ClientInvariant` and `EndsAsReportedHolds`. The properties speak of a call
  that has ended; the invariant speaks of what the rest of its program still
  has to do. `BatchInv`: each `startBatch` of a program is followed by
  operations only, up to the `runBatch` or `cancelBatch` that closes it, and a
  batch being collected is closed by the rest, unless the caller had opened
  it. `RebootInv`: once a program that reboots the server has sent its
  operation, the server is not up or has booted since. `ValidationInv`: each
  validation attribute of a datasource that is defined is in effect, or
  configured with a reload to come, or still to be written. `ProgramFacts`
  shows that every method's program, whatever its arguments, starts with the
  shape the invariant asks for.
* `XaCompleteHolds` from `XaInv`. That the configured XA datasources are complete
  says nothing of one still on its way, in the rest of a program or in a batch.
  `XaInv` adds that each one made there has its properties right after it
  (`Whole`; while a batch is collected, in the batch and the rest of the program
  put together), and that a program makes one only in a batch (`Covered`). What
  a composite leaves is an induction over its steps (`CompositeComplete`):
  `Promised` says after each which properties are there and which the steps to
  come still add. The induction goes by the least number of a set
  (`LeastOf`, `AllNumbers`), which needs no theorem with an operator parameter;
  `Composite` is a recursive function for it.

### ServerSetupProofs

From `SetupAssumption` (the lists name datasources; the properties are all
different, being the keys of a `java.util.Properties`) and
`ManagementAssumption`.

* `SetupInvariant`: `SetupSpec => []SetupInv`, for lists of datasources and
  properties of any length. The program of `handleAfterStart` is as long as
  these lists, so the invariant names the place it is at: `Here(q, k)` says that
  what is left of it is what `Left(q, k)` is, from the k-th instruction of the
  answer to the q-th question on. `Have` says that all the questions passed
  have what they ask for defined; `Sane`, without a fault, that what is about
  to be defined is not there yet and that what has been defined is in effect or
  will be noted for the reload. `Steady` holds between runs as well: the XA
  datasources configured are whole, whatever has been killed where, and the
  copied jar is whole. `AnswerCases` and `LeftFacts` take the program apart
  into instructions, and there is one lemma per kind of instruction (`AddStep`,
  `CollectStep`, `RunStep`, `QuestionStep`, ...) that takes the invariant from
  one place to the next, to the reload or to a failure.
* `SetupDoneHolds`. That everything is defined when the setup returns does not
  follow from the last step: what an earlier run left there was taken for
  granted, and a question that failed was taken for a no. `XaComposite` shows by
  induction over the steps of a composite that it defines the datasource with
  all of its properties, and that the server can refuse it for want of the
  driver only: this is where two equal properties would make a difference.
* `NoSpuriousFailureHolds`: `TooSlow` and `Refused` in the invariant are the two
  reasons, and each step that throws is shown to have one of them or a fault.

### EnlistmentProofs

From `EnlistmentAssumption`.

* `EnlistInvariant`: `Spec => [](TypeOK /\ EnlistInv)`, and `TypeCorrect`.
  `EnlistInv` has three parts per request. `TxInv`: what a branch can be in
  each state of its transaction (`Legal`), that only the thread in its method
  has an undecided one, and that only resources of the method's script are
  enlisted. `ThreadInv`: only `runInsertionWithCreation` has an inner
  transaction, for its first two statements. `DoneInv`: what the statements
  already passed have left behind, and what the reply says about the
  transaction.
* `EnlistedTogetherHolds`, `CallLeavesOnlyOutsideHolds`, `AnswersReliableHolds`
  and `InsertsMeetNoBrokenBranchHolds` follow from it in each state.
  `EnlistedTogether` alone is not inductive: it does not know that a method
  with two one-phase resources can only roll back, nor which branches a commit
  will find missing. `SplitInv` adds that a branch is prepared, or
  found void, only where there are two or more; that a commit with a branch
  rolled back in one phase has no other; and that one with a void or missing
  branch has been answered with an exception, or its call is still completing or
  lost with the server.
* `MessageFollowsTxHolds`: a message is handed to the message-driven bean only
  after its transaction has committed, and the decision stays (`FinalStays`).

### ContainerCallsProofs

From `CallsAssumption`: pool threads and test threads differ, "none" is no
test thread, bounds are naturals, `AbortsOnError` is a Boolean.

* `CallsInvariant`: `Spec => [](Typed /\ CallsInv)`, and `TypeCorrect`.
* `ConfinedHolds`. `Confined` says that no transaction is on two threads and
  that none is used once ended. A suspended transaction is on no thread until
  the call that put it aside returns, so the invariant is about every frame of
  every stack (`CallInv`): what a frame has put aside is alive, and a frame that
  can end its transaction has put aside another one. `Apart` says that the
  transactions in use by two threads, put aside or not, are different. The
  stack is handled in six ways (go on, end, begin or drop a transaction, call,
  return, start); `MethodFacts` is all that proof knows of the methods' text.
* `ReportInvariant` (`Spec => []ReportInv`) and `ReportsAgreeHolds`. What a test
  finds in the results says nothing of how it came there, so the invariant is
  about the course of the calls. `TextInv`: each frame of a stack stands at the
  operation that calls the next one, and has a transaction where its text says
  so. `HeardInv`: the callbacks before a completion are followed by those after
  it, unless the thread is between the two (`Completing`). `RunInv` is about the
  thread of the test: within a call that registers a listener, a commit is heard
  only when nothing is left that throws (`ListenerInv`); within `CallerBean`, the
  identifier is stored only for the entity of the bean's own transaction, and
  what is raised after that transaction ends follows how it ended, where a
  transaction that is "kept" has ended by a fault only
  (`CallerCourse`, `TestCourse`). What other threads do is excluded by
  `Confined`: they use other transactions. Of the asynchronous calls only
  `beingCalled` is made, which has no listener; that is why one that outlives
  its test does not disturb the results of the next. TLC has checked `ReportInv`
  as an invariant of the instance of the run `calls`.

### JdbcSessionProofs

From no assumption: the theorems hold for any number of JVMs, tests, faults and
kills, wherever the driver comes from.

* `SessionInvariant`: `Spec => []SessionInv`. `LoaderInv` says which class
  loader the thread has in each stage of the two classes, and that a class whose
  set-up got past the registration has the driver; `DriverInv` which delegation
  and which drivers the `DriverManager` has, in terms of the flag and the last
  loader (`DriversRegistered`, `DriversHalf`); `TableInv` that the table is gone once `JdbcTest` is over, unless a call has
  thrown in this JVM.
* `LoadersMatchHolds` and `HealsHolds` follow from it.
* `TestInvariant`: `Spec => []TestInv`. `IsolationAsTested` speaks of a test that
  has failed, not of what makes it fail. `TestInv` adds that between the tests
  of a class nothing has disturbed the table is empty, and that from where a
  running test is no later assertion of it fails (`Clear`): there is a course of
  databases, one for each call left, in which each call has its effect and each
  assertion holds. It is inductive with `SessionInv`, which says what script is
  running. That a course is followed is one lemma (`ClearStep`); that the
  database does what it says is another (`ServedEffect`), in which each of
  the calls of a test is read as a function `Effect` of the committed rows, the
  connections and the kept text.
* `BodiesSound`: each of the fifteen scripts passes from an empty table, with
  whatever connections and kept text earlier tests have left. A rule for each
  kind of call says what it makes of a connection that commits each statement
  (`Free`), is to begin a transaction (`Idle`) or is in one (`Busy`, with its
  snapshot, writes and savepoints): `InsertRules`, `UpdateRules`,
  `SavepointSteps`, `ReadRules`, `NewSelects`, `CommitRule`, `LinkRules`. The
  rules are put together along the script (`PassesBoth`), one lemma per test.
* `IsolationAsTestedHolds` is read off from `TestInv`. TLC has checked `TestInv` on
  the instance of the run `jdbc`, with `Clear` computed call by call.

What the fold of the writes of a transaction yields is proved for up to three of
them (`FoldWrites`), the most a test makes.

### JmsSessionProofs

From no assumption: the theorems hold for any number of tests, faults and kills.

* `JmsInvariant`: `Spec => [](Typed /\ JmsInv)`. `LeavesNothing` speaks of a test
  that is over and `AssertionsHold` of one that has failed; neither says where a
  message is meanwhile, and a message can be in many places: sent in a
  transaction and not committed, in the queue, in the buffer of one of several
  consumers that nobody closes, or received and not acknowledged. `SetUpInv`
  says of each call of `setUp` that a null received means an empty queue, so
  that its loop ends with one. `CourseInv` then says in which *phase* the test
  is: the mode of its session and of its helper's, which of the test's two
  messages each has sent or taken, how many consumers each has, which message is
  on its way, and which was received last. Where a message on its way is, in the
  queue or already in a buffer, the phase leaves open (`OnItsWay`): so a
  delivery, which may come at any moment, changes no phase (`PhaseDelivered`).
  That holds only while one consumer can have the message (`Sole`), which each
  test observes, though it creates a consumer for every receive.
* `CoursesExist`: each script has a course, a sequence of phases from a broker
  without its messages to one without (`Leads` says what each call makes of a
  phase). It is put together from the courses of the pieces a script is made of
  (`PlaysJoined`, `Receives`, `Asks`, `Commits`, ...). A course that met a phase
  its next call cannot go on from, or an assertion on a message other than the
  one received, would not exist. That of `transactedWithRollback` ends at its
  last commit, before the assertion that fails.
* `PhaseServed`: what the broker does for a call is what `Leads` says, operation
  by operation (`PhaseSending`, `PhaseReceiving`, `PhaseRollingBack`, ...).
* `LeavesNothingHolds` and `AssertionsHoldAlways` are read off from the
  invariant. TLC has checked `JmsInv` on the instance of the run `jms`.

What `FlattenSeq` makes of buffers is shown by the least number for which it
would fail (`Least`, `Flattened`), as `XaCompleteHolds` does for a composite.

### Only model-checked

* Everything temporal under fairness (`Answered`, the liveness of `PromiseKept`,
  `TransactionsEnd`, `SetupEnds`, `NothingStaysInDoubt`, `EveryCallEnds`,
  `MessageHandled`, `TestsEnd`, `RunsEnd`): the prover has neither fairness nor
  `ENABLED`.
* `TestsPass` of `ContainerCalls`, which compares what each of its tests answers
  with what the test expects, frame by frame; the instance of the run has all of
  the tests, and what is beyond its bounds is more repetitions of them.
* `TypeOK` of `ManagementOperations`, `ServerSetup`, `JmsSession` and
  `JdbcSession`, of which the proofs use the parts they need.

## 5. Not modelled

* `jboss/web`: the servlets run one begin, persist and commit per request, which
  `ManagedBeans` has with its failures. `WebServletStatefulBeanByEJB.java:27`
  checks, sets and prints one shared payload in three calls, so that concurrent
  first requests print different payloads; no document or test says what they
  should print, so there is no property to hold it to.
* The JPA beans and `JPATest` beyond its class set-up: each method is a call or
  two of an entity manager. When it flushes, what it detaches and which
  datasource it uses is decided by Hibernate and `persistence.xml`.
* `setJTS` writes two subsystems in two operations (`ManagementOperations.java:143`)
  and promises nothing about the state between them.
* Parsing of connection URLs, properties files and addresses, placeholders, the
  slides. The only JavaScript of the repository, `analytics.js` and
  `mapjs-browserified.js` under `src/slides/misc/ts-ligthting-talk/Transaction
  Manager_files/`, are minified files of other projects that a browser saved
  with a web page; the presentation does not run them.

## 6. Plan

What is left is the proof of `TestsPass` of `ContainerCalls`, test by test.
