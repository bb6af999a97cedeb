--------------------------- MODULE ContainerCalls ---------------------------
(***************************************************************************)
(* Calls between the beans of ts-presentation-jboss and what the           *)
(* transaction attribute of each method makes of the caller's transaction: *)
(* the attribute beans (EJB, its child class, CDI), the beans whose nested *)
(* call loses its connection (CallerBean, TableCreator), the beans that    *)
(* listen to the completion of their transaction, and the asynchronous     *)
(* call.  The test methods that drive them are the outermost calls.        *)
(*                                                                         *)
(* A thread is its stack of calls.  A test runs on any thread of the       *)
(* server and may leave a transaction on it; tests follow each other, and  *)
(* an asynchronous method outlives the test that started it.  The          *)
(* container (Enter, Leave, Return) and the transaction manager are        *)
(* external.                                                               *)
(***************************************************************************)
EXTENDS Naturals, Sequences, SequencesExt

CONSTANTS Threads,       \* threads that serve the tests
          Pool,          \* threads of the asynchronous methods
          AbortsOnError, \* the database refuses a transaction after an error
          MaxTests,      \* bound: tests run
          MaxFaults      \* bound: calls, connections and commits that fail

ASSUME CallsAssumption ==
  /\ Threads \cap Pool = {} /\ "none" \notin Threads
  /\ AbortsOnError \in BOOLEAN
  /\ MaxTests \in Nat /\ MaxFaults \in Nat

VARIABLES
  test,      \* the test that runs or ran last
  thread,    \* its thread, "none" between two tests
  n,         \* tests started
  stack,     \* calls of each thread, the innermost last
  current,   \* transaction of each thread, 0 for none
  raised,    \* exception on its way up the stack of each thread
  outcome,   \* what the test that ran last has thrown
  txs,       \* every transaction begun so far
  jobs,      \* asynchronous calls waiting for a thread of the pool
  results,   \* the singleton ResultsBean
  noted,     \* the TxnDTO the test took of its own transaction
  disturbed, \* a fault has hit the test, or it met a leftover it keeps
  faults

vars == <<test, thread, n, stack, current, raised, outcome, txs, jobs, results,
          noted, disturbed, faults>>

Workers == Threads \union Pool
-----------------------------------------------------------------------------
(* The methods: an attribute and a body.  An operation is <<what, on what, *)
(* whether the method catches the exception of it>>.                       *)

Method(attribute, body) == [attribute |-> attribute, body |-> body]
Do(op) == <<op, "-", FALSE>>
Call(m) == <<"call", m, FALSE>>
CallAndCatch(m) == <<"call", m, TRUE>>
Store(key) == <<"store", key, FALSE>>

TransactionAttributeEjbBean ==
  [required    |-> Method("REQUIRED", <<>>),
   never       |-> Method("NEVER", <<>>),
   mandatory   |-> Method("MANDATORY", <<>>),
   requiresNew |-> Method("REQUIRES_NEW", <<>>)]

TransactionAttributeCdiBean ==
  [cdiRequired    |-> Method("REQUIRED", <<>>),
   cdiNever       |-> Method("NEVER", <<>>),
   cdiMandatory   |-> Method("MANDATORY", <<>>),
   cdiRequiresNew |-> Method("REQUIRES_NEW", <<>>)]

(* Mutant: the overriding method inherits the attribute.                   *)
ChildBeanInherits ==
  [childNever     |-> Method("NEVER", <<>>),
   childMandatory |-> Method("MANDATORY", <<>>)]

(* The overriding never() has the default attribute.                       *)
TransactionAttributeEjbChildBean ==
  [childNever     |-> Method("REQUIRED", <<>>),
   childMandatory |-> Method("MANDATORY", <<>>)]

(* CREATE TABLE fails always: the table is that of the entity.             *)
TableCreator ==
  [createTableWithRethrow |-> Method("REQUIRED", << <<"sql", "-", FALSE>> >>),
   createTableAndCatch    |-> Method("REQUIRED", << <<"sql", "-", TRUE>> >>),
   createTableInNewTxn    |-> Method("REQUIRES_NEW", << <<"sql", "-", TRUE>> >>)]

(* Mutant: the identifier is handed out although persist failed.           *)
CallerBeanCatchesAll ==
  LET PersistAndStore == << <<"persist", "-", TRUE>>, Store("id") >>
  IN [callRethrower   |-> Method("REQUIRED",
                            <<CallAndCatch("createTableWithRethrow")>> \o PersistAndStore),
      callCatch       |-> Method("REQUIRED",
                            <<CallAndCatch("createTableAndCatch")>> \o PersistAndStore),
      callRequiresNew |-> Method("REQUIRED",
                            <<Call("createTableInNewTxn")>> \o PersistAndStore)]

CallerBean ==
  LET PersistAndStore == <<Do("persist"), Store("id")>>
  IN [callRethrower   |-> Method("REQUIRED",
                            <<CallAndCatch("createTableWithRethrow")>> \o PersistAndStore),
      callCatch       |-> Method("REQUIRED",
                            <<CallAndCatch("createTableAndCatch")>> \o PersistAndStore),
      callRequiresNew |-> Method("REQUIRED",
                            <<Call("createTableInNewTxn")>> \o PersistAndStore)]

BeanSynchronization ==
  [synchronize |-> Method("REQUIRED", << <<"register", "listener", FALSE>> >>)]
BeanSynchronizationRegistry ==
  [synchronizeRegistry |-> Method("REQUIRED", << <<"register", "listener", FALSE>> >>)]
StatefulSynchronizationAnnotationsBean ==
  [doWorkSynchro |-> Method("REQUIRED", <<>>), remove |-> Method("REQUIRED", <<>>)]

(* Mutant: the bean does not end the transaction it begins.                *)
StatefulBmtNoCommit ==
  [doWorkBmt |-> Method("BEAN", <<Do("begin")>>), removeBmt |-> Method("BEAN", <<>>)]

StatefulBmtSynchronizationAnnotationsBean ==
  [doWorkBmt |-> Method("BEAN", <<Do("begin"), Do("commit")>>),
   removeBmt |-> Method("BEAN", <<>>)]

AsynchronousCallerBean ==
  [callAsync |-> Method("REQUIRED", << <<"async", "beingCalled", FALSE>>, Do("sleep")>>)]
AsynchronouslyCalledBean ==
  [beingCalled |-> Method("REQUIRED", <<Do("sleep"), Do("sleep"), Do("sleep")>>)]

(* The test methods; TEST is the attribute of code outside the container,   *)
(* CATCH is the attribute of a test that rolls back when it catches.        *)
TestCalls(m) == Method("TEST", <<Call(m), Do("check")>>)
TestStarted(m) ==
  Method("TEST", <<Do("begin"), Call(m), Do("note"), Do("commit"), Do("check")>>)
TestStartedRollback(m) == Method("CATCH", <<Do("begin"), Call(m)>>)

TransactionAttributesEjbTestCase ==
  [testRequired           |-> TestCalls("required"),
   testRequiredStarted    |-> TestStarted("required"),
   testNever              |-> TestCalls("never"),
   testNeverStarted       |-> TestStartedRollback("never"),
   testRequiresNew        |-> TestCalls("requiresNew"),
   testRequiresNewStarted |-> TestStarted("requiresNew"),
   testMandatory          |-> TestCalls("mandatory"),
   testMandatoryChild     |-> TestCalls("childMandatory"),
   testNeverStartedChild  |->
     Method("TEST", <<Do("begin"), Call("childNever"), Do("commit")>>)]

TransactionAttributesCdiTestCase ==
  [cdiTestRequired           |-> TestCalls("cdiRequired"),
   cdiTestRequiredStarted    |-> TestStarted("cdiRequired"),
   cdiTestNever              |-> TestCalls("cdiNever"),
   cdiTestNeverStarted       |-> TestStartedRollback("cdiNever"),
   cdiTestRequiresNew        |-> TestCalls("cdiRequiresNew"),
   cdiTestRequiresNewStarted |-> TestStarted("cdiRequiresNew"),
   cdiTestMandatory          |-> TestCalls("cdiMandatory")]

OnDatasourceConnectionFailTestCase ==
  [testRethrow   |-> TestCalls("callRethrower"),
   testCatch     |-> TestCalls("callCatch"),
   testNewTxn    |-> TestCalls("callRequiresNew")]

SynchronizationTests ==
  [testSynchronization |-> TestCalls("synchronize"),
   testRegistry        |-> TestCalls("synchronizeRegistry"),
   statefulSynchro     |-> Method("TEST", <<Call("doWorkSynchro"), Do("check"), Call("remove")>>),
   statefulBmtSynchro  |-> Method("TEST", <<Call("doWorkBmt"), Do("check"), Call("removeBmt")>>)]

AsynchronousCallTestCase ==
  [statelessNotFinishedTransaction |-> TestCalls("callAsync")]

TestCases ==
  {TransactionAttributesEjbTestCase, TransactionAttributesCdiTestCase,
   OnDatasourceConnectionFailTestCase, SynchronizationTests, AsynchronousCallTestCase}

Beans ==
  {TransactionAttributeEjbBean, TransactionAttributeCdiBean, TransactionAttributeEjbChildBean,
   TableCreator, CallerBean, BeanSynchronization, BeanSynchronizationRegistry,
   StatefulSynchronizationAnnotationsBean, StatefulBmtSynchronizationAnnotationsBean,
   AsynchronousCallerBean, AsynchronouslyCalledBean}

(* The methods of several classes; their names differ.                     *)
Together(classes) ==
  [m \in UNION {DOMAIN c : c \in classes} |-> (CHOOSE c \in classes : m \in DOMAIN c)[m]]

Tests == Together(TestCases)
Methods == Together(TestCases \union Beans)

Listeners == {"testSynchronization", "testRegistry"}
RequiredTests ==
  {"testRequired", "testRequiresNew", "cdiTestRequired", "cdiTestRequiresNew"}
NeverTests == {"testNever", "cdiTestNever"}
JoinTests == {"testRequiredStarted", "cdiTestRequiredStarted"}
ApartTests == {"testRequiresNewStarted", "cdiTestRequiresNewStarted"}

(* ResultsLogged is inherited by the child bean.                           *)
Logged ==
  UNION {DOMAIN TransactionAttributeEjbBean, DOMAIN TransactionAttributeEjbChildBean,
         DOMAIN TransactionAttributeCdiBean}

-----------------------------------------------------------------------------
(* The singleton ResultsBean.                                              *)

NoResults ==
  [invoke |-> <<>>, exit |-> <<>>, id |-> 0, before |-> "none", after |-> "none",
   afterBegin |-> "none", beforeCompletion |-> "none", afterCompletion |-> "none",
   committed |-> "none"]

TxnDTO(i) == [tx |-> i, status |-> IF i = 0 THEN "none" ELSE txs[i].status]

BeginHeard(r, listeners) ==
  IF "session" \in listeners THEN [r EXCEPT !.afterBegin = "active"] ELSE r

BeforeHeard(r, listeners) ==
  LET plain == IF "listener" \in listeners THEN [r EXCEPT !.before = "active"] ELSE r
  IN IF "session" \in listeners
       THEN [plain EXCEPT !.beforeCompletion = "active"] ELSE plain

AfterHeard(r, listeners, status) ==
  LET plain == IF "listener" \in listeners THEN [r EXCEPT !.after = status] ELSE r
  IN IF "session" \in listeners
       THEN [plain EXCEPT !.afterCompletion = status,
                          !.committed = IF status = "committed" THEN "yes" ELSE "no"]
       ELSE plain

-----------------------------------------------------------------------------
(* Calls and transactions.                                                 *)

(* A transaction that is "kept" is rolled back for the transaction manager *)
(* and all it tells, while its only resource has kept the work.            *)
Live == {"active", "marked"}
Ended == {"committed", "rolledback", "kept"}
Announced(status) == IF status = "kept" THEN "rolledback" ELSE status

(* The database has the entity persisted in the transaction.               *)
InDatabase(i) == i # 0 /\ txs[i].entity /\ txs[i].status \in {"committed", "kept"}

NewTx(by) == [status |-> "active", by |-> by, aborted |-> FALSE, entity |-> FALSE,
              listeners |-> {}]
Frame(m, w) == [method |-> m, pc |-> 1, step |-> "enter", outer |-> current[w],
                owner |-> FALSE]

Top(w) == Last(stack[w])
Attribute(w) == Methods[Top(w).method].attribute
Body(w) == Methods[Top(w).method].body
InBody(w) == stack[w] # <<>> /\ Top(w).step = "body"
Finished(w) == Top(w).pc > Len(Body(w))
AtOp(w, what) == InBody(w) /\ ~Finished(w) /\ Body(w)[Top(w).pc][1] = what
Argument(w) == Body(w)[Top(w).pc][2]
Session(m) == IF m \in DOMAIN StatefulSynchronizationAnnotationsBean THEN {"session"} ELSE {}

ReplaceTop(w, f) == [stack EXCEPT ![w] = Append(Front(@), f)]
Step(w, s) == stack' = ReplaceTop(w, [Top(w) EXCEPT !.step = s])
Advance(w) == stack' = ReplaceTop(w, [Top(w) EXCEPT !.pc = @ + 1, !.step = "body"])
SetTx(w, field, value) == txs' = [txs EXCEPT ![current[w]][field] = value]

(* An operation throws e: the method catches it or ends.                   *)
Thrown(w, e) ==
  IF Body(w)[Top(w).pc][3]
    THEN Advance(w) /\ UNCHANGED raised
    ELSE /\ stack' = ReplaceTop(w, [Top(w) EXCEPT !.pc = Len(Body(w)) + 1,
                                                  !.step = "body"])
         /\ raised' = [raised EXCEPT ![w] = e]

Fault(w) ==
  /\ faults < MaxFaults
  /\ faults' = faults + 1
  /\ disturbed' = (disturbed \/ w \in Threads)

suite == <<test, thread, n, outcome>>
scene == <<suite, jobs, noted>>
calm == <<disturbed, faults>>

Init ==
  /\ test = "none" /\ thread = "none" /\ n = 0
  /\ stack = [w \in Workers |-> <<>>]
  /\ current = [w \in Workers |-> 0]
  /\ raised = [w \in Workers |-> "none"] /\ outcome = "none"
  /\ txs = <<>> /\ jobs = <<>>
  /\ results = NoResults
  /\ noted = [tx |-> 0, status |-> "none"]
  /\ disturbed = FALSE /\ faults = 0

(* setUp of the test's class: all but the one of the asynchronous call     *)
(* clear the results, all but the one of the listeners roll back what an   *)
(* earlier test has left on the thread.                                    *)
StartTest(t, w) ==
  LET left == current[w]
      rollsBack == left # 0 /\ t \notin Listeners
      cleared == IF t \in DOMAIN AsynchronousCallTestCase THEN results ELSE NoResults
  IN /\ thread = "none" /\ n < MaxTests
     /\ thread' = w /\ test' = t /\ n' = n + 1
     /\ IF rollsBack
          THEN /\ txs' = [txs EXCEPT ![left].status = "rolledback"]
               /\ results' = AfterHeard(cleared, txs[left].listeners, "rolledback")
               /\ current' = [current EXCEPT ![w] = 0]
          ELSE results' = cleared /\ UNCHANGED <<txs, current>>
     /\ stack' = [stack EXCEPT ![w] = <<[Frame(t, w) EXCEPT !.outer = 0, !.step = "body"]>>]
     /\ noted' = [tx |-> 0, status |-> "none"]
     /\ disturbed' = (left # 0 /\ ~rollsBack)
     /\ UNCHANGED <<jobs, raised, outcome, faults>>

-----------------------------------------------------------------------------
(* The container at a method's entry.                                      *)

Entered(w, owner) ==
  stack' = ReplaceTop(w, [Top(w) EXCEPT !.step = "body", !.owner = owner])

Recorded(r, w, i) ==
  IF Top(w).method \in Logged
    THEN [r EXCEPT !.invoke = Append(@, [tx |-> i, status |-> IF i = 0 THEN "none"
                                          ELSE IF i > Len(txs) THEN "active"
                                          ELSE txs[i].status])]
    ELSE r

Runs(w, i) ==
  /\ current' = [current EXCEPT ![w] = i]
  /\ UNCHANGED <<scene, calm, raised>>

EnterNew(w) ==
  /\ \/ Attribute(w) = "REQUIRED" /\ current[w] = 0
     \/ Attribute(w) = "REQUIRES_NEW"
  /\ txs' = Append(txs, [NewTx("container") EXCEPT !.listeners = Session(Top(w).method)])
  /\ results' = BeginHeard(Recorded(results, w, Len(txs) + 1), Session(Top(w).method))
  /\ Entered(w, TRUE)
  /\ Runs(w, Len(txs) + 1)

EnterJoined(w) ==
  /\ Attribute(w) \in {"REQUIRED", "MANDATORY"} /\ current[w] # 0
  /\ SetTx(w, "listeners", txs[current[w]].listeners \union Session(Top(w).method))
  /\ results' = BeginHeard(Recorded(results, w, current[w]), Session(Top(w).method))
  /\ Entered(w, FALSE)
  /\ Runs(w, current[w])

EnterWithout(w) ==
  /\ \/ Attribute(w) = "NEVER" /\ current[w] = 0
     \/ Attribute(w) = "BEAN"
  /\ results' = Recorded(results, w, 0)
  /\ Entered(w, FALSE)
  /\ Runs(w, 0)
  /\ UNCHANGED txs

EnterRefused(w) ==
  LET cdi == Top(w).method \in DOMAIN TransactionAttributeCdiBean
  IN /\ \/ Attribute(w) = "NEVER" /\ current[w] # 0
        \/ Attribute(w) = "MANDATORY" /\ current[w] = 0
     /\ raised' = [raised EXCEPT ![w] = IF cdi THEN "Transactional"
                                       ELSE IF Attribute(w) = "NEVER" THEN "EJBException"
                                       ELSE "Required"]
     /\ Step(w, "return")
     /\ UNCHANGED <<scene, calm, current, txs, results>>

(* No instance of the bean can be had.                                     *)
EnterFails(w) ==
  /\ stack[w] # <<>> /\ Top(w).step = "enter"
  /\ Fault(w)
  /\ raised' = [raised EXCEPT ![w] = "EJBException"]
  /\ Step(w, "return")
  /\ UNCHANGED <<scene, current, txs, results>>

Enter(w) ==
  /\ stack[w] # <<>> /\ Top(w).step = "enter"
  /\ \/ EnterNew(w) \/ EnterJoined(w) \/ EnterWithout(w) \/ EnterRefused(w)

-----------------------------------------------------------------------------
(* The operations of a body.                                               *)

CallMethod(w) ==
  /\ AtOp(w, "call")
  /\ stack' = [stack EXCEPT ![w] = Append(@, Frame(Argument(w), w))]
  /\ UNCHANGED <<scene, calm, current, raised, txs, results>>

(* em.persist needs a transaction that can still commit on a connection    *)
(* that still takes statements.                                            *)
PersistEntity(w) ==
  /\ AtOp(w, "persist")
  /\ IF txs[current[w]].status = "active" /\ ~txs[current[w]].aborted
       THEN SetTx(w, "entity", TRUE) /\ Advance(w) /\ UNCHANGED raised
       ELSE Thrown(w, "Runtime") /\ UNCHANGED txs
  /\ UNCHANGED <<scene, calm, current, results>>

StoreId(w) ==
  /\ AtOp(w, "store")
  /\ results' = [results EXCEPT !.id = current[w]]
  /\ Advance(w)
  /\ UNCHANGED <<scene, calm, current, raised, txs>>

(* executeUpdate: the statement fails, or already getConnection does.       *)
ExecuteUpdate(w) ==
  /\ AtOp(w, "sql")
  /\ \/ SetTx(w, "aborted", AbortsOnError \/ txs[current[w]].aborted) /\ UNCHANGED calm
     \/ Fault(w) /\ UNCHANGED txs
  /\ Thrown(w, "Runtime")
  /\ UNCHANGED <<scene, current, results>>

Register(w) ==
  /\ AtOp(w, "register")
  /\ SetTx(w, "listeners", txs[current[w]].listeners \union {Argument(w)})
  /\ Advance(w)
  /\ UNCHANGED <<scene, calm, current, raised, results>>

BeginTx(w) ==
  /\ AtOp(w, "begin")
  /\ txs' = Append(txs, NewTx(IF Attribute(w) = "BEAN" THEN "bean" ELSE "test"))
  /\ current' = [current EXCEPT ![w] = Len(txs) + 1]
  /\ Advance(w)
  /\ UNCHANGED <<scene, calm, raised, results>>

CallAsynchronously(w) ==
  /\ AtOp(w, "async")
  /\ jobs' = Append(jobs, <<Argument(w), current[w]>>)
  /\ Advance(w)
  /\ UNCHANGED <<suite, noted, calm, current, raised, txs, results>>

Sleep(w) ==
  /\ AtOp(w, "sleep")
  /\ Advance(w)
  /\ UNCHANGED <<scene, calm, current, raised, txs, results>>

NoteTransaction(w) ==
  /\ AtOp(w, "note")
  /\ noted' = TxnDTO(current[w])
  /\ Advance(w)
  /\ UNCHANGED <<suite, jobs, calm, current, raised, txs, results>>

(* Mutant: the job runs in the transaction of the method that started it.  *)
StartJobPropagated(w) ==
  /\ jobs # <<>> /\ stack[w] = <<>>
  /\ stack' = [stack EXCEPT ![w] = <<Frame(Head(jobs)[1], w)>>]
  /\ current' = [current EXCEPT ![w] = Head(jobs)[2]]
  /\ jobs' = Tail(jobs)
  /\ UNCHANGED <<suite, noted, calm, raised, txs, results>>

(* The pool takes up an asynchronous call, without any transaction.        *)
StartJob(w) ==
  /\ jobs # <<>> /\ stack[w] = <<>>
  /\ stack' = [stack EXCEPT ![w] = <<Frame(Head(jobs)[1], w)>>]
  /\ jobs' = Tail(jobs)
  /\ UNCHANGED <<suite, noted, calm, current, raised, txs, results>>

(* The assertions of a test, made when its calls have come back.           *)
AsRequired ==
  /\ Len(results.invoke) = 1 /\ results.exit = results.invoke
  /\ results.invoke[1].status = "active"

Asserted(w) ==
  CASE test \in RequiredTests -> AsRequired /\ current[w] = 0
    [] test \in JoinTests -> AsRequired /\ results.invoke[1] = noted
    [] test \in ApartTests -> AsRequired /\ results.invoke[1] # noted
    [] test \in NeverTests ->
         /\ results.invoke = <<TxnDTO(0)>> /\ results.exit = results.invoke
         /\ current[w] = 0
    [] test = "testNewTxn" -> current[w] = 0 /\ InDatabase(results.id)
    [] test \in Listeners -> results.before # "none" /\ results.after # "none"
    [] test = "statefulSynchro" ->
         /\ current[w] = 0
         /\ results.afterBegin = "active" /\ results.beforeCompletion = "active"
         /\ results.afterCompletion = "committed" /\ results.committed = "yes"
    [] test = "statefulBmtSynchro" ->
         /\ current[w] = 0
         /\ {results.afterBegin, results.beforeCompletion, results.afterCompletion} = {"none"}
    [] OTHER -> TRUE

Check(w) ==
  /\ AtOp(w, "check")
  /\ IF Asserted(w) THEN Advance(w) /\ UNCHANGED raised ELSE Thrown(w, "Assertion")
  /\ UNCHANGED <<scene, calm, current, txs, results>>

-----------------------------------------------------------------------------
(* The end of a transaction, in three steps of the thread that ends it.    *)

RollbackTx(w) ==
  /\ SetTx(w, "status", "rolledback")
  /\ Step(w, "after")

(* tm.commit and utx.commit.                                               *)
CommitTx(w) ==
  /\ AtOp(w, "commit")
  /\ Step(w, "before")
  /\ UNCHANGED <<scene, calm, current, raised, txs, results>>

BeforeCompletion(w) ==
  /\ stack[w] # <<>> /\ Top(w).step = "before"
  /\ IF txs[current[w]].status = "active"
       THEN /\ results' = BeforeHeard(results, txs[current[w]].listeners)
            /\ Step(w, "complete") /\ UNCHANGED <<txs, raised>>
       ELSE /\ RollbackTx(w)
            /\ raised' = [raised EXCEPT ![w] = "Rollback"]
            /\ UNCHANGED results
  /\ UNCHANGED <<scene, calm, current>>

(* A commit that fails is an exception for who asked for it.  The          *)
(* datasource of an entity, the only resource of its transaction, is       *)
(* committed in one phase: when that throws, the database may have         *)
(* committed.                                                              *)
Complete(w) ==
  /\ stack[w] # <<>> /\ Top(w).step = "complete"
  /\ \/ SetTx(w, "status", "committed") /\ UNCHANGED <<calm, raised>>
     \/ /\ \/ SetTx(w, "status", "rolledback")
           \/ txs[current[w]].entity /\ SetTx(w, "status", "kept")
        /\ Fault(w)
        /\ raised' = [raised EXCEPT ![w] = "Rollback"]
  /\ Step(w, "after")
  /\ UNCHANGED <<scene, current, results>>

AfterCompletion(w) ==
  LET i == current[w]
  IN /\ stack[w] # <<>> /\ Top(w).step = "after"
     /\ results' = AfterHeard(results, txs[i].listeners, Announced(txs[i].status))
     /\ current' = [current EXCEPT ![w] = 0]
     /\ stack' = ReplaceTop(w,
          [Top(w) EXCEPT !.step = IF Finished(w) THEN "return" ELSE "body",
                         !.pc = IF raised[w] = "none" THEN @ + 1 ELSE Len(Body(w)) + 1])
     /\ UNCHANGED <<scene, calm, raised, txs>>

-----------------------------------------------------------------------------
(* The container at a method's end.                                        *)

Leaving(w) == InBody(w) /\ Finished(w)

Exited(w) ==
  IF raised[w] = "none" /\ Top(w).method \in Logged
    THEN [results EXCEPT !.exit = Append(@, TxnDTO(current[w]))]
    ELSE results

(* The container began the transaction and ends it.                        *)
LeaveOwner(w) ==
  /\ Leaving(w) /\ Top(w).owner
  /\ IF raised[w] = "none" /\ txs[current[w]].status = "active"
       THEN Step(w, "before") /\ UNCHANGED txs
       ELSE RollbackTx(w)
  /\ results' = Exited(w)
  /\ UNCHANGED <<scene, calm, current, raised>>

(* The transaction is the caller's: an exception marks it for rollback.    *)
LeaveJoined(w) ==
  /\ Leaving(w) /\ ~Top(w).owner /\ Attribute(w) # "CATCH"
  /\ IF raised[w] # "none" /\ current[w] # 0 /\ Attribute(w) \in {"REQUIRED", "MANDATORY"}
       THEN SetTx(w, "status", "marked") ELSE UNCHANGED txs
  /\ Step(w, "return")
  /\ results' = Exited(w)
  /\ UNCHANGED <<scene, calm, current, raised>>

(* The catch of neverStarted: roll back and throw again.                   *)
LeaveCatch(w) ==
  /\ Leaving(w) /\ Attribute(w) = "CATCH"
  /\ IF raised[w] # "none"
       THEN RollbackTx(w) ELSE Step(w, "return") /\ UNCHANGED txs
  /\ UNCHANGED <<scene, calm, current, raised, results>>

(* The caller gets what an EJB throws as an EJBException and its own       *)
(* transaction back; a test keeps the transaction it has.                  *)
Return(w) ==
  LET callers == Front(stack[w])
      caller == Last(callers)
      body == Methods[caller.method].body
      caught == raised[w] # "none" /\ body[caller.pc][3]
      thrown == IF raised[w] \in {"none", "Required", "Transactional"}
                  THEN raised[w] ELSE "EJBException"
  IN /\ stack[w] # <<>> /\ Top(w).step = "return"
     /\ IF callers = <<>>
          THEN /\ stack' = [stack EXCEPT ![w] = <<>>]
               /\ IF w \in Threads THEN thread' = "none" /\ outcome' = raised[w]
                                  ELSE UNCHANGED <<thread, outcome>>
               /\ raised' = [raised EXCEPT ![w] = "none"]
               /\ UNCHANGED current
          ELSE /\ stack' = [stack EXCEPT ![w] = Append(Front(callers),
                 [caller EXCEPT !.pc = IF thrown = "none" \/ caught
                                         THEN @ + 1 ELSE Len(body) + 1])]
               /\ raised' = [raised EXCEPT ![w] = IF caught THEN "none" ELSE thrown]
               /\ current' = [current EXCEPT ![w] = Top(w).outer]
               /\ UNCHANGED <<thread, outcome>>
     /\ UNCHANGED <<test, n, jobs, noted, calm, txs, results>>

-----------------------------------------------------------------------------

Work(w) ==
  \/ Enter(w)
  \/ CallMethod(w) \/ PersistEntity(w) \/ StoreId(w) \/ ExecuteUpdate(w)
  \/ Register(w) \/ BeginTx(w) \/ CommitTx(w) \/ CallAsynchronously(w)
  \/ Sleep(w) \/ NoteTransaction(w) \/ Check(w)
  \/ BeforeCompletion(w) \/ Complete(w) \/ AfterCompletion(w)
  \/ LeaveOwner(w) \/ LeaveJoined(w) \/ LeaveCatch(w) \/ Return(w)

Next ==
  \/ \E t \in DOMAIN Tests, w \in Threads : StartTest(t, w)
  \/ \E w \in Workers : Work(w) \/ EnterFails(w)
  \/ \E w \in Pool : StartJob(w)

Spec == Init /\ [][Next]_vars

(* A thread that has a call goes on with it, the pool takes up what waits. *)
FairSpec ==
  /\ Spec
  /\ \A w \in Workers : WF_vars(Work(w))
  /\ \A w \in Pool : WF_vars(StartJob(w))

-----------------------------------------------------------------------------
(* Properties.                                                             *)

Statuses == Live \union Ended
Exceptions == {"none", "EJBException", "Required", "Transactional", "Runtime", "Rollback",
               "Assertion"}
Steps == {"enter", "body", "before", "complete", "after", "return"}

(* The types of the variables.                                             *)
TypeOK ==
  /\ test \in DOMAIN Tests \union {"none"} /\ thread \in Threads \union {"none"}
  /\ n \in 0..MaxTests /\ faults \in 0..MaxFaults /\ disturbed \in BOOLEAN
  /\ \A i \in DOMAIN txs :
       /\ txs[i].status \in Statuses /\ txs[i].by \in {"container", "bean", "test"}
       /\ txs[i].aborted \in BOOLEAN /\ txs[i].entity \in BOOLEAN
       /\ txs[i].listeners \subseteq {"listener", "session"}
  /\ \A w \in Workers :
       /\ current[w] \in 0..Len(txs) /\ raised[w] \in Exceptions
       /\ \A k \in DOMAIN stack[w] :
            /\ stack[w][k].method \in DOMAIN Methods /\ stack[w][k].step \in Steps
            /\ stack[w][k].outer \in 0..Len(txs)
  /\ results.id \in 0..Len(txs)

HasEnded == n > 0 /\ thread = "none"

Expected(t) ==
  CASE t \in {"testNeverStarted", "testRethrow", "testCatch"} -> {"EJBException", "Required"}
    [] t \in {"testMandatory", "testMandatoryChild"} -> {"Required"}
    [] t \in {"cdiTestNeverStarted", "cdiTestMandatory"} -> {"Transactional"}
    [] OTHER -> {"none"}

(* A test that met no fault, and no transaction left on its thread that    *)
(* its setUp keeps, ends as its annotation and its assertions say, in      *)
(* whatever order the tests run, on whatever thread, and beside whatever   *)
(* asynchronous method that still runs.                                    *)
TestsPass == HasEnded /\ ~disturbed => outcome \in Expected(test)

(* Who called CallerBean and got no exception can rely on the identifier   *)
(* in the results: its entity is in the database.  Who got one finds no    *)
(* identifier or that of an entity that is not there, with one exception:  *)
(* the failure of the commit itself (the connection of 38 is the only      *)
(* resource, and NON_XA) leaves open whether the entity is there.          *)
EntityAsReported ==
  HasEnded /\ test \in {"testRethrow", "testCatch", "testNewTxn"} =>
    IF outcome = "none"
      THEN InDatabase(results.id) /\ txs[results.id].status = "committed"
      ELSE InDatabase(results.id) => txs[results.id].status = "kept" /\ disturbed

(* The callbacks hear what the caller hears: a commit only where the call  *)
(* came back without an exception, a completion after every announcement   *)
(* of one, and the Boolean of a session bean as the status it reads.       *)
CallbacksAgree ==
  HasEnded =>
    /\ test \in Listeners /\ outcome # "none" => results.after # "committed"
    /\ results.before # "none" => results.after # "none"
    /\ results.beforeCompletion # "none" => results.afterCompletion # "none"
    /\ (results.committed = "yes") <=> (results.afterCompletion = "committed")

(* What a call leaves in the results is what its caller is told.           *)
ReportsAgree == EntityAsReported /\ CallbacksAgree

(* The transactions a thread works in or has put aside for a nested call.  *)
InUse(w) ==
  ({current[w]} \union {stack[w][k].outer : k \in DOMAIN stack[w]}) \ {0}

(* No transaction is used by two threads, not even by an asynchronous      *)
(* method and its caller; no method runs in a transaction that has ended,  *)
(* and none ends while it is put aside.                                    *)
Confined ==
  /\ \A v, w \in Workers : v # w => InUse(v) \cap InUse(w) = {}
  /\ \A w \in Workers :
       /\ InBody(w) /\ current[w] # 0 => txs[current[w]].status \in Live
       /\ \A k \in DOMAIN stack[w] :
            stack[w][k].outer # 0 /\ stack[w][k].outer # current[w] =>
              txs[stack[w][k].outer].status \in Live

(* No test begins more than two transactions.                              *)
TxIds == 1..(2 * MaxTests)

(* Every transaction the container or a bean begins is ended, however its  *)
(* method ends; only a test can leave one behind.                          *)
TransactionsEnd ==
  \A i \in TxIds :
    (i <= Len(txs) /\ txs[i].by # "test") ~> (i <= Len(txs) /\ txs[i].status \in Ended)

=============================================================================
