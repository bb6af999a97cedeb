---------------------------- MODULE ManagedBeans ----------------------------
(***************************************************************************)
(* The beans of ts-presentation-jboss that show when a transaction is      *)
(* committed, rolled back or left open: ExceptionWorkerEjbBean (container- *)
(* managed), ExceptionWorkerCdiBean (@Transactional), and the beans with   *)
(* bean-managed transactions ExceptionWorkerBmtEjbBean, StatelessBmtBean,  *)
(* StatefulBmtBean and SingletonBmtBean.  All of them are @ResultsLogged:  *)
(* ResultsInterceptor writes the status of the thread's transaction into   *)
(* the singleton ResultsBean before and after each call.                   *)
(*                                                                         *)
(* A caller is a thread that calls the beans without a transaction of its  *)
(* own.  A method is its sequence of operations; call number k begins at   *)
(* most one transaction, which is named k.  The container's part (Invoke,  *)
(* Complete) and the transaction manager are external.                     *)
(***************************************************************************)
EXTENDS Naturals, Sequences, FiniteSets

CONSTANTS Callers,     \* threads that call the beans
          MaxCalls,    \* bound: calls of the whole run
          MaxRecorded  \* bound: entries in ResultsBean when a call begins

ASSUME BeansAssumption == MaxCalls \in Nat /\ MaxRecorded \in Nat

-----------------------------------------------------------------------------
(* The methods.  An operation is a pair: what is done, and the exception   *)
(* it is about.                                                            *)
Do(op) == <<op, "-">>
Caught(e) == <<"caught", e>>    \* the thrower bean throws e, the method catches it
Thrown(e) == <<"thrown", e>>    \* the thrower bean throws e out of the method
Persist == Do("persist")        \* em.persist
Store == Do("store")            \* results.addStorageValue("id", ...)
Begin == Do("begin")            \* utx.begin()
MarkRollback == Do("mark")      \* utx.setRollbackOnly()
Commit == Do("commit")          \* utx.commit()
SetTimeout == Do("timeout")     \* utx.setTransactionTimeout(1)
Sleep == Do("sleep")            \* Thread.sleep(2000)

(* The method's own throw, caught in the same method, is no operation.     *)
ExceptionWorkerEjbBean ==
  [doNotRollback                  |-> <<Persist>>,
   doRollbackRuntimeException     |-> <<Persist, Caught("Runtime")>>,
   doRollbackApplicationException |-> <<Persist, Caught("ApplicationRollback")>>,
   doCommitApplicationException   |-> <<Persist, Caught("Application")>>,
   doCommitRuntimeException       |-> <<Persist, Caught("RuntimeNoRollback")>>]

ExceptionWorkerCdiBean ==
  [doNotRollback                  |-> <<Persist>>,
   doRollbackRuntimeException     |-> <<Persist, Caught("Runtime")>>,
   doRollbackApplicationException |-> <<Persist, Caught("ApplicationRollback")>>,
   doCommitApplicationException   |-> <<Persist, Caught("Application")>>,
   doCommitRuntimeException       |-> <<Persist, Caught("RuntimeNoRollback")>>,
   doRollbackRuntimeExceptionThrownToApp |->
     <<Persist, Store, Thrown("Runtime")>>,
   doRollbackApplicationExceptionThrowToApp |->
     <<Persist, Store, Thrown("ApplicationRollback")>>,
   doCommitRuntimeExceptionDontRollbackParam |-> <<Persist, Caught("Runtime")>>,
   doRollbackApplicationExceptionDoRollbackParam |->
     <<Persist, Caught("Application")>>]

ExceptionWorkerBmtEjbBean ==
  [runtimeExceptionThrown |->
     <<Begin, Persist, Store, Caught("Runtime"), Commit>>,
   runtimeExceptionThrownAutomaticRollback |->
     <<Begin, Persist, Store, Caught("Runtime")>>,
   setRollbackOnly |->
     <<Begin, Persist, Store, Caught("Runtime"), MarkRollback, Commit>>,
   setRollbackOnlyOnSessionContext |->
     <<Begin, Persist, Store, Caught("Runtime"), MarkRollback, Commit>>]

StatelessBmtBean ==
  [beginTransaction     |-> <<Begin, Persist, Store>>,
   doWithoutTransaction |-> <<Persist, Store>>,
   setTimeoutWrong      |-> <<Begin, SetTimeout, Sleep, Persist, Store, Commit>>,
   setTimeoutCorrect    |-> <<SetTimeout, Begin, Sleep, Persist, Store, Commit>>]

StatefulBmtBean ==
  [beginTransaction  |-> <<Begin, Persist, Store>>,
   commitTransaction |-> <<Commit>>,
   remove            |-> <<>>]

SingletonBmtBean ==
  [beginTransaction |-> <<Begin, Persist, Store>>]

Bean == [ejb |-> ExceptionWorkerEjbBean, cdi |-> ExceptionWorkerCdiBean,
         bmt |-> ExceptionWorkerBmtEjbBean, stateless |-> StatelessBmtBean,
         stateful |-> StatefulBmtBean, singleton |-> SingletonBmtBean]

Methods == UNION {{<<b, n>> : n \in DOMAIN Bean[b]} : b \in DOMAIN Bean}

Body(m) == Bean[m[1]][m[2]]

(* The operations inside a try whose catch (Exception) calls rollback():   *)
(* the commit of the exception workers, everything in the timeout methods. *)
Guarded(m, op) ==
  \/ m[1] = "bmt" /\ op = Commit
  \/ m \in {<<"stateless", "setTimeoutWrong">>, <<"stateless", "setTimeoutCorrect">>}

-----------------------------------------------------------------------------
VARIABLES calls,     \* calls made so far; the number of the latest one
          call,      \* the call each caller is in, 0 for none
          at,        \* its position: the operation, or one of the Phases
          log,       \* what each call is, and what became of it
          tx,        \* the transaction of each caller's thread, 0 for none
          timeout,   \* what the thread's next transaction gets as its timeout
          status,    \* the status of each transaction
          limit,     \* the timeout of each transaction
          held,      \* the transaction kept in the stateful bean, 0 for none
          removed,   \* is the stateful bean's instance gone
          results,   \* the fields of the singleton ResultsBean
          alone      \* history: only one call since they were cleared

vars == <<calls, call, at, log, tx, timeout, status, limit, held, removed, results, alone>>
calling == <<calls, call, log>>
manager == <<tx, timeout, status, limit>>
bean    == <<held, removed>>
record  == <<results, alone>>

Ids == 1..MaxCalls

Statuses == {"unused", "active", "marked", "committed", "aborted"}
Exceptions == {"Runtime", "RuntimeNoRollback", "Application", "ApplicationRollback"}
RuntimeExceptions == {"Runtime", "RuntimeNoRollback"}

(* After the operations: the catch block's rollback, and the way out of    *)
(* the bean with a result or with an exception.                            *)
Phases == {"idle", "rollback", "returning"} \union Exceptions

MaxBody == 6

TypeOK ==
  /\ calls \in 0..MaxCalls
  /\ call \in [Callers -> 0..MaxCalls]
  /\ at \in [Callers -> [phase : Phases \union {"body"}, op : 1..(MaxBody + 1)]]
  /\ log \in [Ids -> [m : Methods \union {<<"none", "none">>},
                      result : {"none", "returned", "threw"},
                      entity : 0..MaxCalls]]
  /\ tx \in [Callers -> 0..MaxCalls]
  /\ timeout \in [Callers -> {"default", "short"}]
  /\ status \in [Ids -> Statuses]
  /\ limit \in [Ids -> {"default", "short"}]
  /\ held \in 0..MaxCalls
  /\ removed \in BOOLEAN
  /\ alone \in BOOLEAN
  /\ results \in [invoke : Seq(Statuses), exit : Seq(Statuses), id : 0..MaxCalls]

Cleared == [invoke |-> <<>>, exit |-> <<>>, id |-> 0]

Init ==
  /\ calls = 0
  /\ call = [c \in Callers |-> 0]
  /\ at = [c \in Callers |-> [phase |-> "idle", op |-> 1]]
  /\ log = [k \in Ids |-> [m |-> <<"none", "none">>, result |-> "none", entity |-> 0]]
  /\ tx = [c \in Callers |-> 0]
  /\ timeout = [c \in Callers |-> "default"]
  /\ status = [t \in Ids |-> "unused"]
  /\ limit = [t \in Ids |-> "default"]
  /\ held = 0
  /\ removed = FALSE
  /\ results = Cleared
  /\ alone = FALSE

(* TransactionManager.getTransaction().getStatus(): "unused" stands for    *)
(* STATUS_NO_TRANSACTION.                                                  *)
StatusOf(t) == IF t = 0 THEN "unused" ELSE status[t]

MethodOf(c) == log[call[c]].m

-----------------------------------------------------------------------------
(* The test's setUp: results.clear(), and the rollback of a transaction    *)
(* left on the thread.                                                     *)
SetUp(c) ==
  /\ at[c].phase = "idle"
  /\ results' = Cleared
  /\ alone' = \A d \in Callers : call[d] = 0
  /\ status' = [t \in Ids |-> IF t = tx[c] THEN "aborted" ELSE status[t]]
  /\ tx' = [tx EXCEPT ![c] = 0]
  /\ UNCHANGED <<calling, at, timeout, limit, bean>>

(* The container's way in: it waits for the instance of the stateful or    *)
(* singleton bean to be free, begins the transaction of a CMT or           *)
(* @Transactional method or resumes the stateful bean's.  Then             *)
(* ResultsInterceptor adds the status it finds.                            *)
Invoke(c, m) ==
  /\ at[c].phase = "idle"
  /\ calls < MaxCalls
  /\ Len(results.invoke) < MaxRecorded
  /\ m[1] \in {"stateful", "singleton"} =>
       \A d \in Callers : call[d] # 0 => MethodOf(d)[1] # m[1]
  /\ m[1] = "stateful" => ~removed
  /\ calls' = calls + 1
  /\ call' = [call EXCEPT ![c] = calls']
  /\ log' = [log EXCEPT ![calls'].m = m]
  /\ at' = [at EXCEPT ![c] = [phase |-> "body", op |-> 1]]
  /\ LET begun == m[1] \in {"ejb", "cdi"}
         t     == IF begun THEN calls' ELSE IF m[1] = "stateful" THEN held ELSE 0
     IN  /\ tx' = [tx EXCEPT ![c] = t]
         /\ status' = IF begun THEN [status EXCEPT ![t] = "active"] ELSE status
         /\ limit' = IF begun THEN [limit EXCEPT ![t] = timeout[c]] ELSE limit
         /\ held' = IF m[1] = "stateful" THEN 0 ELSE held
         /\ results' = [results EXCEPT
              !.invoke = Append(@, IF t = 0 THEN "unused" ELSE status'[t])]
  /\ alone' = (alone /\ results = Cleared)
  /\ UNCHANGED <<timeout, removed>>

-----------------------------------------------------------------------------
(* The operations of the methods                                           *)

(* The caller's method does its next operation, which is op.               *)
Doing(c, op) ==
  /\ at[c].phase = "body"
  /\ at[c].op <= Len(Body(MethodOf(c)))
  /\ Body(MethodOf(c))[at[c].op] = op

Continue(c) == at' = [at EXCEPT ![c].op = @ + 1]

(* An exception goes to the catch block around the operation, or out.      *)
Fail(c, e) ==
  LET op == Body(MethodOf(c))[at[c].op]
  IN  at' = [at EXCEPT ![c].phase =
               IF Guarded(MethodOf(c), op) THEN "rollback" ELSE e]

(* Bean-managed transactions do not nest.                                  *)
UtxBegin(c) ==
  /\ Doing(c, Begin)
  /\ IF tx[c] = 0
     THEN /\ Continue(c)
          /\ tx' = [tx EXCEPT ![c] = call[c]]
          /\ status' = [status EXCEPT ![call[c]] = "active"]
          /\ limit' = [limit EXCEPT ![call[c]] = timeout[c]]
     ELSE /\ Fail(c, "Application")
          /\ UNCHANGED <<tx, status, limit>>
  /\ UNCHANGED <<calling, timeout, bean, record>>

(* Mutant: the timeout reaches the transaction that is already running.    *)
UtxSetTimeoutOfRunning(c) ==
  /\ Doing(c, SetTimeout)
  /\ Continue(c)
  /\ timeout' = [timeout EXCEPT ![c] = "short"]
  /\ limit' = [t \in Ids |-> IF t = tx[c] THEN "short" ELSE limit[t]]
  /\ UNCHANGED <<calling, tx, status, bean, record>>

(* The timeout is the thread's: it is for the transactions it begins next. *)
UtxSetTransactionTimeout(c) ==
  /\ Doing(c, SetTimeout)
  /\ Continue(c)
  /\ timeout' = [timeout EXCEPT ![c] = "short"]
  /\ UNCHANGED <<calling, tx, status, limit, bean, record>>

(* Two seconds pass, and with them every timeout of one second.            *)
ThreadSleep(c) ==
  /\ Doing(c, Sleep)
  /\ tx[c] # 0 /\ limit[tx[c]] = "short" => status[tx[c]] = "aborted"
  /\ Continue(c)
  /\ UNCHANGED <<calling, manager, bean, record>>

(* Hibernate refuses to persist without a live transaction.                *)
EmPersist(c) ==
  /\ Doing(c, Persist)
  /\ IF StatusOf(tx[c]) \in {"active", "marked"}
     THEN Continue(c) /\ log' = [log EXCEPT ![call[c]].entity = tx[c]]
     ELSE Fail(c, "Runtime") /\ UNCHANGED log
  /\ UNCHANGED <<calls, call, manager, bean, record>>

AddStorageValue(c) ==
  /\ Doing(c, Store)
  /\ Continue(c)
  /\ results' = [results EXCEPT !.id = call[c]]
  /\ UNCHANGED <<calling, manager, bean, alone>>

(* Leaving ExceptionThrowerEjb these exceptions mark the transaction it    *)
(* was called in; ExceptionThrowerCdi is a plain object.                   *)
MarkedBy(m, e) == m[1] # "cdi" /\ e \in {"Runtime", "ApplicationRollback"}

CallThrower(c) ==
  \E e \in Exceptions :
    /\ \/ Doing(c, Caught(e)) /\ Continue(c)
       \/ Doing(c, Thrown(e)) /\ Fail(c, e)
    /\ status' = [t \in Ids |-> IF t = tx[c] /\ status[t] = "active"
                                   /\ MarkedBy(MethodOf(c), e)
                                THEN "marked" ELSE status[t]]
    /\ UNCHANGED <<calling, tx, timeout, limit, bean, record>>

UtxSetRollbackOnly(c) ==
  /\ Doing(c, MarkRollback)
  /\ IF StatusOf(tx[c]) \in {"active", "marked"}
     THEN Continue(c) /\ status' = [status EXCEPT ![tx[c]] = "marked"]
     ELSE Fail(c, "Runtime") /\ UNCHANGED status
  /\ UNCHANGED <<calling, tx, timeout, limit, bean, record>>

(* Whatever commit() answers, the transaction has left the thread: a       *)
(* rollback() in the handler finds none.                                   *)
UtxCommit(c) ==
  /\ Doing(c, Commit)
  /\ CASE tx[c] = 0 -> Fail(c, "Runtime")
       [] StatusOf(tx[c]) = "active" -> Continue(c)
       [] OTHER -> Fail(c, "Application")
  /\ status' = [t \in Ids |-> IF t # tx[c] THEN status[t]
                              ELSE IF status[t] = "active" THEN "committed"
                              ELSE "aborted"]
  /\ tx' = [tx EXCEPT ![c] = 0]
  /\ UNCHANGED <<calling, timeout, limit, bean, record>>

(* catch (Exception e) { utx.rollback(); } ends the method.                *)
UtxRollback(c) ==
  /\ at[c].phase = "rollback"
  /\ at' = [at EXCEPT ![c] = IF tx[c] = 0 THEN [@ EXCEPT !.phase = "Runtime"]
                             ELSE [phase |-> "body", op |-> MaxBody + 1]]
  /\ status' = [t \in Ids |-> IF t = tx[c] THEN "aborted" ELSE status[t]]
  /\ tx' = [tx EXCEPT ![c] = 0]
  /\ UNCHANGED <<calling, timeout, limit, bean, record>>

(* Mutant: the status at exit is added in a finally, with the thread's     *)
(* transaction already gone.                                               *)
InterceptorExitLate(c) ==
  /\ at[c].phase = "body"
  /\ at[c].op > Len(Body(MethodOf(c)))
  /\ at' = [at EXCEPT ![c].phase = "returning"]
  /\ results' = [results EXCEPT !.exit = Append(@, "unused")]
  /\ UNCHANGED <<calling, manager, bean, alone>>

(* proceed() returned: ResultsInterceptor adds the status at exit.  When   *)
(* it throws, nothing is added.                                            *)
InterceptorExit(c) ==
  /\ at[c].phase = "body"
  /\ at[c].op > Len(Body(MethodOf(c)))
  /\ at' = [at EXCEPT ![c].phase = "returning"]
  /\ results' = [results EXCEPT !.exit = Append(@, StatusOf(tx[c]))]
  /\ UNCHANGED <<calling, manager, bean, alone>>

-----------------------------------------------------------------------------
(* The container's way out                                                 *)

(* @Transactional: rollbackOn and dontRollbackOn come before the rule that *)
(* runtime exceptions roll back; @ApplicationException is not looked at.   *)
CdiRollsBack(m, e) ==
  CASE m[2] = "doCommitRuntimeExceptionDontRollbackParam" /\ e \in RuntimeExceptions -> FALSE
    [] m[2] = "doRollbackApplicationExceptionDoRollbackParam" /\ e = "Application" -> TRUE
    [] OTHER -> e \in RuntimeExceptions

(* Mutant: a stateful bean's transaction is ended at the end of each call. *)
FinalStatusOfStateless(m, phase, s) ==
  IF s \in {"active", "marked"}
  THEN IF m[1] \in {"ejb", "cdi", "stateful"} /\ s = "active" /\ ~CdiRollsBack(m, phase)
       THEN "committed" ELSE "aborted"
  ELSE s

(* The status the transaction of the method is left with, of those it has  *)
(* on the thread.                                                          *)
FinalStatus(m, phase, s) ==
  IF s \in {"active", "marked"}
  THEN CASE m[1] = "ejb" -> IF s = "active" THEN "committed" ELSE "aborted"
         [] m[1] = "cdi" -> IF s = "active" /\ ~CdiRollsBack(m, phase)
                            THEN "committed" ELSE "aborted"
         [] m[1] = "stateful" -> IF phase = "Runtime" THEN "aborted" ELSE s
         [] OTHER -> "aborted"
  ELSE s

(* What the caller gets.  A transaction that ended without the container,  *)
(* or that a bean with bean-managed transactions has not ended, is an      *)
(* EJBException; only a stateful bean keeps its transaction.               *)
CallResult(m, phase, s) ==
  IF \/ phase \in Exceptions
     \/ m[1] \in {"ejb", "cdi"} /\ s = "aborted"
     \/ m[1] \in {"bmt", "stateless", "singleton"} /\ s # "unused"
  THEN "threw" ELSE "returned"

(* Mutant: the thread goes back to its pool with the transaction the       *)
(* stateful bean keeps.                                                    *)
CompleteWithoutSuspend(c) ==
  LET m == MethodOf(c)
      s == StatusOf(tx[c])
      phase == at[c].phase
      gone == m = <<"stateful", "remove">> \/ phase = "Runtime"
  IN  /\ phase \in Exceptions \union {"returning"}
      /\ status' = [t \in Ids |-> IF t = tx[c] THEN FinalStatus(m, phase, s)
                                  ELSE status[t]]
      /\ log' = [log EXCEPT ![call[c]].result = CallResult(m, phase, s)]
      /\ held' = IF m[1] = "stateful" /\ ~gone THEN tx[c] ELSE held
      /\ removed' = (removed \/ (m[1] = "stateful" /\ gone))
      /\ tx' = IF m[1] = "stateful" THEN tx ELSE [tx EXCEPT ![c] = 0]
      /\ call' = [call EXCEPT ![c] = 0]
      /\ timeout' = [timeout EXCEPT ![c] = "default"]
      /\ at' = [at EXCEPT ![c] = [phase |-> "idle", op |-> 1]]
      /\ UNCHANGED <<calls, limit, record>>

(* A stateful instance goes with @Remove or with a runtime exception; a    *)
(* transaction it keeps when it is removed stays open.  The container      *)
(* gives the thread its timeout back.                                      *)
Complete(c) ==
  LET m == MethodOf(c)
      s == StatusOf(tx[c])
      phase == at[c].phase
      gone == m = <<"stateful", "remove">> \/ phase = "Runtime"
  IN  /\ phase \in Exceptions \union {"returning"}
      /\ status' = [t \in Ids |-> IF t = tx[c] THEN FinalStatus(m, phase, s)
                                  ELSE status[t]]
      /\ log' = [log EXCEPT ![call[c]].result = CallResult(m, phase, s)]
      /\ held' = IF m[1] = "stateful" /\ ~gone THEN tx[c] ELSE held
      /\ removed' = (removed \/ (m[1] = "stateful" /\ gone))
      /\ tx' = [tx EXCEPT ![c] = 0]
      /\ call' = [call EXCEPT ![c] = 0]
      /\ timeout' = [timeout EXCEPT ![c] = "default"]
      /\ at' = [at EXCEPT ![c] = [phase |-> "idle", op |-> 1]]
      /\ UNCHANGED <<calls, limit, record>>

(* Mutant: the reaper does not learn that a transaction has committed.     *)
TimeoutNotCancelled(t) ==
  /\ status[t] \in {"active", "marked", "committed"}
  /\ limit[t] = "short" \/ \A c \in Callers : tx[c] # t
  /\ status' = [status EXCEPT ![t] = "aborted"]
  /\ UNCHANGED <<calling, at, tx, timeout, limit, bean, record>>

(* Mutant: only transactions that set a timeout are given to the reaper.   *)
TimeoutOfShortOnly(t) ==
  /\ status[t] \in {"active", "marked"}
  /\ limit[t] = "short"
  /\ status' = [status EXCEPT ![t] = "aborted"]
  /\ UNCHANGED <<calling, at, tx, timeout, limit, bean, record>>

(* The transaction reaper.  One second may pass anywhere, the default of   *)
(* 300 seconds only while no thread works in the transaction.              *)
Timeout(t) ==
  /\ status[t] \in {"active", "marked"}
  /\ limit[t] = "short" \/ \A c \in Callers : tx[c] # t
  /\ status' = [status EXCEPT ![t] = "aborted"]
  /\ UNCHANGED <<calling, at, tx, timeout, limit, bean, record>>

-----------------------------------------------------------------------------
Step(c) ==
  \/ UtxBegin(c) \/ UtxSetTransactionTimeout(c) \/ ThreadSleep(c)
  \/ EmPersist(c) \/ AddStorageValue(c) \/ CallThrower(c)
  \/ UtxSetRollbackOnly(c) \/ UtxCommit(c) \/ UtxRollback(c)
  \/ InterceptorExit(c) \/ Complete(c)

Next ==
  \/ \E c \in Callers :
       \/ SetUp(c)
       \/ \E m \in Methods : Invoke(c, m)
       \/ Step(c)
  \/ \E t \in Ids : Timeout(t)

Spec == Init /\ [][Next]_vars

(* Called methods run to their end and the reaper takes what outlives its  *)
(* timeout; nobody is obliged to call.                                     *)
Fairness == /\ \A c \in Callers : WF_vars(Step(c))
            /\ \A t \in Ids : WF_vars(Timeout(t))

FairSpec == Spec /\ Fairness

-----------------------------------------------------------------------------
(* What the tests assert of each method (ExceptionThrownEjbTestCase,       *)
(* ExceptionThrownCdiTestCase, ExceptionThrownBmtEjbTestCase,              *)
(* BmtEjbTestCase; not the @Ignored tests): after the call the entity is   *)
(* found, the call throws, and the statuses ResultsBean holds.             *)
EntityFound ==
  {<<"ejb", "doNotRollback">>, <<"ejb", "doCommitApplicationException">>,
   <<"ejb", "doCommitRuntimeException">>,
   <<"cdi", "doNotRollback">>, <<"cdi", "doCommitApplicationException">>,
   <<"cdi", "doCommitRuntimeException">>,
   <<"cdi", "doRollbackApplicationExceptionThrowToApp">>,
   <<"cdi", "doCommitRuntimeExceptionDontRollbackParam">>,
   <<"stateless", "setTimeoutWrong">>}

Ignored ==
  {<<"cdi", "doRollbackRuntimeException">>, <<"cdi", "doRollbackApplicationException">>,
   <<"cdi", "doRollbackApplicationExceptionDoRollbackParam">>}

CallThrows ==
  {<<"cdi", "doRollbackRuntimeExceptionThrownToApp">>,
   <<"cdi", "doRollbackApplicationExceptionThrowToApp">>,
   <<"stateless", "beginTransaction">>, <<"stateless", "doWithoutTransaction">>,
   <<"singleton", "beginTransaction">>}
  \union {m \in Methods : m[1] = "bmt"}

InvokeStatus(m) == IF m[1] \in {"ejb", "cdi"} THEN <<"active">> ELSE <<"unused">>

ExitStatus(m) ==
  IF m \in {<<"ejb", "doRollbackRuntimeException">>,
            <<"ejb", "doRollbackApplicationException">>,
            <<"bmt", "runtimeExceptionThrownAutomaticRollback">>} THEN <<"marked">>
  ELSE IF m \in {<<"stateless", "beginTransaction">>,
                 <<"singleton", "beginTransaction">>} THEN <<"active">>
  ELSE IF m \in CallThrows THEN <<>>
  ELSE IF m[1] = "stateless" THEN <<"unused">> ELSE <<"active">>

(* The call has ended and its method has a test of its own that runs.      *)
Tested(k) ==
  /\ log[k].result # "none"
  /\ log[k].m \notin Ignored
  /\ log[k].m[1] # "stateful"

Persisted(k) == log[k].entity # 0 /\ status[log[k].entity] = "committed"

(* Through every interleaving of callers, each method keeps or loses its   *)
(* entity, and returns or throws, as its test asserts.                     *)
OutcomeAsTested ==
  \A k \in Ids : Tested(k) =>
    /\ Persisted(k) <=> log[k].m \in EntityFound
    /\ log[k].result = "threw" <=> log[k].m \in CallThrows

Live(t) == status[t] \in {"active", "marked"}

(* A live transaction is on the thread of one call or kept in the stateful *)
(* bean, and not in two places; the only one that nobody can end any more  *)
(* is the one a removed stateful bean kept.  Threads out of a call, back   *)
(* in their pool, carry none.                                              *)
OneOwner ==
  /\ \A c \in Callers : at[c].phase = "idle" => tx[c] = 0
  /\ \A t \in Ids : Live(t) =>
       LET threads == {c \in Callers : tx[c] = t}
       IN  IF threads = {}
           THEN held = t \/ (removed /\ log[t].m[1] = "stateful")
           ELSE Cardinality(threads) = 1 /\ held # t

(* Nobody is in the stateful bean.                                         *)
StatefulIdle ==
  \A c \in Callers : call[c] # 0 => MethodOf(c)[1] # "stateful"

StatefulCalls(name) == {k \in Ids : log[k].m = <<"stateful", name>>}

(* The transaction of a stateful bean spans calls, possibly of several     *)
(* threads: its entities are committed by exactly the commitTransaction    *)
(* calls that return, one each.                                            *)
CommitsAcrossCalls ==
  StatefulIdle =>
    Cardinality({k \in StatefulCalls("beginTransaction") : Persisted(k)})
      = Cardinality({k \in StatefulCalls("commitTransaction") : log[k].result = "returned"})

(* An ended transaction stays as it ended, whatever handler, container or  *)
(* reaper comes late for it.                                               *)
EndedForGood ==
  [][\A t \in Ids : status[t] \in {"committed", "aborted"} => status'[t] = status[t]]_vars

(* ResultsBean is one for all callers.  When a caller clears it with       *)
(* nobody in a bean and one call is all that follows, it holds what the    *)
(* test of the method asserts; nothing of an earlier call shows, such as   *)
(* the timeout it set or the transaction it left.                          *)
ResultsAsTested ==
  /\ alone /\ results # Cleared
  /\ \A c \in Callers : call[c] = 0
  /\ Tested(calls)
  =>  /\ results.invoke = InvokeStatus(log[calls].m)
      /\ results.exit = ExitStatus(log[calls].m)
      /\ results.id \in {0, calls}
      /\ log[calls].m = <<"stateless", "setTimeoutCorrect">> => results.id = 0

(* Every transaction ends, the one a removed bean left behind included:    *)
(* BmtEjbTestCase.java:129 sees it neither committed nor rolled back.      *)
TransactionsEnd == \A t \in Ids : Live(t) ~> ~Live(t)

=============================================================================
