----------------------------- MODULE Enlistment -----------------------------
(***************************************************************************)
(* Which resources take part in the transaction of a bean method, and what *)
(* becomes of their work: MyBean.call of the servlet example (six          *)
(* resources of every kind, always rolled back), BeanToCheckEnlistment     *)
(* (the same work inside and outside a transaction),                       *)
(* BeanToCheckMessageDriven (consumes what it sends), and the two beans of *)
(* the branch qualifier test (one database twice, two databases once).     *)
(*                                                                         *)
(* A request is one call of a method by its own thread.  The transaction   *)
(* manager, the databases and the broker are external: they are modelled   *)
(* by what these beans can observe of them.                                *)
(***************************************************************************)
EXTENDS Naturals, Sequences, FiniteSets

CONSTANTS Requests,    \* calls, each with its thread
          NoRequest,   \* no message is stored in ResultsBean
          Invoked,     \* the methods that are called
          MaxCrashes,  \* bound: crashes of the application server
          MaxDelivery  \* bound: deliveries of one message before the DLQ

(* Resource managers by the way the transaction manager treats them.       *)
XA      == {"testxa", "JmsXA", "db1", "db2"}         \* two-phase commit
Last    == {"test-jta", "JmsNonXA"}                  \* one phase, at the end
Outside == {"test-non-jta", "ConnectionFactory"}     \* never enlisted
Resources == XA \union Last \union Outside

(* A transaction: the request's own, or the one of createTable called by   *)
(* runInsertionWithCreation while the request's own is suspended.          *)
Levels == {"own", "inner"}
Txs == Requests \X Levels

Insert(r) == [do |-> "insert", on |-> r]
Send(r)   == [do |-> "send", on |-> r]
Create(r) == [do |-> "create", on |-> r]

CallScript ==
  <<Insert("testxa"), Insert("test-jta"), Insert("test-non-jta"),
    Send("ConnectionFactory"), Send("JmsNonXA"), Send("JmsXA")>>
DatabaseScript == <<Insert("test-jta")>>
JmsScript == <<Send("JmsXA")>>
JoinScript == <<Insert("db1"), Insert("db1")>>
NotJoinScript == <<Insert("db1"), Insert("db2")>>
CreateJoinScript == <<Create("db1")>>
CreateBothScript == <<Create("db1"), Create("db2")>>
WithCreationScript == CreateBothScript \o NotJoinScript

(* What each method does, in its order.  requiresNewJmsWithClose is        *)
(* requiresNewJms: the second close of the connection changes nothing.     *)
Script == [call |-> CallScript,
           notSupportedDatabase |-> DatabaseScript,
           requiresNewDatabase |-> DatabaseScript,
           notSupportedJms |-> JmsScript,
           requiresNewJms |-> JmsScript,
           runInsertionJoin |-> JoinScript,
           runInsertionNotJoin |-> NotJoinScript,
           createTableJoin |-> CreateJoinScript,
           createTableNotJoin |-> CreateBothScript,
           runInsertionWithCreation |-> WithCreationScript]
Methods == DOMAIN Script

ASSUME EnlistmentAssumption ==
  /\ IsFiniteSet(Requests)
  /\ NoRequest \notin Requests
  /\ Invoked \subseteq Methods
  /\ MaxCrashes \in Nat
  /\ MaxDelivery \in Nat \ {0}

VARIABLES pc,       \* where the request's thread is
          method,   \* the method it calls
          step,     \* its next statement
          level,    \* the transaction its thread is associated with
          reply,    \* what the caller is told
          tx,       \* the transactions
          branch,   \* what each resource does in each transaction
          created,  \* the tables each transaction creates
          outside,  \* where a request's work took effect at once
          tables,   \* the databases that have the table "attempt"
          handled,  \* the message of a request: not yet, stored or in the DLQ
          attempts, \* its deliveries
          mdb,      \* whose message ResultsBean holds under "mdb"
          up, crashes

vars == <<pc, method, step, level, reply, tx, branch, created, outside, tables,
          handled, attempts, mdb, up, crashes>>
thread == <<pc, method, step, level, reply>>
jms    == <<handled, attempts, mdb>>
server == <<up, crashes>>

TypeOK ==
  /\ pc \in [Requests -> {"new", "run", "completing", "done", "dead"}]
  /\ method \in [Requests -> Methods \union {"none"}]
  /\ step \in [Requests -> Nat]
  /\ level \in [Requests -> Levels]
  /\ reply \in [Requests -> {"none", "ok", "error"}]
  /\ tx \in [Txs -> {"none", "active", "marked", "commit", "abort"}]
  /\ branch \in [Txs -> [Resources -> {"none", "active", "broken", "void", "missing",
                                       "prepared", "committed", "aborted"}]]
  /\ created \in [Txs -> SUBSET XA]
  /\ outside \in [Requests -> SUBSET Resources]
  /\ tables \in SUBSET XA
  /\ handled \in [Requests -> {"no", "stored", "dead"}]
  /\ attempts \in [Requests -> 0..MaxDelivery]
  /\ mdb \in Requests \union {NoRequest}
  /\ up \in BOOLEAN
  /\ crashes \in 0..MaxCrashes

(* The table may be left from an earlier run in either database.           *)
Init ==
  /\ pc = [q \in Requests |-> "new"]
  /\ method = [q \in Requests |-> "none"]
  /\ step = [q \in Requests |-> 1]
  /\ level = [q \in Requests |-> "own"]
  /\ reply = [q \in Requests |-> "none"]
  /\ tx = [t \in Txs |-> "none"]
  /\ branch = [t \in Txs |-> [r \in Resources |-> "none"]]
  /\ created = [t \in Txs |-> {}]
  /\ outside = [q \in Requests |-> {}]
  /\ tables \in SUBSET {"db1", "db2"}
  /\ handled = [q \in Requests |-> "no"]
  /\ attempts = [q \in Requests |-> 0]
  /\ mdb = NoRequest
  /\ up = TRUE
  /\ crashes = 0

-----------------------------------------------------------------------------
(* The methods                                                             *)

Cur(q) == <<q, level[q]>>

LastStep(q) == IF level[q] = "inner" THEN 2 ELSE Len(Script[method[q]])

Running(q) == up /\ pc[q] = "run" /\ step[q] <= LastStep(q)

Now(q) == Script[method[q]][step[q]]

InTx(m) == m \notin {"notSupportedDatabase", "notSupportedJms"}

(* Mutant: createTable is called on this and not through the EJB proxy, so *)
(* that it joins the transaction of its caller.                            *)
FirstLevelSelfCall(m) == "own"

(* thisBean.createTable is the first statement of runInsertionWithCreation.*)
FirstLevel(m) == IF m = "runInsertionWithCreation" THEN "inner" ELSE "own"

(* All methods but the NOT_SUPPORTED ones find no transaction and get one: *)
(* REQUIRES_NEW, or REQUIRED called by a servlet.                          *)
Invoke(q, m) ==
  /\ up
  /\ pc[q] = "new"
  /\ pc' = [pc EXCEPT ![q] = "run"]
  /\ method' = [method EXCEPT ![q] = m]
  /\ level' = [level EXCEPT ![q] = FirstLevel(m)]
  /\ tx' = [t \in Txs |->
              IF InTx(m) /\ t \in {<<q, "own">>, <<q, FirstLevel(m)>>}
              THEN "active" ELSE tx[t]]
  /\ UNCHANGED <<step, reply, branch, created, outside, tables, jms, server>>

(* Mutant: a datasource used in a transaction that has ended commits at    *)
(* once.                                                                   *)
AtOnceWhenEnded(q) == Now(q).on \in Outside \/ tx[Cur(q)] # "active"

(* Mutant: the unmanaged factory java:/ConnectionFactory instead of JmsXA. *)
AtOnceSend(q) == Now(q).on \in Outside \/ ~InTx(method[q]) \/ Now(q).do = "send"

(* The resource is used without a transaction: its work commits at once.   *)
AtOnce(q) == Now(q).on \in Outside \/ ~InTx(method[q])

(* CREATE TABLE waits for a transaction that creates the same table.       *)
Creating(r) ==
  \E t \in Txs : r \in created[t] /\ branch[t][r] \in {"active", "prepared"}

Waiting(q) ==
  /\ Now(q).do = "create" /\ tx[Cur(q)] = "active"
  /\ Now(q).on \notin tables /\ Creating(Now(q).on)

(* The database accepts the statement.                                     *)
Accepted(q) ==
  LET r == Now(q).on IN
  CASE Now(q).do = "create" -> r \notin tables /\ ~Creating(r)
    [] Now(q).do = "insert" /\ r \in {"db1", "db2"} -> r \in tables \/ r \in created[Cur(q)]
    [] OTHER -> TRUE

(* A statement succeeds.  getConnection enlists the resource; the second   *)
(* use of the same datasource finds the branch it already has.             *)
Work(q) ==
  LET t == Cur(q)
      r == Now(q).on
  IN
  /\ Running(q)
  /\ Accepted(q)
  /\ step' = [step EXCEPT ![q] = @ + 1]
  /\ \/ /\ AtOnce(q)
        /\ outside' = [outside EXCEPT ![q] = @ \union {r}]
        /\ UNCHANGED <<branch, created>>
     \/ /\ ~AtOnce(q)
        /\ tx[t] = "active"
        /\ branch[t][r] \in {"none", "active"}
        /\ branch' = [branch EXCEPT ![t][r] = "active"]
        /\ created' = [created EXCEPT ![t] = IF Now(q).do = "create" THEN @ \union {r} ELSE @]
        /\ UNCHANGED outside
  /\ UNCHANGED <<pc, method, level, reply, tx, tables, jms, server>>

(* Mutant: BeanToCheckEnlistment swallows what JMSUtil swallows.           *)
SwallowedSend(q) == Now(q).do \in {"send", "create"}

(* JMSUtil.sendMessage and createTable catch every Exception and go on.    *)
Swallowed(q) == Now(q).do = "create" \/ (method[q] = "call" /\ Now(q).do = "send")

(* A statement fails and nobody hears of it: no connection, a transaction  *)
(* that has ended, a second last resource that is refused, or a table that *)
(* exists.  PostgreSQL accepts nothing more in the branch of a failed      *)
(* statement.                                                              *)
FailSwallowed(q) ==
  LET t == Cur(q)
      r == Now(q).on
  IN
  /\ Running(q)
  /\ Swallowed(q) /\ ~Waiting(q)
  /\ step' = [step EXCEPT ![q] = @ + 1]
  /\ \/ branch' = branch
     \/ /\ Now(q).do = "create"
        /\ tx[t] = "active"
        /\ branch' = [branch EXCEPT ![t][r] = "broken"]
  /\ UNCHANGED <<pc, method, level, reply, tx, created, outside, tables, jms, server>>

Marked(s) == IF s = "active" THEN "marked" ELSE s

(* A statement fails: the RuntimeException leaves the bean and marks its   *)
(* transaction for rollback.                                               *)
FailThrown(q) ==
  /\ Running(q)
  /\ ~Swallowed(q)
  /\ pc' = [pc EXCEPT ![q] = "completing"]
  /\ reply' = [reply EXCEPT ![q] = "error"]
  /\ tx' = [tx EXCEPT ![Cur(q)] = Marked(@)]
  /\ UNCHANGED <<method, step, level, branch, created, outside, tables, jms, server>>

(* Mutant: MyBean.call without its last line.                              *)
EndKeepsTx(q) ==
  /\ up /\ pc[q] = "run" /\ step[q] > LastStep(q)
  /\ pc' = [pc EXCEPT ![q] = "completing"]
  /\ UNCHANGED <<method, step, level, reply, tx, branch, created, outside, tables, jms, server>>

(* The end of the method; MyBean.call ends with setRollbackOnly.           *)
End(q) ==
  /\ up /\ pc[q] = "run" /\ step[q] > LastStep(q)
  /\ pc' = [pc EXCEPT ![q] = "completing"]
  /\ tx' = [tx EXCEPT ![Cur(q)] = IF method[q] = "call" THEN Marked(@) ELSE @]
  /\ UNCHANGED <<method, step, level, reply, branch, created, outside, tables, jms, server>>

-----------------------------------------------------------------------------
(* External: the container completes the method, the transaction manager   *)
(* its transaction                                                         *)

Branches(t) == {r \in Resources : branch[t][r] # "none"}

Aborted(b) == IF b \in {"active", "broken"} THEN "aborted" ELSE b

AbortActive(T) ==
  branch' = [t \in Txs |-> IF t \in T THEN [r \in Resources |-> Aborted(branch[t][r])]
                                      ELSE branch[t]]

Completing(q) == up /\ pc[q] = "completing"

(* createTable hands control back to runInsertionWithCreation; an          *)
(* exception leaves that method too and marks its transaction.             *)
Return(q, answer) ==
  /\ reply' = [reply EXCEPT ![q] = IF @ = "error" THEN @ ELSE
                 IF level[q] = "inner" /\ answer = "ok" THEN @ ELSE answer]
  /\ pc' = [pc EXCEPT ![q] = IF level[q] = "own" THEN "done" ELSE
                             IF answer = "ok" THEN "run" ELSE "completing"]
  /\ level' = [level EXCEPT ![q] = "own"]

(* The transactions after t ended as s; the failure of an inner one marks  *)
(* the own one.                                                            *)
Ended(q, s, answer) ==
  tx' = [t \in Txs |->
           IF t = Cur(q) THEN s
           ELSE IF t = <<q, "own">> /\ answer = "error" THEN Marked(tx[t]) ELSE tx[t]]

(* Mutant: a transaction that its timeout has ended is waited for.         *)
RollbackUnlessEnded(q) ==
  LET t == Cur(q)
      answer == IF tx[t] = "abort" THEN "error" ELSE "ok"
  IN
  /\ Completing(q)
  /\ tx[t] \in {"none", "marked"}
  /\ Ended(q, IF tx[t] = "none" THEN "none" ELSE "abort", answer)
  /\ AbortActive({t})
  /\ Return(q, answer)
  /\ UNCHANGED <<method, step, created, outside, tables, jms, server>>

(* No transaction, or one that is marked or was ended by its timeout.  A   *)
(* rollback the bean asked for is no error; a timeout is.                  *)
Rollback(q) ==
  LET t == Cur(q)
      answer == IF tx[t] = "abort" THEN "error" ELSE "ok"
  IN
  /\ Completing(q)
  /\ tx[t] \in {"none", "marked", "abort"}
  /\ Ended(q, IF tx[t] = "none" THEN "none" ELSE "abort", answer)
  /\ AbortActive({t})
  /\ Return(q, answer)
  /\ UNCHANGED <<method, step, created, outside, tables, jms, server>>

(* One-phase optimisation: a single branch is committed without being      *)
(* prepared.  The COMMIT of a branch whose statement failed rolls it back  *)
(* and is no error for the driver.                                         *)
OnePhase(q) ==
  LET t == Cur(q) IN
  /\ Completing(q)
  /\ tx[t] = "active"
  /\ Cardinality(Branches(t)) <= 1
  /\ branch' = [branch EXCEPT ![t] = [r \in Resources |->
       CASE branch[t][r] = "active" -> "committed"
         [] branch[t][r] = "broken" -> "aborted"
         [] OTHER -> branch[t][r]]]
  /\ tables' = tables \union created[t]
  /\ \E answer \in {"ok"} \union (IF Branches(t) = {} THEN {} ELSE {"error"}) :
       Ended(q, "commit", answer) /\ Return(q, answer)
  /\ UNCHANGED <<method, step, created, outside, jms, server>>

(* A branch fails before the decision.                                     *)
CompletionFails(q) ==
  LET t == Cur(q) IN
  /\ Completing(q)
  /\ tx[t] = "active"
  /\ Branches(t) # {}
  /\ Ended(q, "abort", "error")
  /\ AbortActive({t})
  /\ Return(q, "error")
  /\ UNCHANGED <<method, step, created, outside, tables, jms, server>>

Voted == {"prepared", "void", "committed", "none"}

(* The XA resources prepare; a last resource has no prepare and commits,   *)
(* after all others have voted.  PostgreSQL answers the PREPARE of a       *)
(* branch whose statement failed with a silent rollback: the driver tells  *)
(* the manager that the branch is prepared, but it is void.                *)
Vote(q, r) ==
  LET t == Cur(q) IN
  /\ Completing(q)
  /\ tx[t] = "active"
  /\ Cardinality(Branches(t)) > 1
  /\ branch[t][r] \in {"active", "broken"}
  /\ r \in Last => \A x \in XA : branch[t][x] \in Voted
  /\ branch' = [branch EXCEPT ![t][r] =
       IF @ = "broken" THEN "void" ELSE IF r \in Last THEN "committed" ELSE "prepared"]
  /\ UNCHANGED <<thread, tx, created, outside, tables, jms, server>>

(* The log record is the decision, which rests on what the resources have  *)
(* answered; the thread of the call goes on with phase two.                *)
Decide(q) ==
  LET t == Cur(q) IN
  /\ Completing(q)
  /\ tx[t] = "active"
  /\ Cardinality(Branches(t)) > 1
  /\ \A r \in Resources : branch[t][r] \in Voted
  /\ tx' = [tx EXCEPT ![t] = "commit"]
  /\ UNCHANGED <<thread, branch, created, outside, tables, jms, server>>

(* Phase two, by the thread of the call or by recovery.                    *)
CommitBranch(t, r) ==
  /\ up
  /\ tx[t] = "commit" /\ branch[t][r] = "prepared"
  /\ branch' = [branch EXCEPT ![t][r] = "committed"]
  /\ tables' = tables \union (created[t] \intersect {r})
  /\ UNCHANGED <<thread, tx, created, outside, jms, server>>

(* COMMIT PREPARED of a void branch is refused, there is none: for the     *)
(* manager, which goes on with the other branches, a heuristic outcome.    *)
CommitRefused(t, r) ==
  /\ up
  /\ tx[t] = "commit" /\ branch[t][r] = "void"
  /\ branch' = [branch EXCEPT ![t][r] = "missing"]
  /\ UNCHANGED <<thread, tx, created, outside, tables, jms, server>>

(* The end of phase two: a branch whose commit got no answer is left to    *)
(* recovery, a heuristic outcome is an exception for the caller.           *)
Answer(q) ==
  LET t == Cur(q)
      answer == IF \E r \in Resources : branch[t][r] = "missing" THEN "error" ELSE "ok"
  IN
  /\ Completing(q)
  /\ tx[t] = "commit"
  /\ \A r \in Resources : branch[t][r] # "void"
  /\ Ended(q, "commit", answer)
  /\ Return(q, answer)
  /\ UNCHANGED <<method, step, branch, created, outside, tables, jms, server>>

RollbackBranch(t, r) ==
  /\ up
  /\ tx[t] = "abort" /\ branch[t][r] = "prepared"
  /\ branch' = [branch EXCEPT ![t][r] = "aborted"]
  /\ UNCHANGED <<thread, tx, created, outside, tables, jms, server>>

(* The transaction timeout, while the bean still runs.                     *)
Timeout(t) ==
  /\ up
  /\ pc[t[1]] = "run"
  /\ tx[t] = "active"
  /\ tx' = [tx EXCEPT ![t] = "abort"]
  /\ AbortActive({t})
  /\ UNCHANGED <<thread, created, outside, tables, jms, server>>

-----------------------------------------------------------------------------
(* The message-driven bean and the server                                  *)

(* The message of BeanToCheckEnlistment is in its queue.                   *)
Queued(q) ==
  /\ method[q] \in {"notSupportedJms", "requiresNewJms"}
  /\ "JmsXA" \in outside[q] \/ branch[<<q, "own">>]["JmsXA"] = "committed"

(* Mutant: a message whose delivery fails is gone.                         *)
OnMessageOnce(q) ==
  /\ up
  /\ Queued(q) /\ handled[q] = "no" /\ attempts[q] = 0
  /\ attempts' = [attempts EXCEPT ![q] = 1]
  /\ handled' \in {[handled EXCEPT ![q] = "stored"], handled}
  /\ mdb' \in {q, mdb}
  /\ UNCHANGED <<thread, tx, branch, created, outside, tables, server>>

(* onMessage stores the text.  When getText throws, or the container fails *)
(* to commit after the bean has stored it, the message comes again.        *)
OnMessage(q) ==
  /\ up
  /\ Queued(q) /\ handled[q] = "no"
  /\ attempts' = [attempts EXCEPT ![q] = @ + 1]
  /\ \/ /\ mdb' = q
        /\ handled' = [handled EXCEPT ![q] = "stored"]
     \/ /\ mdb' \in {q, mdb}
        /\ handled' = [handled EXCEPT ![q] = IF attempts'[q] < MaxDelivery THEN @ ELSE "dead"]
  /\ UNCHANGED <<thread, tx, branch, created, outside, tables, server>>

(* setUp of a test empties ResultsBean.                                    *)
Clear ==
  /\ up
  /\ mdb' = NoRequest
  /\ UNCHANGED <<thread, tx, branch, created, outside, tables, handled, attempts, server>>

(* A crash ends the threads and what is only in memory, ResultsBean        *)
(* included; without a log record a transaction is aborted.                *)
Crash ==
  /\ up /\ crashes < MaxCrashes
  /\ up' = FALSE
  /\ crashes' = crashes + 1
  /\ pc' = [q \in Requests |-> IF pc[q] \in {"new", "done"} THEN pc[q] ELSE "dead"]
  /\ tx' = [t \in Txs |-> IF tx[t] \in {"active", "marked"} THEN "abort" ELSE tx[t]]
  /\ AbortActive(Txs)
  /\ mdb' = NoRequest
  /\ UNCHANGED <<method, step, level, reply, created, outside, tables, handled, attempts>>

Restart ==
  /\ ~up
  /\ up' = TRUE
  /\ UNCHANGED <<thread, tx, branch, created, outside, tables, jms, crashes>>

-----------------------------------------------------------------------------
Thread(q) ==
  \/ Work(q) \/ FailSwallowed(q) \/ FailThrown(q) \/ End(q)
  \/ Rollback(q) \/ OnePhase(q) \/ CompletionFails(q) \/ Decide(q) \/ Answer(q)
  \/ \E r \in Resources : Vote(q, r)

(* Mutant: only what is in the log is recovered.                           *)
PhaseTwoLogged(t, r) == CommitBranch(t, r) \/ CommitRefused(t, r)

PhaseTwo(t, r) == CommitBranch(t, r) \/ CommitRefused(t, r) \/ RollbackBranch(t, r)

Next ==
  \/ \E q \in Requests, m \in Invoked : Invoke(q, m)
  \/ \E q \in Requests : Thread(q) \/ OnMessage(q)
  \/ \E t \in Txs : Timeout(t) \/ \E r \in XA : PhaseTwo(t, r)
  \/ Clear \/ Crash \/ Restart

Spec == Init /\ [][Next]_vars

(* Threads run on, the transaction manager finishes phase two and recovers,*)
(* the broker delivers, and a crashed server is started again.             *)
FairSpec ==
  /\ Spec
  /\ \A q \in Requests : WF_vars(Thread(q)) /\ WF_vars(OnMessage(q))
  /\ \A t \in Txs : WF_vars(\E r \in XA : PhaseTwo(t, r))
  /\ WF_vars(Restart)

-----------------------------------------------------------------------------
(* Properties                                                              *)

(* A transaction of which one resource is committed and another rolled     *)
(* back, whatever the manager believes of the latter.                      *)
Split(t) ==
  \E r, s \in Resources :
    branch[t][r] = "committed" /\ branch[t][s] \in {"aborted", "void", "missing"}

(* Whatever is enlisted in one transaction takes effect together through   *)
(* crashes, timeouts and failed statements, with one exception: the two    *)
(* CREATE TABLE of BeanToCheckNotJoiningBranchQualifier.createTable, which *)
(* swallows the failure of either (70-83), so that its broken branch goes  *)
(* into the commit of the other.  Such a call never returns normally, nor  *)
(* does runInsertionWithCreation around it.  The manager cannot guarantee  *)
(* this with last resources (MyBean 36-38); in this code it holds because  *)
(* the only method that mixes them with others never commits.              *)
EnlistedTogether ==
  \A t \in Txs : Split(t) =>
    /\ t[2] = "inner" \/ method[t[1]] = "createTableNotJoin"
    /\ reply[t[1]] # "ok"

(* MyBean 41-43: after a call nothing enlisted is committed, while the row *)
(* of the non-jta datasource is there even though the transaction rolled   *)
(* back.                                                                   *)
CallLeavesOnlyOutside ==
  \A q \in Requests : method[q] = "call" =>
    /\ \A r \in XA \union Last : branch[<<q, "own">>][r] # "committed" /\ r \notin outside[q]
    /\ reply[q] = "ok" => "test-non-jta" \in outside[q]

Rethrowing == Methods \ {"call", "createTableJoin", "createTableNotJoin"}

(* A caller of a method that rethrows its failures and returns normally    *)
(* can rely on all of its work: done at once, or decided for commit.       *)
OkMeansDone ==
  \A q \in Requests : reply[q] = "ok" /\ method[q] \in Rethrowing =>
    \A i \in DOMAIN Script[method[q]] :
      LET o == Script[method[q]][i] IN
      o.do # "create" =>
        \/ o.on \in outside[q]
        \/ /\ tx[<<q, "own">>] = "commit"
           /\ branch[<<q, "own">>][o.on] \in {"prepared", "committed"}

(* With two branches or more an exception tells the caller that nothing is *)
(* committed, so that a repeated call duplicates nothing.  Two cases give  *)
(* no such answer: a single branch (one-phase), where the failure of the   *)
(* only COMMIT leaves the outcome open, and createTable on two databases,  *)
(* where a commit that is refused in phase two leaves the other one done.  *)
ErrorMeansNothing ==
  \A q \in Requests :
    LET t == <<q, "own">> IN
    reply[q] = "error" /\ Cardinality(Branches(t)) > 1 =>
      \/ tx[t] # "commit" /\ \A r \in Resources : branch[t][r] # "committed"
      \/ /\ method[q] = "createTableNotJoin"
         /\ \E r \in Resources : branch[t][r] = "missing"

(* A caller can rely on either answer.                                     *)
AnswersReliable == OkMeansDone /\ ErrorMeansNothing

(* runInsertionWithCreation creates the table in a transaction of its own: *)
(* an insert never meets a branch that a failed CREATE TABLE, swallowed by *)
(* createTable, has made unusable.                                         *)
InsertsMeetNoBrokenBranch ==
  \A q \in Requests :
    pc[q] = "run" /\ step[q] <= LastStep(q) =>
      (Now(q).do = "insert" => branch[Cur(q)][Now(q).on] # "broken")

(* BeanToCheckEnlistment 39-41: with the pooled factory the message belongs*)
(* to the transaction; the message-driven bean sees no message of a        *)
(* transaction that did not commit.                                        *)
MessageFollowsTx ==
  \A q \in Requests :
    mdb = q \/ handled[q] # "no" =>
      ~InTx(method[q]) \/ tx[<<q, "own">>] = "commit"

InDoubt(t) == \E r \in XA : branch[t][r] = "prepared"

(* A prepared branch holds its locks in the database, and those that create*)
(* the same table wait for it: no transaction stays in doubt.              *)
NothingStaysInDoubt == \A t \in Txs : InDoubt(t) ~> ~InDoubt(t)

(* Every call ends, also one that waits for the table of another one: with *)
(* an answer, or with the crash of the server.                             *)
EveryCallEnds == \A q \in Requests : pc[q] = "run" ~> pc[q] \in {"done", "dead"}

(* Every message of a call that committed it is stored by the message-     *)
(* driven bean, or ends in the dead letter queue.                          *)
MessageHandled == \A q \in Requests : Queued(q) ~> handled[q] # "no"

=============================================================================
