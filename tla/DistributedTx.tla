---------------------------- MODULE DistributedTx ----------------------------
(***************************************************************************)
(* ts-presentation-jta-distributed: ServletClient -> RemoteEJBClient ->    *)
(* DBBean on the client server, ServiceEJB -> TransactionEJB on the remote *)
(* server, one transaction over both.  The client's transaction manager    *)
(* coordinates two branches: its own PostgreSQL (port 5432) and the remote *)
(* server, whose subordinate transaction covers a second PostgreSQL (5433) *)
(* and the queue java:/jms/queue/example.                                  *)
(*                                                                         *)
(* A request is one HTTP call handled by one thread.  Row locks are not    *)
(* state of their own: a branch that wrote a row holds it until it ends.   *)
(* Transaction managers, databases, broker and EJB container are external. *)
(***************************************************************************)
EXTENDS Naturals, FiniteSets

CONSTANTS Requests,    \* HTTP requests, each with its thread
          Ids,         \* values of the "id" parameter
          Rows,        \* the ids that have a row in the client's simple_entity
          NoId,        \* the id of a request that has not arrived
          MaxCrashes,  \* bound: crashes of either server
          MaxDelivery  \* bound: deliveries of one message before the DLQ

ASSUME DistAssumption ==
  /\ IsFiniteSet(Requests)
  /\ Rows \subseteq Ids
  /\ NoId \notin Ids
  /\ MaxCrashes \in Nat
  /\ MaxDelivery \in Nat \ {0}

VARIABLES pc,        \* where the request's thread is
          id,        \* the id it asked to update
          tx,        \* its root transaction at the client's manager
          assoc,     \* is a transaction associated with the thread
          cb,        \* branch of the client's database
          sb,        \* branch of the remote server (subordinate transaction)
          srv,       \* the remote invocation
          seen,      \* the value em.find returned
          msg,       \* the message of the remote invocation
          attempts,  \* deliveries of that message
          cRow,      \* committed values of the client's simple_entity
          sRow,      \* committed value of row "1" on the remote server
          up, crashes

vars == <<pc, id, tx, assoc, cb, sb, srv, seen, msg, attempts, cRow, sRow, up, crashes>>
client == <<pc, id, tx, assoc, cb>>
server == <<sb, srv, seen, msg, attempts>>
stored == <<cRow, sRow>>
nodes  == <<up, crashes>>

Nodes == {"client", "server"}

PC == {"new", "lookup", "begin", "update", "exec", "await", "commit",
       "completing", "catch", "return", "done", "dead"}

TypeOK ==
  /\ pc \in [Requests -> PC]
  /\ id \in [Requests -> Ids \union {NoId}]
  /\ tx \in [Requests -> {"none", "active", "marked", "committing", "commit", "abort"}]
  /\ assoc \in [Requests -> BOOLEAN]
  /\ cb \in [Requests -> {"none", "active", "prepared", "committed", "aborted"}]
  /\ sb \in [Requests -> {"none", "active", "marked", "flushed", "prepared",
                          "committed", "aborted"}]
  /\ srv \in [Requests -> {"none", "find", "send", "returned", "threw"}]
  /\ seen \in [Requests -> Nat]
  /\ msg \in [Requests -> {"none", "pending", "lost", "queued", "consumed", "dead"}]
  /\ attempts \in [Requests -> Nat]
  /\ cRow \in [Ids -> Nat]
  /\ sRow \in Nat
  /\ up \in [Nodes -> BOOLEAN]
  /\ crashes \in 0..MaxCrashes

(* psql_init.sql inserts the row ('1', 1) into both databases.             *)
Init ==
  /\ pc = [r \in Requests |-> "new"]
  /\ id = [r \in Requests |-> NoId]
  /\ tx = [r \in Requests |-> "none"]
  /\ assoc = [r \in Requests |-> FALSE]
  /\ cb = [r \in Requests |-> "none"]
  /\ sb = [r \in Requests |-> "none"]
  /\ srv = [r \in Requests |-> "none"]
  /\ seen = [r \in Requests |-> 0]
  /\ msg = [r \in Requests |-> "none"]
  /\ attempts = [r \in Requests |-> 0]
  /\ cRow = [i \in Ids |-> 1]
  /\ sRow = 1
  /\ up = [n \in Nodes |-> TRUE]
  /\ crashes = 0

(* The thread of r, alive on the client server, goes from one statement to *)
(* the next.                                                               *)
Goto(r, from, to) ==
  /\ up["client"]
  /\ pc[r] = from
  /\ pc' = [pc EXCEPT ![r] = to]

-----------------------------------------------------------------------------
(* ServletClient and RemoteEJBClient                                       *)

(* The parameter is optional: doGet falls back to "1", one of the Ids.     *)
DoGet(r, i) ==
  /\ Goto(r, "new", "lookup")
  /\ id' = [id EXCEPT ![r] = i]
  /\ UNCHANGED <<tx, assoc, cb, server, stored, nodes>>

(* The lookup of the remote EJB is outside the try: a NamingException      *)
(* leaves call() with no transaction begun.                                *)
Lookup(r) ==
  /\ Goto(r, "lookup", "begin") \/ Goto(r, "lookup", "return")
  /\ UNCHANGED <<id, tx, assoc, cb, server, stored, nodes>>

Begin(r) ==
  /\ Goto(r, "begin", "update")
  /\ tx' = [tx EXCEPT ![r] = "active"]
  /\ assoc' = [assoc EXCEPT ![r] = TRUE]
  /\ UNCHANGED <<id, cb, server, stored, nodes>>

(* Mutant: the lock of a row outlives the transaction that took it.        *)
RowLockedForever(i) ==
  \E q \in Requests : id[q] = i /\ cb[q] \in {"active", "prepared", "committed"}

(* The client's row i is locked by the branch that updated it.             *)
RowLocked(i) == \E q \in Requests : id[q] = i /\ cb[q] \in {"active", "prepared"}

(* Mutant: DBBean uses a datasource that is not part of the transaction.   *)
UpdateNonJta(r) ==
  /\ Goto(r, "update", "exec")
  /\ tx[r] = "active"
  /\ cb' = [cb EXCEPT ![r] = "active"]
  /\ cRow' = [i \in Ids |-> IF i = id[r] /\ i \in Rows THEN cRow[i] + 1 ELSE cRow[i]]
  /\ UNCHANGED <<id, tx, assoc, server, sRow, nodes>>

(* DBBean.update (MANDATORY): the UPDATE waits for the row's lock; when no *)
(* row has the id it changes nothing and locks nothing.                    *)
Update(r) ==
  /\ Goto(r, "update", "exec")
  /\ tx[r] = "active"
  /\ id[r] \in Rows => ~RowLocked(id[r])
  /\ cb' = [cb EXCEPT ![r] = "active"]
  /\ UNCHANGED <<id, tx, assoc, server, stored, nodes>>

(* Any exception of update becomes a RuntimeException; leaving DBBean it   *)
(* marks the caller's transaction for rollback.                            *)
UpdateFails(r) ==
  /\ Goto(r, "update", "catch")
  /\ tx' = [tx EXCEPT ![r] = IF @ = "active" THEN "marked" ELSE @]
  /\ UNCHANGED <<id, assoc, cb, server, stored, nodes>>

(* service.exec() reaches the remote server, which imports the transaction *)
(* as a subordinate one and calls ServiceEJB.exec.                         *)
Exec(r) ==
  /\ Goto(r, "exec", "await")
  /\ tx[r] = "active"
  /\ up["server"]
  /\ sb' = [sb EXCEPT ![r] = "active"]
  /\ srv' = [srv EXCEPT ![r] = "find"]
  /\ UNCHANGED <<id, tx, assoc, cb, seen, msg, attempts, stored, nodes>>

(* The call does not get there, or its answer is lost while (or after) the *)
(* remote server works on it.                                              *)
ExecFails(r) ==
  /\ Goto(r, "exec", "catch") \/ Goto(r, "await", "catch")
  /\ UNCHANGED <<id, tx, assoc, cb, server, stored, nodes>>

Reply(r) ==
  /\ \/ srv[r] = "returned" /\ Goto(r, "await", "commit")
     \/ srv[r] = "threw" /\ Goto(r, "await", "catch")
  /\ UNCHANGED <<id, tx, assoc, cb, server, stored, nodes>>

(* ut.commit(): a transaction that is marked, or that its timeout already  *)
(* rolled back, ends rolled back and leaves the thread; commit throws.     *)
Commit(r) ==
  \/ /\ Goto(r, "commit", "completing")
     /\ tx[r] = "active"
     /\ tx' = [tx EXCEPT ![r] = "committing"]
     /\ UNCHANGED <<id, assoc, cb, server, stored, nodes>>
  \/ /\ Goto(r, "commit", "catch")
     /\ tx[r] = "abort"
     /\ assoc' = [assoc EXCEPT ![r] = FALSE]
     /\ UNCHANGED <<id, tx, cb, server, stored, nodes>>

(* The handler prints and swallows the exception; ut.rollback() is only a  *)
(* comment there.                                                          *)
Catch(r) ==
  /\ Goto(r, "catch", "return")
  /\ UNCHANGED <<id, tx, assoc, cb, server, stored, nodes>>

RolledBack(branch) == IF branch = "active" THEN "aborted" ELSE branch

(* Mutant: nobody rolls back the transaction call() left on the thread.    *)
ReturnKeepsTx(r) ==
  /\ Goto(r, "return", "done")
  /\ UNCHANGED <<id, tx, assoc, cb, server, stored, nodes>>

(* RemoteEJBClient is a stateless bean with bean-managed transactions: on  *)
(* return the container rolls back the transaction it finds on the thread; *)
(* doGet answers "Served at" whatever happened.                            *)
Return(r) ==
  /\ Goto(r, "return", "done")
  /\ tx' = [tx EXCEPT ![r] = IF assoc[r] THEN "abort" ELSE @]
  /\ cb' = [cb EXCEPT ![r] = IF assoc[r] THEN RolledBack(@) ELSE @]
  /\ assoc' = [assoc EXCEPT ![r] = FALSE]
  /\ UNCHANGED <<id, server, stored, nodes>>

-----------------------------------------------------------------------------
(* ServiceEJB, TransactionEJB and PrintingToConsoleLogMDB                  *)

(* Mutant: em.find sees what other transactions have only flushed.         *)
FindDirty(r) ==
  /\ up["server"]
  /\ srv[r] = "find" /\ sb[r] = "active"
  /\ srv' = [srv EXCEPT ![r] = "send"]
  /\ seen' = [seen EXCEPT ![r] =
       sRow + Cardinality({q \in Requests : sb[q] \in {"flushed", "prepared"}})]
  /\ UNCHANGED <<client, sb, msg, attempts, stored, nodes>>

(* em.find reads the committed value (READ COMMITTED, no lock);            *)
(* setValue(getValue() + 1) only changes the entity in memory.             *)
Find(r) ==
  /\ up["server"]
  /\ srv[r] = "find" /\ sb[r] = "active"
  /\ srv' = [srv EXCEPT ![r] = "send"]
  /\ seen' = [seen EXCEPT ![r] = sRow]
  /\ UNCHANGED <<client, sb, msg, attempts, stored, nodes>>

(* Mutant: java:/ConnectionFactory instead of java:/JmsXA, a session that   *)
(* is not part of the transaction.                                         *)
SendMessageNonXA(r) ==
  /\ up["server"]
  /\ srv[r] = "send" /\ sb[r] = "active"
  /\ srv' = [srv EXCEPT ![r] = "returned"]
  /\ \E m \in {"queued", "lost"} : msg' = [msg EXCEPT ![r] = m]
  /\ UNCHANGED <<client, sb, seen, attempts, stored, nodes>>

(* sendMessage: on failure the handler prints the cause's first suppressed *)
(* exception; when there is one the failure is swallowed ("lost"), the     *)
(* failure to send in a transaction that has already ended included.       *)
SendMessage(r) ==
  /\ up["server"]
  /\ srv[r] = "send"
  /\ srv' = [srv EXCEPT ![r] = "returned"]
  /\ \E m \in {"pending", "lost"} :
       /\ m = "pending" => sb[r] = "active"
       /\ msg' = [msg EXCEPT ![r] = m]
  /\ UNCHANGED <<client, sb, seen, attempts, stored, nodes>>

(* A failed find, or a handler of sendMessage that itself fails for want   *)
(* of a cause or of a suppressed exception: a RuntimeException leaves the  *)
(* bean and the subordinate transaction is marked for rollback.            *)
DoTransactionThrows(r) ==
  /\ up["server"]
  /\ srv[r] \in {"find", "send"}
  /\ srv' = [srv EXCEPT ![r] = "threw"]
  /\ sb' = [sb EXCEPT ![r] = IF @ = "active" THEN "marked" ELSE @]
  /\ UNCHANGED <<client, seen, msg, attempts, stored, nodes>>

(* onMessage prints the text; a RuntimeException puts the message back     *)
(* until its deliveries are used up.                                       *)
OnMessage(r) ==
  /\ up["server"]
  /\ msg[r] = "queued"
  /\ attempts' = [attempts EXCEPT ![r] = @ + 1]
  /\ \/ msg' = [msg EXCEPT ![r] = "consumed"]
     \/ msg' = [msg EXCEPT ![r] = IF attempts'[r] < MaxDelivery THEN "queued" ELSE "dead"]
  /\ UNCHANGED <<client, sb, srv, seen, stored, nodes>>

-----------------------------------------------------------------------------
(* External: the transaction managers, during and after ut.commit()        *)

(* Hibernate writes the entity before the remote branch prepares: its      *)
(* UPDATE waits for the row's lock.                                        *)
EntityLocked == \E q \in Requests : sb[q] \in {"flushed", "prepared"}

Flush(r) ==
  /\ up["client"] /\ up["server"]
  /\ tx[r] = "committing" /\ sb[r] = "active"
  /\ ~EntityLocked
  /\ sb' = [sb EXCEPT ![r] = "flushed"]
  /\ UNCHANGED <<client, srv, seen, msg, attempts, stored, nodes>>

PrepareClient(r) ==
  /\ up["client"]
  /\ tx[r] = "committing" /\ sb[r] = "flushed" /\ cb[r] = "active"
  /\ cb' = [cb EXCEPT ![r] = "prepared"]
  /\ UNCHANGED <<pc, id, tx, assoc, server, stored, nodes>>

PrepareServer(r) ==
  /\ up["client"] /\ up["server"]
  /\ tx[r] = "committing" /\ sb[r] = "flushed" /\ cb[r] = "prepared"
  /\ sb' = [sb EXCEPT ![r] = "prepared"]
  /\ UNCHANGED <<client, srv, seen, msg, attempts, stored, nodes>>

(* The commit record is the decision: without one, recovery aborts.        *)
LogCommit(r) ==
  /\ up["client"]
  /\ tx[r] = "committing" /\ cb[r] = "prepared" /\ sb[r] = "prepared"
  /\ tx' = [tx EXCEPT ![r] = "commit"]
  /\ UNCHANGED <<pc, id, assoc, cb, server, stored, nodes>>

(* A branch that fails before the decision: ut.commit() rolls back and     *)
(* throws.                                                                 *)
CommitFails(r) ==
  /\ Goto(r, "completing", "catch")
  /\ tx[r] = "committing"
  /\ tx' = [tx EXCEPT ![r] = "abort"]
  /\ cb' = [cb EXCEPT ![r] = "aborted"]
  /\ assoc' = [assoc EXCEPT ![r] = FALSE]
  /\ UNCHANGED <<id, server, stored, nodes>>

CommitClient(r) ==
  /\ up["client"]
  /\ tx[r] = "commit" /\ cb[r] = "prepared"
  /\ cb' = [cb EXCEPT ![r] = "committed"]
  /\ cRow' = [i \in Ids |-> IF i = id[r] /\ i \in Rows THEN cRow[i] + 1 ELSE cRow[i]]
  /\ UNCHANGED <<pc, id, tx, assoc, server, sRow, nodes>>

(* Mutant: setValue(getValue() - 1).                                       *)
CommitServerSubtracts(r) ==
  /\ up["client"] /\ up["server"]
  /\ tx[r] = "commit" /\ sb[r] = "prepared"
  /\ sb' = [sb EXCEPT ![r] = "committed"]
  /\ msg' = [msg EXCEPT ![r] = IF @ = "pending" THEN "queued" ELSE @]
  /\ sRow' = seen[r] - 1
  /\ UNCHANGED <<client, srv, seen, attempts, cRow, nodes>>

(* The flushed UPDATE set the value computed from what em.find had read.   *)
CommitServer(r) ==
  /\ up["client"] /\ up["server"]
  /\ tx[r] = "commit" /\ sb[r] = "prepared"
  /\ sb' = [sb EXCEPT ![r] = "committed"]
  /\ msg' = [msg EXCEPT ![r] = IF @ = "pending" THEN "queued" ELSE @]
  /\ sRow' = seen[r] + 1
  /\ UNCHANGED <<client, srv, seen, attempts, cRow, nodes>>

(* ut.commit() returns when both branches are committed, or leaves an      *)
(* unreachable remote branch to recovery.                                  *)
CommitReturns(r) ==
  /\ Goto(r, "completing", "return")
  /\ tx[r] = "commit" /\ cb[r] = "committed"
  /\ sb[r] = "committed" \/ ~up["server"]
  /\ assoc' = [assoc EXCEPT ![r] = FALSE]
  /\ UNCHANGED <<id, tx, cb, server, stored, nodes>>

(* The branches of the remote server that abort take their messages along. *)
AbortRemote(R) ==
  /\ sb' = [r \in Requests |-> IF r \in R THEN "aborted" ELSE sb[r]]
  /\ msg' = [r \in Requests |->
               IF r \in R /\ msg[r] = "pending" THEN "none" ELSE msg[r]]

(* The coordinator's rollback reaches the remote server: at once, or by    *)
(* recovery, which needs the coordinator for a prepared branch.            *)
RollbackServer(r) ==
  /\ up["client"] /\ up["server"]
  /\ tx[r] = "abort"
  /\ sb[r] \in {"active", "marked", "flushed", "prepared"}
  /\ AbortRemote({r})
  /\ UNCHANGED <<client, srv, seen, attempts, stored, nodes>>

(* Recovery of the client's database branch after a crash.                 *)
RollbackClient(r) ==
  /\ up["client"]
  /\ tx[r] = "abort" /\ cb[r] = "prepared"
  /\ cb' = [cb EXCEPT ![r] = "aborted"]
  /\ UNCHANGED <<pc, id, tx, assoc, server, stored, nodes>>

(* The transaction timeouts (default 300 s) of both managers.              *)
ClientTimeout(r) ==
  /\ up["client"]
  /\ tx[r] \in {"active", "marked"}
  /\ tx' = [tx EXCEPT ![r] = "abort"]
  /\ cb' = [cb EXCEPT ![r] = RolledBack(@)]
  /\ UNCHANGED <<pc, id, assoc, server, stored, nodes>>

(* Mutant: the reaper also takes branches that have promised to commit.    *)
ServerTimeoutHeuristic(r) ==
  /\ up["server"]
  /\ sb[r] \in {"active", "marked", "flushed", "prepared"}
  /\ AbortRemote({r})
  /\ UNCHANGED <<client, srv, seen, attempts, stored, nodes>>

ServerTimeout(r) ==
  /\ up["server"]
  /\ sb[r] \in {"active", "marked", "flushed"}
  /\ AbortRemote({r})
  /\ UNCHANGED <<client, srv, seen, attempts, stored, nodes>>

(* Mutant: the commit record does not survive the crash.                   *)
CrashForgetsLog ==
  /\ up["client"] /\ crashes < MaxCrashes
  /\ up' = [up EXCEPT !["client"] = FALSE]
  /\ crashes' = crashes + 1
  /\ pc' = [r \in Requests |-> IF pc[r] \in {"new", "done"} THEN pc[r] ELSE "dead"]
  /\ tx' = [r \in Requests |-> IF tx[r] = "none" THEN "none" ELSE "abort"]
  /\ assoc' = [r \in Requests |-> FALSE]
  /\ cb' = [r \in Requests |-> RolledBack(cb[r])]
  /\ UNCHANGED <<id, server, stored>>

(* A crash loses what is not prepared; a client transaction without its    *)
(* commit record is aborted.                                               *)
CrashClient ==
  /\ up["client"] /\ crashes < MaxCrashes
  /\ up' = [up EXCEPT !["client"] = FALSE]
  /\ crashes' = crashes + 1
  /\ pc' = [r \in Requests |-> IF pc[r] \in {"new", "done"} THEN pc[r] ELSE "dead"]
  /\ tx' = [r \in Requests |->
              IF tx[r] \in {"active", "marked", "committing"} THEN "abort" ELSE tx[r]]
  /\ assoc' = [r \in Requests |-> FALSE]
  /\ cb' = [r \in Requests |-> RolledBack(cb[r])]
  /\ UNCHANGED <<id, server, stored>>

CrashServer ==
  /\ up["server"] /\ crashes < MaxCrashes
  /\ up' = [up EXCEPT !["server"] = FALSE]
  /\ crashes' = crashes + 1
  /\ AbortRemote({r \in Requests : sb[r] \in {"active", "marked", "flushed"}})
  /\ srv' = [r \in Requests |-> IF srv[r] \in {"find", "send"} THEN "threw" ELSE srv[r]]
  /\ UNCHANGED <<client, seen, attempts, stored>>

Restart(n) ==
  /\ ~up[n]
  /\ up' = [up EXCEPT ![n] = TRUE]
  /\ UNCHANGED <<client, server, stored, crashes>>

-----------------------------------------------------------------------------
(* Every request was answered or died with its server, and nothing is left *)
(* in doubt or in the queue: the system waits for requests that never come.*)
Settled ==
  /\ \A r \in Requests : /\ pc[r] \in {"done", "dead"}
                         /\ cb[r] \in {"none", "committed", "aborted"}
                         /\ sb[r] \in {"none", "committed", "aborted"}
                         /\ srv[r] \notin {"find", "send"}
                         /\ msg[r] # "queued"
  /\ \A n \in Nodes : up[n]

Idle == Settled /\ UNCHANGED vars

ClientStep(r) ==
  \/ Lookup(r) \/ Begin(r) \/ Update(r) \/ UpdateFails(r) \/ Exec(r)
  \/ ExecFails(r) \/ Reply(r) \/ Commit(r) \/ Catch(r) \/ Return(r)

ServerStep(r) ==
  Find(r) \/ SendMessage(r) \/ DoTransactionThrows(r) \/ OnMessage(r)

TMStep(r) ==
  \/ Flush(r) \/ PrepareClient(r) \/ PrepareServer(r) \/ LogCommit(r)
  \/ CommitFails(r) \/ CommitClient(r) \/ CommitServer(r) \/ CommitReturns(r)
  \/ RollbackServer(r) \/ RollbackClient(r)

Next ==
  \/ \E r \in Requests, i \in Ids : DoGet(r, i)
  \/ \E r \in Requests :
       \/ ClientStep(r) \/ ServerStep(r) \/ TMStep(r)
       \/ ClientTimeout(r) \/ ServerTimeout(r)
  \/ CrashClient \/ CrashServer \/ \E n \in Nodes : Restart(n)
  \/ Idle

Spec == Init /\ [][Next]_vars

(* What a live thread is bound to do.  Waiting for a row lock is not a     *)
(* failure: update fails of itself only when its transaction has ended; a  *)
(* remote call gets there or fails.                                        *)
ClientProgress(r) ==
  \/ Lookup(r) \/ Begin(r) \/ Update(r) \/ (tx[r] # "active" /\ UpdateFails(r))
  \/ Exec(r) \/ (pc[r] = "exec" /\ ExecFails(r))
  \/ Reply(r) \/ Commit(r) \/ Catch(r) \/ Return(r)

(* Threads run, the managers complete and recover what they started, and   *)
(* a crashed server is started again.  Nothing obliges a client to send a  *)
(* request, a timeout to strike or a commit to fail without a reason.      *)
Fairness ==
  /\ \A r \in Requests :
       /\ WF_vars(ClientProgress(r)) /\ WF_vars(ServerStep(r))
       /\ WF_vars(Flush(r)) /\ WF_vars(PrepareClient(r)) /\ WF_vars(PrepareServer(r))
       /\ WF_vars(LogCommit(r)) /\ WF_vars(CommitClient(r)) /\ WF_vars(CommitServer(r))
       /\ WF_vars(CommitReturns(r)) /\ WF_vars(RollbackServer(r))
       /\ WF_vars(RollbackClient(r)) /\ WF_vars(sb[r] = "aborted" /\ CommitFails(r))
  /\ \A n \in Nodes : WF_vars(Restart(n))

FairSpec == Spec /\ Fairness

-----------------------------------------------------------------------------
(* Safety                                                                  *)

(* The update of DBBean and the work of TransactionEJB take effect both or *)
(* not at all, whatever fails, times out or crashes between them.          *)
Atomic ==
  \A r \in Requests : /\ ~(cb[r] = "committed" /\ sb[r] = "aborted")
                      /\ ~(cb[r] = "aborted" /\ sb[r] = "committed")

Committed(branch) == {r \in Requests : branch[r] = "committed"}

(* DBBean's UPDATE adds in the database: every committed request counts    *)
(* exactly once in the row it asked for.                                   *)
ClientRowExact ==
  \A i \in Rows :
    cRow[i] = 1 + Cardinality({r \in Committed(cb) : id[r] = i})

(* TransactionEJB adds in memory to what it read: concurrent requests may  *)
(* overwrite each other's increment, but the row never counts more than    *)
(* the committed requests and never misses all of them.                    *)
ServerRowBounds ==
  LET n == Cardinality(Committed(sb))
  IN  /\ sRow <= 1 + n
      /\ n > 0 => sRow >= 2

(* A message is seen by the MDB's queue only with its entity, and a        *)
(* committed entity has its message, except where sendMessage swallowed    *)
(* the failure to send it.                                                 *)
MessageWithEntity ==
  \A r \in Requests :
    /\ msg[r] \in {"queued", "consumed", "dead"} => sb[r] = "committed"
    /\ sb[r] = "committed" => msg[r] \notin {"none", "pending"}

(* A thread that has answered goes back to its pool with no transaction,   *)
(* although call() itself never rolls one back, and the request keeps no   *)
(* row locked but for a branch waiting for its decided outcome.            *)
ThreadsClean ==
  \A r \in Requests :
    pc[r] \in {"done", "dead"} =>
      /\ ~assoc[r]
      /\ tx[r] \in {"none", "commit", "abort"}
      /\ cb[r] # "active"

(* An increment is lost only to a race: when no two committed requests     *)
(* have read the same value, whatever else overlapped, crashed or was      *)
(* rolled back between them, the row counts every one.                     *)
LostOnlyToRace ==
  LET read == {seen[r] : r \in Committed(sb)}
  IN  Cardinality(read) = Cardinality(Committed(sb)) =>
        sRow = 1 + Cardinality(Committed(sb))

-----------------------------------------------------------------------------
(* Liveness                                                                *)

(* Every request whose thread does not die is answered.                    *)
Answered ==
  \A r \in Requests : pc[r] = "lookup" ~> pc[r] \in {"done", "dead"}

-----------------------------------------------------------------------------
(* Refinement: each request is a transaction of AtomicCommit over the two  *)
(* sites, decided by its commit record or by its abort.                    *)
Decision(r) == IF tx[r] \in {"commit", "abort"} THEN tx[r] ELSE "open"

AppliedAt(r) == (IF cb[r] = "committed" THEN {"client"} ELSE {})
                \union (IF sb[r] = "committed" THEN {"server"} ELSE {})

Promise == INSTANCE AtomicCommit WITH
             Tx <- Requests, Sites <- Nodes,
             decision <- [r \in Requests |-> Decision(r)],
             applied <- [r \in Requests |-> AppliedAt(r)]

(* The requests implement AtomicCommit, its liveness included: a decision  *)
(* to commit reaches both databases.                                       *)
PromiseKept == Promise!FairSpec

=============================================================================
