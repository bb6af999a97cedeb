-------------------------- MODULE DistributedTxProofs --------------------------
(***************************************************************************)
(* Proofs about DistributedTx for any set of requests, any rows and any    *)
(* number of crashes.  One inductive invariant, TxInv, relates the thread, *)
(* its transaction and its two branches; MsgInv adds the message.          *)
(***************************************************************************)
EXTENDS DistributedTx, FiniteSetTheorems, TLAPS

(* Every step keeps every variable in its type.                            *)
THEOREM TypeCorrect == Spec => []TypeOK
<1>1. Init => TypeOK
  BY DistAssumption DEF Init, TypeOK, PC, Nodes
<1>2. TypeOK /\ [Next]_vars => TypeOK'
  <2> SUFFICES ASSUME TypeOK, [Next]_vars PROVE TypeOK'
    OBVIOUS
  <2>. USE DistAssumption DEF TypeOK, PC, Nodes, client, server, stored, nodes
  <2>1. ASSUME NEW r \in Requests, NEW i \in Ids, DoGet(r, i) PROVE TypeOK'
    BY <2>1 DEF DoGet, Goto
  <2>2. ASSUME NEW r \in Requests, Lookup(r) PROVE TypeOK'
    BY <2>2 DEF Lookup, Goto
  <2>3. ASSUME NEW r \in Requests, Begin(r) PROVE TypeOK'
    BY <2>3 DEF Begin, Goto
  <2>4. ASSUME NEW r \in Requests, Update(r) PROVE TypeOK'
    BY <2>4 DEF Update, Goto
  <2>5. ASSUME NEW r \in Requests, UpdateFails(r) PROVE TypeOK'
    BY <2>5 DEF UpdateFails, Goto
  <2>6. ASSUME NEW r \in Requests, Exec(r) PROVE TypeOK'
    BY <2>6 DEF Exec, Goto
  <2>7. ASSUME NEW r \in Requests, ExecFails(r) PROVE TypeOK'
    BY <2>7 DEF ExecFails, Goto
  <2>8. ASSUME NEW r \in Requests, Reply(r) PROVE TypeOK'
    BY <2>8 DEF Reply, Goto
  <2>9. ASSUME NEW r \in Requests, Commit(r) PROVE TypeOK'
    BY <2>9 DEF Commit, Goto
  <2>10. ASSUME NEW r \in Requests, Catch(r) PROVE TypeOK'
    BY <2>10 DEF Catch, Goto
  <2>11. ASSUME NEW r \in Requests, Return(r) PROVE TypeOK'
    BY <2>11 DEF Return, Goto, RolledBack
  <2>12. ASSUME NEW r \in Requests, Find(r) PROVE TypeOK'
    BY <2>12 DEF Find
  <2>13. ASSUME NEW r \in Requests, SendMessage(r) PROVE TypeOK'
    BY <2>13 DEF SendMessage
  <2>14. ASSUME NEW r \in Requests, DoTransactionThrows(r) PROVE TypeOK'
    BY <2>14 DEF DoTransactionThrows
  <2>15. ASSUME NEW r \in Requests, OnMessage(r) PROVE TypeOK'
    BY <2>15 DEF OnMessage
  <2>16. ASSUME NEW r \in Requests, Flush(r) PROVE TypeOK'
    BY <2>16 DEF Flush
  <2>17. ASSUME NEW r \in Requests, PrepareClient(r) PROVE TypeOK'
    BY <2>17 DEF PrepareClient
  <2>18. ASSUME NEW r \in Requests, PrepareServer(r) PROVE TypeOK'
    BY <2>18 DEF PrepareServer
  <2>19. ASSUME NEW r \in Requests, LogCommit(r) PROVE TypeOK'
    BY <2>19 DEF LogCommit
  <2>20. ASSUME NEW r \in Requests, CommitFails(r) PROVE TypeOK'
    BY <2>20 DEF CommitFails, Goto
  <2>21. ASSUME NEW r \in Requests, CommitClient(r) PROVE TypeOK'
    BY <2>21 DEF CommitClient
  <2>22. ASSUME NEW r \in Requests, CommitServer(r) PROVE TypeOK'
    BY <2>22 DEF CommitServer
  <2>23. ASSUME NEW r \in Requests, CommitReturns(r) PROVE TypeOK'
    BY <2>23 DEF CommitReturns, Goto
  <2>24. ASSUME NEW r \in Requests, RollbackServer(r) PROVE TypeOK'
    BY <2>24 DEF RollbackServer, AbortRemote
  <2>25. ASSUME NEW r \in Requests, RollbackClient(r) PROVE TypeOK'
    BY <2>25 DEF RollbackClient
  <2>26. ASSUME NEW r \in Requests, ClientTimeout(r) PROVE TypeOK'
    BY <2>26 DEF ClientTimeout, RolledBack
  <2>27. ASSUME NEW r \in Requests, ServerTimeout(r) PROVE TypeOK'
    BY <2>27 DEF ServerTimeout, AbortRemote
  <2>28. ASSUME CrashClient PROVE TypeOK'
    BY <2>28 DEF CrashClient, RolledBack
  <2>29. ASSUME CrashServer PROVE TypeOK'
    BY <2>29 DEF CrashServer, AbortRemote
  <2>30. ASSUME NEW n \in Nodes, Restart(n) PROVE TypeOK'
    BY <2>30 DEF Restart
  <2>31. CASE UNCHANGED vars
    BY <2>31 DEF vars
  <2>. QED
    BY <2>1, <2>2, <2>3, <2>4, <2>5, <2>6, <2>7, <2>8, <2>9, <2>10,
       <2>11, <2>12, <2>13, <2>14, <2>15, <2>16, <2>17, <2>18, <2>19, <2>20,
       <2>21, <2>22, <2>23, <2>24, <2>25, <2>26, <2>27, <2>28, <2>29, <2>30,
       <2>31
    DEF Next, ClientStep, ServerStep, TMStep, Idle
<1>. QED
  BY <1>1, <1>2, PTL DEF Spec

-----------------------------------------------------------------------------
(* Before begin() there is no transaction; a transaction on no thread is   *)
(* finished; the thread of a committing transaction is inside ut.commit(), *)
(* or has left it with the transaction off the thread.                     *)
ThreadInv ==
  \A r \in Requests :
    /\ pc[r] \in {"new", "lookup", "begin"} => tx[r] = "none" /\ cb[r] = "none"
    /\ ~assoc[r] => tx[r] \in {"none", "commit", "abort"}
    /\ tx[r] = "committing" => pc[r] = "completing"
    /\ tx[r] = "commit" => pc[r] = "completing" \/ ~assoc[r]
    /\ pc[r] \in {"done", "dead"} => ~assoc[r]

(* The branches follow the transaction: the commit record needs both       *)
(* prepared, nothing commits before it and nothing aborts after it.        *)
BranchInv ==
  \A r \in Requests :
    /\ cb[r] = "active" => tx[r] \in {"active", "marked", "committing"}
    /\ cb[r] = "committed" \/ sb[r] = "committed" => tx[r] = "commit"
    /\ tx[r] = "commit" => /\ cb[r] \in {"prepared", "committed"}
                          /\ sb[r] \in {"prepared", "committed"}

TxInv == ThreadInv /\ BranchInv

(* Every step keeps the invariant of the requests, action by action.       *)
LEMMA TxInvInductive == TypeOK /\ TxInv /\ [Next]_vars => TxInv'
<1>. SUFFICES ASSUME TypeOK, TxInv, [Next]_vars PROVE TxInv'
  OBVIOUS
<1>1. ASSUME [Next]_vars PROVE TxInv'
  <2>. USE DEF TypeOK, TxInv, ThreadInv, BranchInv, PC, Nodes, client, server, stored, nodes
  <2>1. ASSUME NEW r \in Requests, NEW i \in Ids, DoGet(r, i) PROVE TxInv'
    BY <2>1 DEF DoGet, Goto
  <2>2. ASSUME NEW r \in Requests, Lookup(r) PROVE TxInv'
    BY <2>2 DEF Lookup, Goto
  <2>3. ASSUME NEW r \in Requests, Begin(r) PROVE TxInv'
    BY <2>3 DEF Begin, Goto
  <2>4. ASSUME NEW r \in Requests, Update(r) PROVE TxInv'
    BY <2>4 DEF Update, Goto
  <2>5. ASSUME NEW r \in Requests, UpdateFails(r) PROVE TxInv'
    BY <2>5 DEF UpdateFails, Goto
  <2>6. ASSUME NEW r \in Requests, Exec(r) PROVE TxInv'
    BY <2>6 DEF Exec, Goto
  <2>7. ASSUME NEW r \in Requests, ExecFails(r) PROVE TxInv'
    BY <2>7 DEF ExecFails, Goto
  <2>8. ASSUME NEW r \in Requests, Reply(r) PROVE TxInv'
    BY <2>8 DEF Reply, Goto
  <2>9. ASSUME NEW r \in Requests, Commit(r) PROVE TxInv'
    BY <2>9 DEF Commit, Goto
  <2>10. ASSUME NEW r \in Requests, Catch(r) PROVE TxInv'
    BY <2>10 DEF Catch, Goto
  <2>11. ASSUME NEW r \in Requests, Return(r) PROVE TxInv'
    BY <2>11 DEF Return, Goto, RolledBack
  <2>12. ASSUME NEW r \in Requests, Find(r) PROVE TxInv'
    BY <2>12 DEF Find
  <2>13. ASSUME NEW r \in Requests, SendMessage(r) PROVE TxInv'
    BY <2>13 DEF SendMessage
  <2>14. ASSUME NEW r \in Requests, DoTransactionThrows(r) PROVE TxInv'
    BY <2>14 DEF DoTransactionThrows
  <2>15. ASSUME NEW r \in Requests, OnMessage(r) PROVE TxInv'
    BY <2>15 DEF OnMessage
  <2>16. ASSUME NEW r \in Requests, Flush(r) PROVE TxInv'
    BY <2>16 DEF Flush
  <2>17. ASSUME NEW r \in Requests, PrepareClient(r) PROVE TxInv'
    BY <2>17 DEF PrepareClient
  <2>18. ASSUME NEW r \in Requests, PrepareServer(r) PROVE TxInv'
    BY <2>18 DEF PrepareServer
  <2>19. ASSUME NEW r \in Requests, LogCommit(r) PROVE TxInv'
    BY <2>19 DEF LogCommit
  <2>20. ASSUME NEW r \in Requests, CommitFails(r) PROVE TxInv'
    BY <2>20 DEF CommitFails, Goto
  <2>21. ASSUME NEW r \in Requests, CommitClient(r) PROVE TxInv'
    BY <2>21 DEF CommitClient
  <2>22. ASSUME NEW r \in Requests, CommitServer(r) PROVE TxInv'
    BY <2>22 DEF CommitServer
  <2>23. ASSUME NEW r \in Requests, CommitReturns(r) PROVE TxInv'
    BY <2>23 DEF CommitReturns, Goto
  <2>24. ASSUME NEW r \in Requests, RollbackServer(r) PROVE TxInv'
    BY <2>24 DEF RollbackServer, AbortRemote
  <2>25. ASSUME NEW r \in Requests, RollbackClient(r) PROVE TxInv'
    BY <2>25 DEF RollbackClient
  <2>26. ASSUME NEW r \in Requests, ClientTimeout(r) PROVE TxInv'
    BY <2>26 DEF ClientTimeout, RolledBack
  <2>27. ASSUME NEW r \in Requests, ServerTimeout(r) PROVE TxInv'
    BY <2>27 DEF ServerTimeout, AbortRemote
  <2>28. ASSUME CrashClient PROVE TxInv'
    BY <2>28 DEF CrashClient, RolledBack
  <2>29. ASSUME CrashServer PROVE TxInv'
    BY <2>29 DEF CrashServer, AbortRemote
  <2>30. ASSUME NEW n \in Nodes, Restart(n) PROVE TxInv'
    BY <2>30 DEF Restart
  <2>31. CASE UNCHANGED vars
    BY <2>31 DEF vars
  <2>. QED
    BY <2>1, <2>2, <2>3, <2>4, <2>5, <2>6, <2>7, <2>8, <2>9, <2>10,
       <2>11, <2>12, <2>13, <2>14, <2>15, <2>16, <2>17, <2>18, <2>19, <2>20,
       <2>21, <2>22, <2>23, <2>24, <2>25, <2>26, <2>27, <2>28, <2>29, <2>30,
       <2>31
    DEF Next, ClientStep, ServerStep, TMStep, Idle
<1>. QED
  BY <1>1

(* The phases of a request and the states of its two transactions and      *)
(* branches belong together, in every state of every execution.            *)
THEOREM TxInvariance == Spec => []TxInv
<1>1. Init => TxInv
  BY DEF Init, TxInv, ThreadInv, BranchInv
<1>. QED
  BY <1>1, TxInvInductive, TypeCorrect, PTL DEF Spec

(* No request ever has one database committed and the other rolled back.   *)
THEOREM AtomicityHolds == Spec => []Atomic
<1>1. TxInv => Atomic
  BY DEF TxInv, BranchInv, Atomic
<1>. QED
  BY <1>1, TxInvariance, PTL

(* No thread goes back to its pool with a transaction or a row lock of an  *)
(* undecided one.                                                          *)
THEOREM ThreadsCleanHolds == Spec => []ThreadsClean
<1>1. TxInv => ThreadsClean
  BY DEF TxInv, ThreadInv, BranchInv, ThreadsClean
<1>. QED
  BY <1>1, TxInvariance, PTL

-----------------------------------------------------------------------------
(* A branch that was flushed has its remote call returned, hence its       *)
(* message sent or its failure swallowed; only a committed branch has a    *)
(* message in the queue or beyond.                                         *)
MsgInv ==
  \A r \in Requests :
    /\ pc[r] \in {"commit", "completing"} => srv[r] = "returned"
    /\ sb[r] \in {"flushed", "prepared", "committed"} => srv[r] = "returned"
    /\ srv[r] = "returned" /\ sb[r] # "aborted" => msg[r] # "none"
    /\ msg[r] \in {"queued", "consumed", "dead"} => sb[r] = "committed"
    /\ sb[r] = "committed" => msg[r] # "pending"

(* Every step keeps the invariant of the messages, action by action.       *)
LEMMA MsgInvInductive == TypeOK /\ TxInv /\ MsgInv /\ [Next]_vars => MsgInv'
<1>. SUFFICES ASSUME TypeOK, TxInv, MsgInv, [Next]_vars PROVE MsgInv'
  OBVIOUS
<1>1. ASSUME [Next]_vars PROVE MsgInv'
  <2>. USE DEF TypeOK, TxInv, ThreadInv, BranchInv, MsgInv, PC, Nodes,
               client, server, stored, nodes
  <2>1. ASSUME NEW r \in Requests, NEW i \in Ids, DoGet(r, i) PROVE MsgInv'
    BY <2>1 DEF DoGet, Goto
  <2>2. ASSUME NEW r \in Requests, Lookup(r) PROVE MsgInv'
    BY <2>2 DEF Lookup, Goto
  <2>3. ASSUME NEW r \in Requests, Begin(r) PROVE MsgInv'
    BY <2>3 DEF Begin, Goto
  <2>4. ASSUME NEW r \in Requests, Update(r) PROVE MsgInv'
    BY <2>4 DEF Update, Goto
  <2>5. ASSUME NEW r \in Requests, UpdateFails(r) PROVE MsgInv'
    BY <2>5 DEF UpdateFails, Goto
  <2>6. ASSUME NEW r \in Requests, Exec(r) PROVE MsgInv'
    BY <2>6 DEF Exec, Goto
  <2>7. ASSUME NEW r \in Requests, ExecFails(r) PROVE MsgInv'
    BY <2>7 DEF ExecFails, Goto
  <2>8. ASSUME NEW r \in Requests, Reply(r) PROVE MsgInv'
    BY <2>8 DEF Reply, Goto
  <2>9. ASSUME NEW r \in Requests, Commit(r) PROVE MsgInv'
    BY <2>9 DEF Commit, Goto
  <2>10. ASSUME NEW r \in Requests, Catch(r) PROVE MsgInv'
    BY <2>10 DEF Catch, Goto
  <2>11. ASSUME NEW r \in Requests, Return(r) PROVE MsgInv'
    BY <2>11 DEF Return, Goto, RolledBack
  <2>12. ASSUME NEW r \in Requests, Find(r) PROVE MsgInv'
    BY <2>12 DEF Find
  <2>13. ASSUME NEW r \in Requests, SendMessage(r) PROVE MsgInv'
    BY <2>13 DEF SendMessage
  <2>14. ASSUME NEW r \in Requests, DoTransactionThrows(r) PROVE MsgInv'
    BY <2>14 DEF DoTransactionThrows
  <2>15. ASSUME NEW r \in Requests, OnMessage(r) PROVE MsgInv'
    BY <2>15 DEF OnMessage
  <2>16. ASSUME NEW r \in Requests, Flush(r) PROVE MsgInv'
    BY <2>16 DEF Flush
  <2>17. ASSUME NEW r \in Requests, PrepareClient(r) PROVE MsgInv'
    BY <2>17 DEF PrepareClient
  <2>18. ASSUME NEW r \in Requests, PrepareServer(r) PROVE MsgInv'
    BY <2>18 DEF PrepareServer
  <2>19. ASSUME NEW r \in Requests, LogCommit(r) PROVE MsgInv'
    BY <2>19 DEF LogCommit
  <2>20. ASSUME NEW r \in Requests, CommitFails(r) PROVE MsgInv'
    BY <2>20 DEF CommitFails, Goto
  <2>21. ASSUME NEW r \in Requests, CommitClient(r) PROVE MsgInv'
    BY <2>21 DEF CommitClient
  <2>22. ASSUME NEW r \in Requests, CommitServer(r) PROVE MsgInv'
    BY <2>22 DEF CommitServer
  <2>23. ASSUME NEW r \in Requests, CommitReturns(r) PROVE MsgInv'
    BY <2>23 DEF CommitReturns, Goto
  <2>24. ASSUME NEW r \in Requests, RollbackServer(r) PROVE MsgInv'
    BY <2>24 DEF RollbackServer, AbortRemote
  <2>25. ASSUME NEW r \in Requests, RollbackClient(r) PROVE MsgInv'
    BY <2>25 DEF RollbackClient
  <2>26. ASSUME NEW r \in Requests, ClientTimeout(r) PROVE MsgInv'
    BY <2>26 DEF ClientTimeout, RolledBack
  <2>27. ASSUME NEW r \in Requests, ServerTimeout(r) PROVE MsgInv'
    BY <2>27 DEF ServerTimeout, AbortRemote
  <2>28. ASSUME CrashClient PROVE MsgInv'
    BY <2>28 DEF CrashClient, RolledBack
  <2>29. ASSUME CrashServer PROVE MsgInv'
    BY <2>29 DEF CrashServer, AbortRemote
  <2>30. ASSUME NEW n \in Nodes, Restart(n) PROVE MsgInv'
    BY <2>30 DEF Restart
  <2>31. CASE UNCHANGED vars
    BY <2>31 DEF vars
  <2>. QED
    BY <2>1, <2>2, <2>3, <2>4, <2>5, <2>6, <2>7, <2>8, <2>9, <2>10,
       <2>11, <2>12, <2>13, <2>14, <2>15, <2>16, <2>17, <2>18, <2>19, <2>20,
       <2>21, <2>22, <2>23, <2>24, <2>25, <2>26, <2>27, <2>28, <2>29, <2>30,
       <2>31
    DEF Next, ClientStep, ServerStep, TMStep, Idle
<1>. QED
  BY <1>1

(* What is in the queue belongs to the state of the branch that sent it.   *)
THEOREM MsgInvariance == Spec => []MsgInv
<1>1. Init => MsgInv
  BY DEF Init, MsgInv
<1>. QED
  BY <1>1, MsgInvInductive, TxInvariance, TypeCorrect, PTL DEF Spec

(* The queue never shows a message whose entity did not commit, and only   *)
(* a swallowed send failure leaves a committed entity without one.         *)
THEOREM MessageWithEntityHolds == Spec => []MessageWithEntity
<1>1. MsgInv => MessageWithEntity
  BY DEF MsgInv, MessageWithEntity
<1>. QED
  BY <1>1, MsgInvariance, PTL

-----------------------------------------------------------------------------
(* The committed requests of row i at the client.                          *)
CommittedFor(i) == {r \in Committed(cb) : id[r] = i}

(* The committed requests of a row can be counted.                         *)
LEMMA CommittedForFinite == \A i \in Rows : IsFiniteSet(CommittedFor(i))
  BY DistAssumption, FS_Subset DEF CommittedFor, Committed

(* No step but CommitClient changes what is committed, or for which row.   *)
LEMMA CommittedStable ==
  ASSUME TypeOK, TxInv, [Next]_vars, \A r \in Requests : ~CommitClient(r)
  PROVE  /\ UNCHANGED cRow
         /\ \A q \in Requests :
              /\ cb'[q] = "committed" <=> cb[q] = "committed"
              /\ cb[q] = "committed" => id'[q] = id[q]
<1>. DEFINE Same == /\ UNCHANGED cRow
                   /\ \A q \in Requests :
                        /\ cb'[q] = "committed" <=> cb[q] = "committed"
                        /\ cb[q] = "committed" => id'[q] = id[q]
<1>1. Same
  <2>. USE DEF TypeOK, TxInv, ThreadInv, BranchInv, PC, Nodes, client, server, stored, nodes
  <2>1. ASSUME NEW r \in Requests, NEW i \in Ids, DoGet(r, i) PROVE Same
    BY <2>1 DEF DoGet, Goto
  <2>2. ASSUME NEW r \in Requests, Lookup(r) PROVE Same
    BY <2>2 DEF Lookup, Goto
  <2>3. ASSUME NEW r \in Requests, Begin(r) PROVE Same
    BY <2>3 DEF Begin, Goto
  <2>4. ASSUME NEW r \in Requests, Update(r) PROVE Same
    BY <2>4 DEF Update, Goto
  <2>5. ASSUME NEW r \in Requests, UpdateFails(r) PROVE Same
    BY <2>5 DEF UpdateFails, Goto
  <2>6. ASSUME NEW r \in Requests, Exec(r) PROVE Same
    BY <2>6 DEF Exec, Goto
  <2>7. ASSUME NEW r \in Requests, ExecFails(r) PROVE Same
    BY <2>7 DEF ExecFails, Goto
  <2>8. ASSUME NEW r \in Requests, Reply(r) PROVE Same
    BY <2>8 DEF Reply, Goto
  <2>9. ASSUME NEW r \in Requests, Commit(r) PROVE Same
    BY <2>9 DEF Commit, Goto
  <2>10. ASSUME NEW r \in Requests, Catch(r) PROVE Same
    BY <2>10 DEF Catch, Goto
  <2>11. ASSUME NEW r \in Requests, Return(r) PROVE Same
    BY <2>11 DEF Return, Goto, RolledBack
  <2>12. ASSUME NEW r \in Requests, Find(r) PROVE Same
    BY <2>12 DEF Find
  <2>13. ASSUME NEW r \in Requests, SendMessage(r) PROVE Same
    BY <2>13 DEF SendMessage
  <2>14. ASSUME NEW r \in Requests, DoTransactionThrows(r) PROVE Same
    BY <2>14 DEF DoTransactionThrows
  <2>15. ASSUME NEW r \in Requests, OnMessage(r) PROVE Same
    BY <2>15 DEF OnMessage
  <2>16. ASSUME NEW r \in Requests, Flush(r) PROVE Same
    BY <2>16 DEF Flush
  <2>17. ASSUME NEW r \in Requests, PrepareClient(r) PROVE Same
    BY <2>17 DEF PrepareClient
  <2>18. ASSUME NEW r \in Requests, PrepareServer(r) PROVE Same
    BY <2>18 DEF PrepareServer
  <2>19. ASSUME NEW r \in Requests, LogCommit(r) PROVE Same
    BY <2>19 DEF LogCommit
  <2>20. ASSUME NEW r \in Requests, CommitFails(r) PROVE Same
    BY <2>20 DEF CommitFails, Goto
  <2>21. ASSUME NEW r \in Requests, CommitClient(r) PROVE Same
    BY <2>21
  <2>22. ASSUME NEW r \in Requests, CommitServer(r) PROVE Same
    BY <2>22 DEF CommitServer
  <2>23. ASSUME NEW r \in Requests, CommitReturns(r) PROVE Same
    BY <2>23 DEF CommitReturns, Goto
  <2>24. ASSUME NEW r \in Requests, RollbackServer(r) PROVE Same
    BY <2>24 DEF RollbackServer, AbortRemote
  <2>25. ASSUME NEW r \in Requests, RollbackClient(r) PROVE Same
    BY <2>25 DEF RollbackClient
  <2>26. ASSUME NEW r \in Requests, ClientTimeout(r) PROVE Same
    BY <2>26 DEF ClientTimeout, RolledBack
  <2>27. ASSUME NEW r \in Requests, ServerTimeout(r) PROVE Same
    BY <2>27 DEF ServerTimeout, AbortRemote
  <2>28. ASSUME CrashClient PROVE Same
    BY <2>28 DEF CrashClient, RolledBack
  <2>29. ASSUME CrashServer PROVE Same
    BY <2>29 DEF CrashServer, AbortRemote
  <2>30. ASSUME NEW n \in Nodes, Restart(n) PROVE Same
    BY <2>30 DEF Restart
  <2>31. CASE UNCHANGED vars
    BY <2>31 DEF vars
  <2>. QED
    BY <2>1, <2>2, <2>3, <2>4, <2>5, <2>6, <2>7, <2>8, <2>9, <2>10,
       <2>11, <2>12, <2>13, <2>14, <2>15, <2>16, <2>17, <2>18, <2>19, <2>20,
       <2>21, <2>22, <2>23, <2>24, <2>25, <2>26, <2>27, <2>28, <2>29, <2>30,
       <2>31
    DEF Next, ClientStep, ServerStep, TMStep, Idle
<1>. QED
  BY <1>1

(* Every step keeps the count of each row of the client: only a commit     *)
(* raises either side, and by one.                                         *)
LEMMA ClientRowInductive ==
  ASSUME TypeOK, TxInv, ClientRowExact, [Next]_vars
  PROVE  ClientRowExact'
<1>1. CASE \A r \in Requests : ~CommitClient(r)
  <2>0. /\ UNCHANGED cRow
        /\ \A q \in Requests :
             /\ cb'[q] = "committed" <=> cb[q] = "committed"
             /\ cb[q] = "committed" => id'[q] = id[q]
    BY <1>1, CommittedStable
  <2>1. ASSUME NEW i \in Rows PROVE CommittedFor(i)' = CommittedFor(i)
    <3>1. CommittedFor(i) = {q \in Requests : cb[q] = "committed" /\ id[q] = i}
      BY DEF CommittedFor, Committed
    <3>2. CommittedFor(i)' = {q \in Requests : cb'[q] = "committed" /\ id'[q] = i}
      BY DEF CommittedFor, Committed
    <3>. QED
      BY <2>0, <3>1, <3>2
  <2>. QED
    BY <2>0, <2>1 DEF ClientRowExact, CommittedFor
<1>2. ASSUME NEW r \in Requests, CommitClient(r)
      PROVE  ClientRowExact'
  <2>. SUFFICES ASSUME NEW i \in Rows
                PROVE  cRow'[i] = 1 + Cardinality(CommittedFor(i)')
    BY DEF ClientRowExact, CommittedFor
  <2>0. i \in Ids /\ cRow[i] = 1 + Cardinality(CommittedFor(i))
    BY DistAssumption DEF ClientRowExact, CommittedFor
  <2>1. CASE id[r] = i
    <3>1. CommittedFor(i)' = CommittedFor(i) \union {r} /\ r \notin CommittedFor(i)
      BY <1>2, <2>1 DEF CommitClient, CommittedFor, Committed, TypeOK
    <3>2. cRow'[i] = cRow[i] + 1
      BY <1>2, <2>0, <2>1 DEF CommitClient
    <3>3. Cardinality(CommittedFor(i)') = Cardinality(CommittedFor(i)) + 1
      BY <3>1, CommittedForFinite, FS_AddElement
    <3>4. Cardinality(CommittedFor(i)) \in Nat
      BY CommittedForFinite, FS_CardinalityType
    <3>. QED
      BY <2>0, <3>2, <3>3, <3>4
  <2>2. CASE id[r] # i
    <3>1. CommittedFor(i)' = CommittedFor(i)
      BY <1>2, <2>2 DEF CommitClient, CommittedFor, Committed, TypeOK
    <3>2. cRow'[i] = cRow[i]
      BY <1>2, <2>0, <2>2 DEF CommitClient, TypeOK
    <3>. QED
      BY <2>0, <3>1, <3>2
  <2>. QED
    BY <2>1, <2>2
<1>. QED
  BY <1>1, <1>2

(* DBBean's counters count the committed requests of their row exactly.    *)
THEOREM ClientRowExactHolds == Spec => []ClientRowExact
<1>1. Init => ClientRowExact
  <2>. SUFFICES ASSUME Init, NEW i \in Rows
                PROVE  cRow[i] = 1 + Cardinality(CommittedFor(i))
    BY DEF ClientRowExact, CommittedFor
  <2>1. CommittedFor(i) = {}
    BY DEF Init, CommittedFor, Committed
  <2>. QED
    BY <2>1, FS_EmptySet, DistAssumption DEF Init
<1>2. TypeOK /\ TxInv /\ ClientRowExact /\ [Next]_vars => ClientRowExact'
  BY ClientRowInductive
<1>. QED
  BY <1>1, <1>2, TypeCorrect, TxInvariance, PTL DEF Spec

-----------------------------------------------------------------------------
(* The invocation of r has read row "1" and not failed since.              *)
Read(r) == srv[r] \in {"send", "returned"}

(* What an invocation read was within the bounds when it read it, and the  *)
(* bounds only widen.                                                      *)
ReadInv ==
  LET n == Cardinality(Committed(sb))
  IN  /\ sRow \in 1..(1 + n)
      /\ n > 0 => sRow >= 2
      /\ \A r \in Requests : Read(r) => seen[r] \in 1..(1 + n)

(* The commits of the server can be counted.                               *)
LEMMA CommittedServerFinite ==
  IsFiniteSet(Committed(sb)) /\ Cardinality(Committed(sb)) \in Nat
<1>1. IsFiniteSet(Committed(sb))
  BY DistAssumption, FS_Subset DEF Committed
<1>. QED
  BY <1>1, FS_CardinalityType

(* No step but CommitServer changes what is committed on the remote        *)
(* server, and what is read is what is stored.                             *)
LEMMA CommittedServerStable ==
  ASSUME TypeOK, TxInv, MsgInv, [Next]_vars, \A r \in Requests : ~CommitServer(r)
  PROVE  /\ UNCHANGED sRow
         /\ \A q \in Requests :
              /\ sb'[q] = "committed" <=> sb[q] = "committed"
              /\ Read(q)' => (Read(q) /\ seen'[q] = seen[q]) \/ seen'[q] = sRow
              /\ sb[q] = "committed" => seen'[q] = seen[q]
<1>. DEFINE Same == /\ UNCHANGED sRow
                   /\ \A q \in Requests :
                        /\ sb'[q] = "committed" <=> sb[q] = "committed"
                        /\ Read(q)' => (Read(q) /\ seen'[q] = seen[q]) \/ seen'[q] = sRow
                        /\ sb[q] = "committed" => seen'[q] = seen[q]
<1>1. Same
  <2>. USE DEF TypeOK, TxInv, ThreadInv, BranchInv, MsgInv, Read, PC, Nodes,
               client, server, stored, nodes
  <2>1. ASSUME NEW r \in Requests, NEW i \in Ids, DoGet(r, i) PROVE Same
    BY <2>1 DEF DoGet, Goto
  <2>2. ASSUME NEW r \in Requests, Lookup(r) PROVE Same
    BY <2>2 DEF Lookup, Goto
  <2>3. ASSUME NEW r \in Requests, Begin(r) PROVE Same
    BY <2>3 DEF Begin, Goto
  <2>4. ASSUME NEW r \in Requests, Update(r) PROVE Same
    BY <2>4 DEF Update, Goto
  <2>5. ASSUME NEW r \in Requests, UpdateFails(r) PROVE Same
    BY <2>5 DEF UpdateFails, Goto
  <2>6. ASSUME NEW r \in Requests, Exec(r) PROVE Same
    BY <2>6 DEF Exec, Goto
  <2>7. ASSUME NEW r \in Requests, ExecFails(r) PROVE Same
    BY <2>7 DEF ExecFails, Goto
  <2>8. ASSUME NEW r \in Requests, Reply(r) PROVE Same
    BY <2>8 DEF Reply, Goto
  <2>9. ASSUME NEW r \in Requests, Commit(r) PROVE Same
    BY <2>9 DEF Commit, Goto
  <2>10. ASSUME NEW r \in Requests, Catch(r) PROVE Same
    BY <2>10 DEF Catch, Goto
  <2>11. ASSUME NEW r \in Requests, Return(r) PROVE Same
    BY <2>11 DEF Return, Goto, RolledBack
  <2>12. ASSUME NEW r \in Requests, Find(r) PROVE Same
    BY <2>12 DEF Find
  <2>13. ASSUME NEW r \in Requests, SendMessage(r) PROVE Same
    BY <2>13 DEF SendMessage
  <2>14. ASSUME NEW r \in Requests, DoTransactionThrows(r) PROVE Same
    BY <2>14 DEF DoTransactionThrows
  <2>15. ASSUME NEW r \in Requests, OnMessage(r) PROVE Same
    BY <2>15 DEF OnMessage
  <2>16. ASSUME NEW r \in Requests, Flush(r) PROVE Same
    BY <2>16 DEF Flush
  <2>17. ASSUME NEW r \in Requests, PrepareClient(r) PROVE Same
    BY <2>17 DEF PrepareClient
  <2>18. ASSUME NEW r \in Requests, PrepareServer(r) PROVE Same
    BY <2>18 DEF PrepareServer
  <2>19. ASSUME NEW r \in Requests, LogCommit(r) PROVE Same
    BY <2>19 DEF LogCommit
  <2>20. ASSUME NEW r \in Requests, CommitFails(r) PROVE Same
    BY <2>20 DEF CommitFails, Goto
  <2>21. ASSUME NEW r \in Requests, CommitClient(r) PROVE Same
    BY <2>21 DEF CommitClient
  <2>22. ASSUME NEW r \in Requests, CommitServer(r) PROVE Same
    BY <2>22
  <2>23. ASSUME NEW r \in Requests, CommitReturns(r) PROVE Same
    BY <2>23 DEF CommitReturns, Goto
  <2>24. ASSUME NEW r \in Requests, RollbackServer(r) PROVE Same
    BY <2>24 DEF RollbackServer, AbortRemote
  <2>25. ASSUME NEW r \in Requests, RollbackClient(r) PROVE Same
    BY <2>25 DEF RollbackClient
  <2>26. ASSUME NEW r \in Requests, ClientTimeout(r) PROVE Same
    BY <2>26 DEF ClientTimeout, RolledBack
  <2>27. ASSUME NEW r \in Requests, ServerTimeout(r) PROVE Same
    BY <2>27 DEF ServerTimeout, AbortRemote
  <2>28. ASSUME CrashClient PROVE Same
    BY <2>28 DEF CrashClient, RolledBack
  <2>29. ASSUME CrashServer PROVE Same
    BY <2>29 DEF CrashServer, AbortRemote
  <2>30. ASSUME NEW n \in Nodes, Restart(n) PROVE Same
    BY <2>30 DEF Restart
  <2>31. CASE UNCHANGED vars
    BY <2>31 DEF vars
  <2>. QED
    BY <2>1, <2>2, <2>3, <2>4, <2>5, <2>6, <2>7, <2>8, <2>9, <2>10,
       <2>11, <2>12, <2>13, <2>14, <2>15, <2>16, <2>17, <2>18, <2>19, <2>20,
       <2>21, <2>22, <2>23, <2>24, <2>25, <2>26, <2>27, <2>28, <2>29, <2>30,
       <2>31
    DEF Next, ClientStep, ServerStep, TMStep, Idle
<1>. QED
  BY <1>1

(* Every step keeps the invariant of the values read from the remote row.  *)
LEMMA ReadInvInductive ==
  ASSUME TypeOK, TxInv, MsgInv, ReadInv, [Next]_vars
  PROVE  ReadInv'
<1>1. CASE \A r \in Requests : ~CommitServer(r)
  <2>1. /\ UNCHANGED sRow
        /\ \A q \in Requests :
             /\ sb'[q] = "committed" <=> sb[q] = "committed"
             /\ Read(q)' => (Read(q) /\ seen'[q] = seen[q]) \/ seen'[q] = sRow
    BY <1>1, CommittedServerStable
  <2>2. Committed(sb)' = Committed(sb)
    BY <2>1 DEF Committed
  <2>. QED
    BY <2>1, <2>2 DEF ReadInv
<1>2. ASSUME NEW r \in Requests, CommitServer(r)
      PROVE  ReadInv'
  <2>. DEFINE n == Cardinality(Committed(sb))
  <2>1. n \in Nat
    BY CommittedServerFinite
  <2>2. Committed(sb)' = Committed(sb) \union {r} /\ r \notin Committed(sb)
    BY <1>2 DEF CommitServer, Committed, TypeOK
  <2>3. Cardinality(Committed(sb)') = n + 1
    BY <2>2, CommittedServerFinite, FS_AddElement
  <2>4. Read(r)
    BY <1>2 DEF CommitServer, MsgInv, Read
  <2>5. seen[r] \in 1..(1 + n)
    BY <2>4 DEF ReadInv
  <2>6. sRow' = seen[r] + 1 /\ UNCHANGED <<srv, seen>>
    BY <1>2 DEF CommitServer
  <2>7. sRow' \in 1..(1 + (n + 1)) /\ sRow' >= 2
    BY <2>1, <2>5, <2>6
  <2>8. ASSUME NEW q \in Requests, Read(q)' PROVE seen'[q] \in 1..(1 + (n + 1))
    <3>1. seen[q] \in 1..(1 + n)
      BY <2>6, <2>8 DEF ReadInv, Read
    <3>. QED
      BY <2>1, <2>6, <3>1
  <2>. QED
    BY <2>3, <2>7, <2>8 DEF ReadInv
<1>. QED
  BY <1>1, <1>2

(* Every state is within the bounds.                                       *)
THEOREM ReadInvariance == Spec => []ReadInv
<1>1. Init => ReadInv
  <2>. SUFFICES ASSUME Init PROVE ReadInv
    OBVIOUS
  <2>1. Committed(sb) = {}
    BY DEF Init, Committed
  <2>2. Cardinality(Committed(sb)) = 0
    BY <2>1, FS_EmptySet
  <2>. QED
    BY <2>2 DEF Init, ReadInv, Read
<1>2. TypeOK /\ TxInv /\ MsgInv /\ ReadInv /\ [Next]_vars => ReadInv'
  BY ReadInvInductive
<1>. QED
  BY <1>1, <1>2, TypeCorrect, TxInvariance, MsgInvariance, PTL DEF Spec

(* However the increments of TransactionEJB overwrite each other, the row  *)
(* never counts more than was committed and keeps at least one of them.    *)
THEOREM ServerRowBoundsHolds == Spec => []ServerRowBounds
<1>1. ReadInv => ServerRowBounds
  BY CommittedServerFinite DEF ReadInv, ServerRowBounds
<1>. QED
  BY <1>1, ReadInvariance, PTL

-----------------------------------------------------------------------------
(* As many values as elements at most: the values of f over a finite set.  *)
LEMMA ImageBound ==
  ASSUME NEW S, IsFiniteSet(S), NEW f
  PROVE  LET T == {f[x] : x \in S}
         IN  /\ IsFiniteSet(T)
             /\ Cardinality(T) <= Cardinality(S)
<1>. DEFINE T == {f[x] : x \in S}
            g == [x \in S |-> f[x]]
<1>1. g \in Surjection(S, T)
  BY DEF Surjection
<1>. QED
  BY <1>1, FS_Surjection

(* The values that committed invocations have read.                        *)
ReadValues == {seen[r] : r \in Committed(sb)}

(* The n-th commit wrote at most n + 1: it had read one of the values 1..n.*)
RaceInv == ReadValues \subseteq 1..Cardinality(Committed(sb))

(* There are at most as many values read as commits of the server.         *)
LEMMA ReadValuesBound ==
  /\ IsFiniteSet(ReadValues)
  /\ Cardinality(ReadValues) \in Nat
  /\ Cardinality(ReadValues) <= Cardinality(Committed(sb))
  BY CommittedServerFinite, ImageBound, FS_CardinalityType DEF ReadValues

(* After the commit of r there are n + 1 values for n + 1 commits only if  *)
(* the n before it were distinct and r has read another one; of 1..n + 1   *)
(* just the last is left for it.                                           *)
LEMMA RaceInductive ==
  ASSUME TypeOK, TxInv, MsgInv, ReadInv, RaceInv, LostOnlyToRace, [Next]_vars
  PROVE  RaceInv' /\ LostOnlyToRace'
<1>1. CASE \A r \in Requests : ~CommitServer(r)
  <2>1. /\ UNCHANGED sRow
        /\ \A q \in Requests :
             /\ sb'[q] = "committed" <=> sb[q] = "committed"
             /\ sb[q] = "committed" => seen'[q] = seen[q]
    BY <1>1, CommittedServerStable
  <2>2. Committed(sb)' = Committed(sb)
    BY <2>1 DEF Committed
  <2>3. ReadValues' = ReadValues
    BY <2>1, <2>2 DEF ReadValues, Committed
  <2>. QED
    BY <2>1, <2>2, <2>3 DEF RaceInv, LostOnlyToRace, ReadValues
<1>2. ASSUME NEW r \in Requests, CommitServer(r)
      PROVE  RaceInv' /\ LostOnlyToRace'
  <2>. DEFINE n == Cardinality(Committed(sb))
  <2>1. n \in Nat
    BY CommittedServerFinite
  <2>2. Committed(sb)' = Committed(sb) \union {r} /\ r \notin Committed(sb)
    BY <1>2 DEF CommitServer, Committed, TypeOK
  <2>3. Cardinality(Committed(sb)') = n + 1
    BY <2>2, CommittedServerFinite, FS_AddElement
  <2>4. seen[r] \in 1..(n + 1)
    <3>1. Read(r)
      BY <1>2 DEF CommitServer, MsgInv, Read
    <3>. QED
      BY <2>1, <3>1 DEF ReadInv
  <2>5. ReadValues' = ReadValues \union {seen[r]}
    BY <1>2, <2>2 DEF ReadValues, CommitServer
  <2>6. RaceInv'
    <3>1. ReadValues \subseteq 1..n
      BY DEF RaceInv
    <3>2. ReadValues' \subseteq 1..(n + 1)
      <4>. HIDE DEF n
      <4>1. \A v \in ReadValues \union {seen[r]} : v \in 1..(n + 1)
        BY <2>1, <2>4, <3>1
      <4>. QED
        BY <2>5, <4>1
    <3>. QED
      BY <2>3, <3>2 DEF RaceInv
  <2>7. ASSUME Cardinality(ReadValues') = n + 1 PROVE sRow' = n + 2
    <3>1. Cardinality(ReadValues) = n /\ seen[r] \notin ReadValues
      <4>. DEFINE k == Cardinality(ReadValues)
      <4>1. k \in Nat /\ k <= n
        BY ReadValuesBound
      <4>2. Cardinality(ReadValues \union {seen[r]})
              = IF seen[r] \in ReadValues THEN k ELSE k + 1
        BY ReadValuesBound, FS_AddElement
      <4>. QED
        BY <2>1, <2>5, <2>7, <4>1, <4>2
    <3>2. ReadValues = 1..n
      <4>1. IsFiniteSet(1..n) /\ Cardinality(1..n) = n
        BY <2>1, FS_Interval
      <4>. QED
        BY <3>1, <4>1, FS_Subset DEF RaceInv
    <3>3. seen[r] = n + 1
      BY <2>1, <2>4, <3>1, <3>2
    <3>. QED
      BY <1>2, <2>1, <3>3 DEF CommitServer
  <2>8. LostOnlyToRace'
    BY <2>1, <2>3, <2>7 DEF LostOnlyToRace, ReadValues
  <2>. QED
    BY <2>6, <2>8
<1>. QED
  BY <1>1, <1>2

(* When no two committed requests have read the same value, the remote row *)
(* counts every one of them.                                               *)
THEOREM LostOnlyToRaceHolds == Spec => []LostOnlyToRace
<1>1. Init => RaceInv /\ LostOnlyToRace
  <2>. SUFFICES ASSUME Init PROVE RaceInv /\ LostOnlyToRace
    OBVIOUS
  <2>1. Committed(sb) = {}
    BY DEF Init, Committed
  <2>2. Cardinality(Committed(sb)) = 0
    BY <2>1, FS_EmptySet
  <2>. QED
    BY <2>1, <2>2 DEF Init, RaceInv, ReadValues, LostOnlyToRace
<1>2. TypeOK /\ TxInv /\ MsgInv /\ ReadInv /\ RaceInv /\ LostOnlyToRace /\ [Next]_vars
      => RaceInv' /\ LostOnlyToRace'
  BY RaceInductive
<1>. QED
  BY <1>1, <1>2, ReadInvariance, TypeCorrect, TxInvariance, MsgInvariance, PTL DEF Spec

-----------------------------------------------------------------------------
(* The requests implement AtomicCommit: its initial state, and every step  *)
(* one of its steps or a stutter.                                          *)
THEOREM Implements == Spec => Promise!Spec
<1>1. Init => Promise!Init
  BY DEF Init, Promise!Init, Decision, AppliedAt
<1>2. TypeOK /\ TxInv /\ [Next]_vars => [Promise!Next]_(Promise!vars)
  <2>. SUFFICES ASSUME TypeOK, TxInv, [Next]_vars
                PROVE  [Promise!Next]_(Promise!vars)
    OBVIOUS
  <2>. DEFINE D == [r \in Requests |-> Decision(r)]
              A == [r \in Requests |-> AppliedAt(r)]
  <2>a. ASSUME D' = D, A' = A PROVE [Promise!Next]_(Promise!vars)
    BY <2>a DEF Promise!vars
  <2>b. ASSUME NEW T \in SUBSET Requests,
               \A r \in T : Decision(r) = "open" /\ Decision(r)' = "abort",
               \A r \in Requests \ T : Decision(r)' = Decision(r),
               A' = A
        PROVE  [Promise!Next]_(Promise!vars)
    <3>1. Promise!DecideAbort(T)
      BY <2>b DEF Promise!DecideAbort
    <3>. QED
      BY <3>1 DEF Promise!Next
  <2>. USE DEF Decision, AppliedAt, TypeOK, TxInv, ThreadInv, BranchInv,
               client, server, stored, nodes
  <2>1. ASSUME NEW r \in Requests, NEW i \in Ids, DoGet(r, i) PROVE [Promise!Next]_(Promise!vars)
    BY <2>a, <2>1 DEF DoGet, Goto
  <2>2. ASSUME NEW r \in Requests, Lookup(r) PROVE [Promise!Next]_(Promise!vars)
    BY <2>a, <2>2 DEF Lookup, Goto
  <2>3. ASSUME NEW r \in Requests, Begin(r) PROVE [Promise!Next]_(Promise!vars)
    BY <2>a, <2>3 DEF Begin, Goto
  <2>4. ASSUME NEW r \in Requests, Update(r) PROVE [Promise!Next]_(Promise!vars)
    BY <2>a, <2>4 DEF Update, Goto
  <2>5. ASSUME NEW r \in Requests, UpdateFails(r) PROVE [Promise!Next]_(Promise!vars)
    BY <2>a, <2>5 DEF UpdateFails, Goto
  <2>6. ASSUME NEW r \in Requests, Exec(r) PROVE [Promise!Next]_(Promise!vars)
    BY <2>a, <2>6 DEF Exec, Goto
  <2>7. ASSUME NEW r \in Requests, ExecFails(r) PROVE [Promise!Next]_(Promise!vars)
    BY <2>a, <2>7 DEF ExecFails, Goto
  <2>8. ASSUME NEW r \in Requests, Reply(r) PROVE [Promise!Next]_(Promise!vars)
    BY <2>a, <2>8 DEF Reply, Goto
  <2>9. ASSUME NEW r \in Requests, Commit(r) PROVE [Promise!Next]_(Promise!vars)
    BY <2>a, <2>9 DEF Commit, Goto
  <2>10. ASSUME NEW r \in Requests, Catch(r) PROVE [Promise!Next]_(Promise!vars)
    BY <2>a, <2>10 DEF Catch, Goto
  <2>11. ASSUME NEW r \in Requests, Return(r) PROVE [Promise!Next]_(Promise!vars)
    <3>. DEFINE T == IF assoc[r] /\ Decision(r) = "open" THEN {r} ELSE {}
    <3>1. T \in SUBSET Requests
      OBVIOUS
    <3>2. \A q \in T : Decision(q) = "open" /\ Decision(q)' = "abort"
      BY <2>11 DEF Return, Goto, RolledBack
    <3>3. \A q \in Requests \ T : Decision(q)' = Decision(q)
      BY <2>11 DEF Return, Goto, RolledBack
    <3>4. A' = A
      BY <2>11 DEF Return, Goto, RolledBack
    <3>. QED
      BY <2>b, <3>1, <3>2, <3>3, <3>4
  <2>12. ASSUME NEW r \in Requests, Find(r) PROVE [Promise!Next]_(Promise!vars)
    BY <2>a, <2>12 DEF Find
  <2>13. ASSUME NEW r \in Requests, SendMessage(r) PROVE [Promise!Next]_(Promise!vars)
    BY <2>a, <2>13 DEF SendMessage
  <2>14. ASSUME NEW r \in Requests, DoTransactionThrows(r) PROVE [Promise!Next]_(Promise!vars)
    BY <2>a, <2>14 DEF DoTransactionThrows
  <2>15. ASSUME NEW r \in Requests, OnMessage(r) PROVE [Promise!Next]_(Promise!vars)
    BY <2>a, <2>15 DEF OnMessage
  <2>16. ASSUME NEW r \in Requests, Flush(r) PROVE [Promise!Next]_(Promise!vars)
    BY <2>a, <2>16 DEF Flush
  <2>17. ASSUME NEW r \in Requests, PrepareClient(r) PROVE [Promise!Next]_(Promise!vars)
    BY <2>a, <2>17 DEF PrepareClient
  <2>18. ASSUME NEW r \in Requests, PrepareServer(r) PROVE [Promise!Next]_(Promise!vars)
    BY <2>a, <2>18 DEF PrepareServer
  <2>19. ASSUME NEW r \in Requests, LogCommit(r) PROVE [Promise!Next]_(Promise!vars)
    <3>1. Promise!DecideCommit(r)
      BY <2>19 DEF LogCommit, Promise!DecideCommit
    <3>. QED
      BY <3>1 DEF Promise!Next
  <2>20. ASSUME NEW r \in Requests, CommitFails(r) PROVE [Promise!Next]_(Promise!vars)
    <3>. DEFINE T == {r}
    <3>1. T \in SUBSET Requests
      OBVIOUS
    <3>2. \A q \in T : Decision(q) = "open" /\ Decision(q)' = "abort"
      BY <2>20 DEF CommitFails, Goto
    <3>3. \A q \in Requests \ T : Decision(q)' = Decision(q)
      BY <2>20 DEF CommitFails, Goto
    <3>4. A' = A
      BY <2>20 DEF CommitFails, Goto
    <3>. QED
      BY <2>b, <3>1, <3>2, <3>3, <3>4
  <2>21. ASSUME NEW r \in Requests, CommitClient(r) PROVE [Promise!Next]_(Promise!vars)
    <3>. HIDE DEF TxInv, ThreadInv, BranchInv
    <3>1. Promise!Apply(r, "client")
      BY <2>21 DEF CommitClient, Promise!Apply
    <3>. QED
      BY <3>1 DEF Promise!Next, Nodes
  <2>22. ASSUME NEW r \in Requests, CommitServer(r) PROVE [Promise!Next]_(Promise!vars)
    <3>. HIDE DEF TxInv, ThreadInv, BranchInv
    <3>1. Promise!Apply(r, "server")
      BY <2>22 DEF CommitServer, Promise!Apply
    <3>. QED
      BY <3>1 DEF Promise!Next, Nodes
  <2>23. ASSUME NEW r \in Requests, CommitReturns(r) PROVE [Promise!Next]_(Promise!vars)
    BY <2>a, <2>23 DEF CommitReturns, Goto
  <2>24. ASSUME NEW r \in Requests, RollbackServer(r) PROVE [Promise!Next]_(Promise!vars)
    BY <2>a, <2>24 DEF RollbackServer, AbortRemote
  <2>25. ASSUME NEW r \in Requests, RollbackClient(r) PROVE [Promise!Next]_(Promise!vars)
    BY <2>a, <2>25 DEF RollbackClient
  <2>26. ASSUME NEW r \in Requests, ClientTimeout(r) PROVE [Promise!Next]_(Promise!vars)
    <3>. DEFINE T == {r}
    <3>1. T \in SUBSET Requests
      OBVIOUS
    <3>2. \A q \in T : Decision(q) = "open" /\ Decision(q)' = "abort"
      BY <2>26 DEF ClientTimeout, RolledBack
    <3>3. \A q \in Requests \ T : Decision(q)' = Decision(q)
      BY <2>26 DEF ClientTimeout, RolledBack
    <3>4. A' = A
      BY <2>26 DEF ClientTimeout, RolledBack
    <3>. QED
      BY <2>b, <3>1, <3>2, <3>3, <3>4
  <2>27. ASSUME NEW r \in Requests, ServerTimeout(r) PROVE [Promise!Next]_(Promise!vars)
    BY <2>a, <2>27 DEF ServerTimeout, AbortRemote
  <2>28. ASSUME CrashClient PROVE [Promise!Next]_(Promise!vars)
    <3>. DEFINE T == {r \in Requests : tx[r] \in {"active", "marked", "committing"}}
    <3>1. T \in SUBSET Requests
      OBVIOUS
    <3>2. \A q \in T : Decision(q) = "open" /\ Decision(q)' = "abort"
      BY <2>28 DEF CrashClient, RolledBack
    <3>3. \A q \in Requests \ T : Decision(q)' = Decision(q)
      BY <2>28 DEF CrashClient, RolledBack
    <3>4. A' = A
      BY <2>28 DEF CrashClient, RolledBack
    <3>. QED
      BY <2>b, <3>1, <3>2, <3>3, <3>4
  <2>29. ASSUME CrashServer PROVE [Promise!Next]_(Promise!vars)
    BY <2>a, <2>29 DEF CrashServer, AbortRemote
  <2>30. ASSUME NEW n \in Nodes, Restart(n) PROVE [Promise!Next]_(Promise!vars)
    BY <2>a, <2>30 DEF Restart
  <2>31. CASE UNCHANGED vars
    BY <2>a, <2>31 DEF vars
  <2>. QED
    BY <2>1, <2>2, <2>3, <2>4, <2>5, <2>6, <2>7, <2>8, <2>9, <2>10,
       <2>11, <2>12, <2>13, <2>14, <2>15, <2>16, <2>17, <2>18, <2>19, <2>20,
       <2>21, <2>22, <2>23, <2>24, <2>25, <2>26, <2>27, <2>28, <2>29, <2>30,
       <2>31
    DEF Next, ClientStep, ServerStep, TMStep, Idle
<1>. QED
  BY <1>1, <1>2, TypeCorrect, TxInvariance, PTL DEF Spec, Promise!Spec

=============================================================================
