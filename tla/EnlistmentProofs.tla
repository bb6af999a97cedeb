---------------------------- MODULE EnlistmentProofs ----------------------------
(***************************************************************************)
(* Proofs about Enlistment for any requests, any methods among those of    *)
(* the code and any number of crashes.  The invariant is local to a        *)
(* request: its thread (ThreadInv), what it has done so far (DoneInv), its *)
(* two transactions and their branches (TxInv).                            *)
(***************************************************************************)
EXTENDS Enlistment, FiniteSetTheorems, SequenceTheorems, TLAPS

-----------------------------------------------------------------------------
(* The methods                                                             *)

CreatingMethods == {"createTableJoin", "createTableNotJoin"}

(* The scripts use known resources, only tables in XA databases are        *)
(* created, and outside MyBean.call a last resource is used alone.         *)
ScriptOf(m, s) ==
  /\ Len(s) \in Nat /\ DOMAIN s = 1..Len(s)
  /\ \A i \in 1..Len(s) :
       /\ s[i].on \in Resources
       /\ s[i].do = "create" => /\ s[i].on \in XA
                                /\ \/ m \in CreatingMethods
                                   \/ m = "runInsertionWithCreation" /\ i <= 2
       /\ m \in CreatingMethods => s[i].do = "create"
       /\ m # "call" /\ s[i].on \in Last => \A j \in 1..Len(s) : s[j].on = s[i].on
  /\ m = "runInsertionWithCreation" =>
       Len(s) = 4 /\ \A i \in 1..2 : s[i].do = "create"
  /\ m = "createTableJoin" => Len(s) = 1
  /\ m = "call" => Len(s) = 6 /\ s[3] = Insert("test-non-jta")

(* Every method of the module has a script of the shape the proofs use.    *)
LEMMA ScriptFacts ==
  ASSUME NEW m \in Methods
  PROVE  ScriptOf(m, Script[m])
<1>. USE DEF ScriptOf, Insert, Send, Create, Resources, XA, Last, Outside, CreatingMethods
<1>1. ScriptOf("call", CallScript)
  BY DEF CallScript
<1>2. /\ ScriptOf("notSupportedDatabase", DatabaseScript)
      /\ ScriptOf("requiresNewDatabase", DatabaseScript)
  BY DEF DatabaseScript
<1>3. /\ ScriptOf("notSupportedJms", JmsScript)
      /\ ScriptOf("requiresNewJms", JmsScript)
  BY DEF JmsScript
<1>4. ScriptOf("runInsertionJoin", JoinScript)
  BY DEF JoinScript
<1>5. ScriptOf("runInsertionNotJoin", NotJoinScript)
  BY DEF NotJoinScript
<1>6. ScriptOf("createTableJoin", CreateJoinScript)
  BY DEF CreateJoinScript
<1>7. ScriptOf("createTableNotJoin", CreateBothScript)
  BY DEF CreateBothScript
<1>8. ScriptOf("runInsertionWithCreation", WithCreationScript)
  <2>. DEFINE S == {Create("db1"), Create("db2"), Insert("db1"), Insert("db2")}
              s1 == <<Create("db1"), Create("db2")>>
              s2 == <<Insert("db1"), Insert("db2")>>
  <2>1. s1 \in Seq(S) /\ s2 \in Seq(S) /\ Len(s1) = 2 /\ Len(s2) = 2
    OBVIOUS
  <2>2. /\ s1[1] = Create("db1") /\ s1[2] = Create("db2")
        /\ s2[1] = Insert("db1") /\ s2[2] = Insert("db2")
    OBVIOUS
  <2>3. WithCreationScript = s1 \o s2
    BY DEF WithCreationScript, CreateBothScript, NotJoinScript
  <2>. HIDE DEF s1, s2, S
  <2>4. /\ WithCreationScript \in Seq(S) /\ Len(WithCreationScript) = 4
        /\ \A i \in 1..4 : WithCreationScript[i] = IF i <= 2 THEN s1[i] ELSE s2[i - 2]
    <3>1. /\ s1 \o s2 \in Seq(S)
          /\ Len(s1 \o s2) = Len(s1) + Len(s2)
          /\ \A i \in 1..Len(s1) + Len(s2) :
               (s1 \o s2)[i] = IF i <= Len(s1) THEN s1[i] ELSE s2[i - Len(s1)]
      BY <2>1, ConcatProperties
    <3>. QED
      BY <2>1, <2>3, <3>1
  <2>5. /\ Len(WithCreationScript) = 4 /\ DOMAIN WithCreationScript = 1..4
        /\ WithCreationScript[1] = Create("db1") /\ WithCreationScript[2] = Create("db2")
        /\ WithCreationScript[3] = Insert("db1") /\ WithCreationScript[4] = Insert("db2")
    BY <2>2, <2>4
  <2>. HIDE DEF WithCreationScript
  <2>. QED
    BY <2>5
<1>. HIDE DEF ScriptOf
<1>. QED
  BY <1>1, <1>2, <1>3, <1>4, <1>5, <1>6, <1>7, <1>8 DEF Methods, Script

-----------------------------------------------------------------------------
(* The invariant                                                           *)

Own(q) == <<q, "own">>
Inner(q) == <<q, "inner">>

(* What a branch can be, by the state of its transaction.                  *)
Legal == [none   |-> {"none"},
          active |-> {"none", "active", "broken", "prepared", "void"},
          marked |-> {"none", "active", "broken"},
          commit |-> {"none", "prepared", "committed", "void", "missing", "aborted"},
          abort  |-> {"none", "aborted", "prepared", "void"}]

(* The branches of failed statements.                                      *)
Lost == {"broken", "void", "missing"}

OneBranchOrHeuristic(t) ==
  Cardinality(Branches(t)) <= 1 \/ \E r \in Resources : branch[t][r] = "missing"

Used(m) == {Script[m][i].on : i \in DOMAIN Script[m]}

(* A transaction that can still go either way has its thread in its method *)
(* and has been voted on only when the method is over; a method enlists    *)
(* only the resources of its script.                                       *)
TxInv(q) ==
  \A l \in Levels :
    LET t == <<q, l>> IN
    /\ \A r \in Resources : branch[t][r] \in Legal[tx[t]]
    /\ tx[t] \in {"active", "marked"} =>
         pc[q] \in {"run", "completing"} /\ (l = "inner" => level[q] = "inner")
    /\ tx[t] = "active" /\ (\E r \in Resources : branch[t][r] \in {"prepared", "void"}) =>
         pc[q] = "completing" /\ level[q] = l
    /\ \A r \in Resources : branch[t][r] # "none" => r \in Used(method[q])

(* Only runInsertionWithCreation has an inner transaction, for its first   *)
(* two statements.                                                         *)
ThreadInv(q) ==
  /\ pc[q] = "new" => /\ method[q] = "none" /\ step[q] = 1 /\ reply[q] = "none"
                      /\ level[q] = "own" /\ outside[q] = {}
                      /\ tx[Own(q)] = "none" /\ tx[Inner(q)] = "none"
  /\ pc[q] # "new" => method[q] \in Methods
  /\ step[q] >= 1
  /\ level[q] = "inner" => /\ method[q] = "runInsertionWithCreation" /\ reply[q] = "none"
                           /\ tx[Own(q)] \in {"active", "abort"}
                           /\ step[q] <= 3 /\ (pc[q] = "completing" => step[q] = 3)
  /\ level[q] = "own" /\ method[q] = "runInsertionWithCreation" => step[q] >= 3
  /\ method[q] # "runInsertionWithCreation" => tx[Inner(q)] = "none"

(* What the thread has done and told its caller.                           *)
DoneInv(q) ==
  /\ outside[q] \subseteq Outside \/ ~InTx(method[q])
  /\ method[q] \in Rethrowing =>
       \A i \in DOMAIN Script[method[q]] :
         LET o == Script[method[q]][i] IN
         i < step[q] /\ o.do # "create" =>
           \/ o.on \in outside[q]
           \/ tx[Own(q)] = "abort"
           \/ branch[Own(q)][o.on] \in {"active", "prepared", "committed"}
  /\ (\E r \in Resources : branch[Own(q)][r] \in Lost) =>
       method[q] \in CreatingMethods
  /\ method[q] = "call" => /\ tx[Own(q)] # "commit"
                           /\ pc[q] = "completing" => tx[Own(q)] # "active"
                           /\ step[q] > 3 => "test-non-jta" \in outside[q]
  /\ pc[q] = "completing" /\ level[q] = "own" /\ reply[q] # "error" =>
       step[q] > Len(Script[method[q]])
  /\ pc[q] = "run" => tx[Own(q)] # "commit"
  /\ pc[q] = "completing" /\ tx[Own(q)] = "commit" => reply[q] = "none"
  /\ tx[Own(q)] = "marked" => reply[q] = "error" \/ method[q] = "call"
  /\ reply[q] = "ok" => /\ pc[q] = "done" /\ step[q] > Len(Script[method[q]])
                        /\ method[q] = "call" \/ tx[Own(q)] \in {"none", "commit"}
  /\ reply[q] = "error" => /\ pc[q] \in {"completing", "done", "dead"}
                           /\ tx[Own(q)] # "active"
                           /\ tx[Own(q)] = "commit" => OneBranchOrHeuristic(Own(q))

(* What a transaction can be that is rolled back in part: a commit of one  *)
(* phase rolls back its only branch, and a branch that is void or missing  *)
(* is on its way to the caller as an exception.                            *)
SplitInv(q) ==
  \A l \in Levels :
    LET t == <<q, l>> IN
    /\ tx[t] = "active" /\ (\E r \in Resources : branch[t][r] \in {"prepared", "void"}) =>
         Cardinality(Branches(t)) > 1
    /\ tx[t] = "commit" /\ (\E r \in Resources : branch[t][r] = "aborted") =>
         \A s \in Resources : branch[t][s] \in {"none", "aborted"}
    /\ tx[t] = "commit" /\ (\E r \in Resources : branch[t][r] \in {"void", "missing"}) =>
         \/ reply[q] = "error"
         \/ reply[q] = "none" /\ level[q] = l /\ pc[q] \in {"completing", "dead"}

RequestInv(q) == TxInv(q) /\ ThreadInv(q) /\ DoneInv(q) /\ SplitInv(q)

(* A message that is not settled can still be delivered.                   *)
DeliveryInv == \A q \in Requests : handled[q] = "no" => attempts[q] < MaxDelivery

EnlistInv == DeliveryInv /\ \A q \in Requests : RequestInv(q)

-----------------------------------------------------------------------------
(* Types                                                                   *)

PCs == {"new", "run", "completing", "done", "dead"}
TxStates == {"none", "active", "marked", "commit", "abort"}
BranchStates ==
  {"none", "active", "broken", "void", "missing", "prepared", "committed", "aborted"}

(* The types, variable by variable.                                        *)
LEMMA Flat ==
  ASSUME TypeOK
  PROVE  /\ pc \in [Requests -> PCs]
         /\ method \in [Requests -> Methods \union {"none"}]
         /\ step \in [Requests -> Nat]
         /\ level \in [Requests -> Levels]
         /\ reply \in [Requests -> {"none", "ok", "error"}]
         /\ tx \in [Txs -> TxStates]
         /\ branch \in [Txs -> [Resources -> BranchStates]]
         /\ created \in [Txs -> SUBSET XA]
         /\ outside \in [Requests -> SUBSET Resources]
         /\ \A q \in Requests : Cur(q) \in Txs /\ Own(q) \in Txs /\ Inner(q) \in Txs
  BY DEF TypeOK, PCs, TxStates, BranchStates, Txs, Cur, Own, Inner, Levels

(* A request that a step leaves alone.                                     *)
Untouched(q) ==
  /\ pc'[q] = pc[q] /\ method'[q] = method[q] /\ step'[q] = step[q]
  /\ level'[q] = level[q] /\ reply'[q] = reply[q] /\ outside'[q] = outside[q]
  /\ \A l \in Levels : tx'[<<q, l>>] = tx[<<q, l>>] /\ branch'[<<q, l>>] = branch[<<q, l>>]

(* A request nothing happens to keeps its invariant.                       *)
LEMMA UntouchedKept ==
  ASSUME NEW q \in Requests, RequestInv(q), Untouched(q)
  PROVE  RequestInv(q)'
<1>1. /\ pc'[q] = pc[q] /\ method'[q] = method[q] /\ step'[q] = step[q]
      /\ level'[q] = level[q] /\ reply'[q] = reply[q] /\ outside'[q] = outside[q]
      /\ \A l \in Levels : tx'[<<q, l>>] = tx[<<q, l>>] /\ branch'[<<q, l>>] = branch[<<q, l>>]
  BY DEF Untouched
<1>2. /\ tx'[Own(q)] = tx[Own(q)] /\ branch'[Own(q)] = branch[Own(q)]
      /\ tx'[Inner(q)] = tx[Inner(q)] /\ Branches(Own(q))' = Branches(Own(q))
  BY <1>1 DEF Own, Inner, Levels, Branches
<1>3. TxInv(q)'
  BY <1>1 DEF RequestInv, TxInv
<1>4. ThreadInv(q)'
  BY <1>1, <1>2 DEF RequestInv, ThreadInv
<1>5. DoneInv(q)'
  BY <1>1, <1>2 DEF RequestInv, DoneInv, OneBranchOrHeuristic
<1>6. SplitInv(q)'
  <2>1. \A l \in Levels : Branches(<<q, l>>)' = Branches(<<q, l>>)
    BY <1>1 DEF Branches
  <2>. QED
    BY <1>1, <2>1 DEF RequestInv, SplitInv
<1>. QED
  BY <1>3, <1>4, <1>5, <1>6 DEF RequestInv

(* One branch changes.                                                     *)
LEMMA BranchEdit ==
  ASSUME branch \in [Txs -> [Resources -> BranchStates]],
         NEW t \in Txs, NEW r \in Resources, NEW b \in BranchStates,
         branch' = [branch EXCEPT ![t][r] = b]
  PROVE  /\ branch' \in [Txs -> [Resources -> BranchStates]]
         /\ branch'[t][r] = b
         /\ \A s \in Resources \ {r} : branch'[t][s] = branch[t][s]
         /\ \A u \in Txs \ {t} : branch'[u] = branch[u]
  OBVIOUS

(* The next statement of a request in its method.                          *)
LEMMA NextStatement ==
  ASSUME TypeOK, NEW q \in Requests, ThreadInv(q), pc[q] = "run", step[q] <= LastStep(q)
  PROVE  /\ pc[q] = "run" /\ method[q] \in Methods
         /\ step[q] \in 1..Len(Script[method[q]])
         /\ Now(q).on \in Resources /\ Now(q).on \in Used(method[q])
         /\ Now(q).do = "create" => Now(q).on \in XA
         /\ Now(q).do = "create" /\ level[q] = "own" => method[q] \in CreatingMethods
         /\ level[q] = "inner" => Now(q).do = "create"
         /\ method[q] \in CreatingMethods => Now(q).do = "create"
<1>1. /\ pc[q] = "run" /\ step[q] <= LastStep(q)
      /\ step[q] \in Nat /\ step[q] >= 1
      /\ method[q] \in Methods
      /\ level[q] = "inner" => method[q] = "runInsertionWithCreation"
      /\ level[q] = "own" /\ method[q] = "runInsertionWithCreation" => step[q] >= 3
      /\ level[q] \in Levels
  BY Flat DEF ThreadInv
<1>2. ScriptOf(method[q], Script[method[q]])
  BY <1>1, ScriptFacts
<1>3. step[q] \in 1..Len(Script[method[q]]) /\ (level[q] = "inner" => step[q] <= 2)
  BY <1>1, <1>2 DEF LastStep, ScriptOf, Levels
<1>. QED
  BY <1>1, <1>2, <1>3 DEF ScriptOf, Now, Used

(* The statement a running thread is at is one of its method.              *)
LEMMA NowFacts ==
  ASSUME TypeOK, NEW q \in Requests, ThreadInv(q), Running(q)
  PROVE  /\ pc[q] = "run" /\ method[q] \in Methods
         /\ step[q] \in 1..Len(Script[method[q]])
         /\ Now(q).on \in Resources /\ Now(q).on \in Used(method[q])
         /\ Now(q).do = "create" => Now(q).on \in XA
         /\ Now(q).do = "create" /\ level[q] = "own" => method[q] \in CreatingMethods
         /\ level[q] = "inner" => Now(q).do = "create"
  BY NextStatement DEF Running

(* Every step keeps the types.                                             *)
LEMMA TypeInductive == TypeOK /\ EnlistInv /\ [Next]_vars => TypeOK'
<1>. SUFFICES ASSUME TypeOK, EnlistInv, [Next]_vars PROVE TypeOK'
  OBVIOUS
<1>. USE DEF thread, jms, server
<1>a. \A q \in Requests : ThreadInv(q) /\ TxInv(q) /\ (handled[q] = "no" => attempts[q] < MaxDelivery)
  BY DEF EnlistInv, RequestInv, DeliveryInv
<1>b. \A q \in Requests : Cur(q) \in Txs
  BY Flat
<1>c. ASSUME NEW T \in SUBSET Txs, AbortActive(T)
      PROVE  branch' \in [Txs -> [Resources -> BranchStates]]
  BY <1>c DEF AbortActive, Aborted, TypeOK, BranchStates
<1>d. ASSUME NEW q \in Requests, NEW s \in TxStates, NEW answer, Ended(q, s, answer)
      PROVE  tx' \in [Txs -> {"none", "active", "marked", "commit", "abort"}]
  BY <1>d DEF Ended, Marked, TypeOK, TxStates
<1>e. ASSUME NEW q \in Requests, NEW answer \in {"ok", "error"}, Return(q, answer)
      PROVE  /\ pc' \in [Requests -> {"new", "run", "completing", "done", "dead"}]
             /\ level' \in [Requests -> Levels]
             /\ reply' \in [Requests -> {"none", "ok", "error"}]
  BY <1>e DEF Return, TypeOK, Levels
<1>1. ASSUME NEW q \in Requests, NEW m \in Invoked, Invoke(q, m) PROVE TypeOK'
  BY <1>1, EnlistmentAssumption DEF Invoke, TypeOK, Levels, FirstLevel
<1>2. ASSUME NEW q \in Requests, Work(q) PROVE TypeOK'
  <2>1. Now(q).on \in Resources /\ (Now(q).do = "create" => Now(q).on \in XA)
    BY <1>2, <1>a, NowFacts DEF Work
  <2>2. step' \in [Requests -> Nat] /\ UNCHANGED <<pc, method, level, reply, tx, tables, jms, server>>
    BY <1>2, Flat DEF Work
  <2>3. CASE /\ outside' = [outside EXCEPT ![q] = @ \union {Now(q).on}]
             /\ UNCHANGED <<branch, created>>
    <3>1. outside' \in [Requests -> SUBSET Resources]
      BY <2>1, <2>3, Flat
    <3>. QED
      BY <2>2, <2>3, <3>1 DEF TypeOK
  <2>4. CASE /\ branch' = [branch EXCEPT ![Cur(q)][Now(q).on] = "active"]
             /\ created' = [created EXCEPT ![Cur(q)] =
                              IF Now(q).do = "create" THEN @ \union {Now(q).on} ELSE @]
             /\ UNCHANGED outside
    <3>1. branch' \in [Txs -> [Resources -> BranchStates]]
      <4>1. "active" \in BranchStates
        BY DEF BranchStates
      <4>2. branch' = [branch EXCEPT ![Cur(q)][Now(q).on] = "active"]
        BY <2>4
      <4>. QED
        BY <1>b, <2>1, <4>1, <4>2, Flat, BranchEdit
    <3>2. created' \in [Txs -> SUBSET XA]
      <4>1. created[Cur(q)] \in SUBSET XA
        BY <1>b, Flat
      <4>2. (IF Now(q).do = "create" THEN created[Cur(q)] \union {Now(q).on}
             ELSE created[Cur(q)]) \in SUBSET XA
        BY <2>1, <4>1
      <4>. QED
        BY <2>4, <4>2, Flat
    <3>. QED
      BY <2>2, <2>4, <3>1, <3>2 DEF TypeOK, BranchStates
  <2>. QED
    BY <1>2, <2>3, <2>4 DEF Work
<1>3. ASSUME NEW q \in Requests, FailSwallowed(q) PROVE TypeOK'
  <2>1. Now(q).on \in Resources
    BY <1>3, <1>a, NowFacts DEF FailSwallowed
  <2>2. branch' = branch \/ branch' = [branch EXCEPT ![Cur(q)][Now(q).on] = "broken"]
    BY <1>3 DEF FailSwallowed
  <2>3. branch' \in [Txs -> [Resources -> BranchStates]]
    <3>1. "broken" \in BranchStates
      BY DEF BranchStates
    <3>2. CASE branch' = branch
      BY <3>2, Flat
    <3>3. CASE branch' = [branch EXCEPT ![Cur(q)][Now(q).on] = "broken"]
      BY <1>b, <2>1, <3>1, <3>3, Flat, BranchEdit
    <3>. QED
      BY <2>2, <3>2, <3>3
  <2>. QED
    BY <1>3, <2>3 DEF FailSwallowed, TypeOK, BranchStates
<1>4. ASSUME NEW q \in Requests, FailThrown(q) PROVE TypeOK'
  BY <1>4, <1>b DEF FailThrown, TypeOK, Marked
<1>5. ASSUME NEW q \in Requests, End(q) PROVE TypeOK'
  BY <1>5, <1>b DEF End, TypeOK, Marked
<1>6. ASSUME NEW q \in Requests, Rollback(q) PROVE TypeOK'
  <2>1. PICK answer \in {"ok", "error"}, s \in {"none", "abort"} :
          Ended(q, s, answer) /\ Return(q, answer) /\ AbortActive({Cur(q)})
    BY <1>6 DEF Rollback
  <2>2. s \in TxStates
    BY DEF TxStates
  <2>. QED
    BY <1>6, <1>b, <1>c, <1>d, <1>e, <2>1, <2>2 DEF Rollback, TypeOK, BranchStates
<1>7. ASSUME NEW q \in Requests, OnePhase(q) PROVE TypeOK'
  <2>1. PICK answer \in {"ok", "error"} : Ended(q, "commit", answer) /\ Return(q, answer)
    BY <1>7 DEF OnePhase
  <2>2. "commit" \in TxStates
    BY DEF TxStates
  <2>3. branch' \in [Txs -> [Resources -> BranchStates]]
    BY <1>7, <1>b, Flat DEF OnePhase, BranchStates
  <2>. QED
    BY <1>7, <1>b, <1>d, <1>e, <2>1, <2>2, <2>3 DEF OnePhase, TypeOK, BranchStates
<1>8. ASSUME NEW q \in Requests, CompletionFails(q) PROVE TypeOK'
  <2>1. "abort" \in TxStates
    BY DEF TxStates
  <2>. QED
    BY <1>8, <1>b, <1>c, <1>d, <1>e, <2>1 DEF CompletionFails, TypeOK, BranchStates
<1>9. ASSUME NEW q \in Requests, Decide(q) PROVE TypeOK'
  BY <1>9, <1>b DEF Decide, TypeOK
<1>18. ASSUME NEW q \in Requests, Answer(q) PROVE TypeOK'
  <2>1. PICK answer \in {"ok", "error"} : Ended(q, "commit", answer) /\ Return(q, answer)
    BY <1>18 DEF Answer
  <2>2. "commit" \in TxStates
    BY DEF TxStates
  <2>. QED
    BY <1>18, <1>b, <1>d, <1>e, <2>1, <2>2 DEF Answer, TypeOK
<1>10. ASSUME NEW q \in Requests, NEW r \in Resources, Vote(q, r) PROVE TypeOK'
  <2>1. branch' \in [Txs -> [Resources -> BranchStates]]
    BY <1>10, <1>b, Flat DEF Vote, BranchStates
  <2>. QED
    BY <1>10, <2>1 DEF Vote, TypeOK, BranchStates
<1>11. ASSUME NEW t \in Txs, Timeout(t) PROVE TypeOK'
  BY <1>11, <1>c DEF Timeout, TypeOK, BranchStates
<1>12. ASSUME NEW t \in Txs, NEW r \in XA, PhaseTwo(t, r) PROVE TypeOK'
  <2>1. r \in Resources
    BY DEF Resources
  <2>2. branch' \in [Txs -> [Resources -> BranchStates]]
    <3>1. PICK b \in BranchStates : branch' = [branch EXCEPT ![t][r] = b]
      BY <1>12 DEF PhaseTwo, CommitBranch, CommitRefused, RollbackBranch, BranchStates
    <3>. QED
      BY <2>1, <3>1, Flat, BranchEdit
  <2>. QED
    BY <1>12, <2>2 DEF PhaseTwo, CommitBranch, CommitRefused, RollbackBranch, TypeOK, BranchStates
<1>13. ASSUME NEW q \in Requests, OnMessage(q) PROVE TypeOK'
  <2>1. attempts[q] + 1 \in 0..MaxDelivery
    BY <1>13, <1>a, EnlistmentAssumption DEF OnMessage, TypeOK
  <2>. QED
    BY <1>13, <2>1 DEF OnMessage, TypeOK
<1>14. CASE Clear
  BY <1>14 DEF Clear, TypeOK
<1>15. CASE Crash
  <2>1. branch' \in [Txs -> [Resources -> BranchStates]]
    BY <1>15, <1>c DEF Crash
  <2>2. crashes' \in 0..MaxCrashes
    BY <1>15, EnlistmentAssumption DEF Crash, TypeOK
  <2>3. /\ pc' \in [Requests -> {"new", "run", "completing", "done", "dead"}]
        /\ tx' \in [Txs -> {"none", "active", "marked", "commit", "abort"}]
    BY <1>15 DEF Crash, TypeOK
  <2>. QED
    BY <1>15, <2>1, <2>2, <2>3 DEF Crash, TypeOK, BranchStates
<1>16. CASE Restart
  BY <1>16 DEF Restart, TypeOK
<1>17. CASE UNCHANGED vars
  BY <1>17 DEF vars, TypeOK
<1>. QED
  BY <1>1, <1>2, <1>3, <1>4, <1>5, <1>6, <1>7, <1>8, <1>9, <1>10, <1>11, <1>12,
     <1>13, <1>14, <1>15, <1>16, <1>17, <1>18
  DEF Next, Thread

-----------------------------------------------------------------------------
(* A request's steps                                                       *)

(* The types of all that belongs to one request.                           *)
LEMMA LocalFlat ==
  ASSUME TypeOK, NEW q \in Requests
  PROVE  /\ pc[q] \in PCs /\ step[q] \in Nat /\ level[q] \in Levels
         /\ reply[q] \in {"none", "ok", "error"}
         /\ method[q] \in Methods \union {"none"}
         /\ \A l \in Levels : /\ tx[<<q, l>>] \in TxStates
                              /\ \A r \in Resources : branch[<<q, l>>][r] \in BranchStates
         /\ Cur(q) = <<q, level[q]>> /\ Own(q) = <<q, "own">> /\ Inner(q) = <<q, "inner">>
         /\ outside[q] \subseteq Resources
  BY Flat DEF Txs, Cur, Own, Inner

(* The thread executes one statement: it goes on, and its resource has     *)
(* done its work at once, or in the transaction, or has failed.            *)
OneStatement(q) ==
  LET r == Now(q).on
      l == level[q]
  IN
  /\ Running(q)
  /\ pc'[q] = pc[q] /\ method'[q] = method[q] /\ level'[q] = level[q] /\ reply'[q] = reply[q]
  /\ step'[q] = step[q] + 1
  /\ \A k \in Levels : tx'[<<q, k>>] = tx[<<q, k>>]
  /\ \A k \in Levels, s \in Resources :
       k # l \/ s # r => branch'[<<q, k>>][s] = branch[<<q, k>>][s]
  /\ \/ AtOnce(q) /\ outside'[q] = outside[q] \union {r} /\ branch'[<<q, l>>][r] = branch[<<q, l>>][r]
     \/ /\ ~AtOnce(q) /\ outside'[q] = outside[q]
        /\ tx[<<q, l>>] = "active" /\ branch'[<<q, l>>][r] = "active"
     \/ Swallowed(q) /\ outside'[q] = outside[q] /\ branch'[<<q, l>>][r] = branch[<<q, l>>][r]
     \/ /\ Now(q).do = "create" /\ outside'[q] = outside[q]
        /\ tx[<<q, l>>] = "active" /\ branch'[<<q, l>>][r] = "broken"

(* A transaction keeps its branches when none comes or goes.               *)
LEMMA SameBranches ==
  ASSUME NEW u, \A r \in Resources : branch'[u][r] # "none" <=> branch[u][r] # "none"
  PROVE  Branches(u)' = Branches(u) /\ Cardinality(Branches(u))' = Cardinality(Branches(u))
BY DEF Branches

(* Each kind of step keeps the invariant of its request, one conjunct      *)
(* after the other. First: one statement.                                  *)
LEMMA OneStatementKept ==
  ASSUME TypeOK, NEW q \in Requests, RequestInv(q), OneStatement(q)
  PROVE  RequestInv(q)'
<1>. DEFINE r == Now(q).on
            l == level[q]
            n == Len(Script[method[q]])
<1>1. /\ pc[q] = "run" /\ method[q] \in Methods
      /\ step[q] \in 1..n
      /\ r \in Resources /\ r \in Used(method[q])
      /\ Now(q).do = "create" /\ l = "own" => method[q] \in CreatingMethods
      /\ l = "inner" => Now(q).do = "create"
      /\ Now(q) = Script[method[q]][step[q]]
  BY NowFacts DEF RequestInv, OneStatement, Now
<1>2. ScriptOf(method[q], Script[method[q]])
  BY <1>1, ScriptFacts
<1>3. /\ pc'[q] = pc[q] /\ method'[q] = method[q] /\ level'[q] = l /\ reply'[q] = reply[q]
      /\ step'[q] = step[q] + 1
      /\ \A k \in Levels : tx'[<<q, k>>] = tx[<<q, k>>]
      /\ \A k \in Levels, s \in Resources :
           k # l \/ s # r => branch'[<<q, k>>][s] = branch[<<q, k>>][s]
  BY DEF OneStatement
<1>4. \/ AtOnce(q) /\ outside'[q] = outside[q] \union {r} /\ branch'[<<q, l>>][r] = branch[<<q, l>>][r]
      \/ /\ ~AtOnce(q) /\ outside'[q] = outside[q]
         /\ tx[<<q, l>>] = "active" /\ branch'[<<q, l>>][r] = "active"
      \/ Swallowed(q) /\ outside'[q] = outside[q] /\ branch'[<<q, l>>][r] = branch[<<q, l>>][r]
      \/ /\ Now(q).do = "create" /\ outside'[q] = outside[q]
         /\ tx[<<q, l>>] = "active" /\ branch'[<<q, l>>][r] = "broken"
  BY DEF OneStatement
<1>. HIDE DEF r, l, n
<1>5. TxInv(q)'
  <2>. SUFFICES ASSUME NEW k \in Levels
                PROVE  LET t == <<q, k>> IN
                  /\ \A s \in Resources : branch'[t][s] \in Legal[tx'[t]]
                  /\ tx'[t] \in {"active", "marked"} =>
                       pc'[q] \in {"run", "completing"} /\ (k = "inner" => level'[q] = "inner")
                  /\ tx'[t] = "active" /\ (\E s \in Resources : branch'[t][s] \in {"prepared", "void"}) =>
                       pc'[q] = "completing" /\ level'[q] = k
                  /\ \A s \in Resources : branch'[t][s] # "none" => s \in Used(method'[q])
    BY DEF TxInv
  <2>1. /\ \A s \in Resources : branch[<<q, k>>][s] \in Legal[tx[<<q, k>>]]
        /\ tx[<<q, k>>] \in {"active", "marked"} =>
             pc[q] \in {"run", "completing"} /\ (k = "inner" => level[q] = "inner")
        /\ tx[<<q, k>>] = "active" /\ (\E s \in Resources : branch[<<q, k>>][s] \in {"prepared", "void"}) =>
             pc[q] = "completing" /\ level[q] = k
        /\ \A s \in Resources : branch[<<q, k>>][s] # "none" => s \in Used(method[q])
    BY DEF RequestInv, TxInv
  <2>2. \A s \in Resources :
          \/ branch'[<<q, k>>][s] = branch[<<q, k>>][s]
          \/ k = l /\ s = r /\ tx[<<q, l>>] = "active" /\ branch'[<<q, k>>][s] \in {"active", "broken"}
    BY <1>3, <1>4
  <2>3. {"active", "broken"} \subseteq Legal["active"]
    BY DEF Legal
  <2>. QED
    BY <1>1, <1>3, <2>1, <2>2, <2>3 DEF l
<1>6. ThreadInv(q)'
  <2>1. step[q] \in Nat /\ (l = "inner" => step[q] <= 2) /\ l \in Levels
    BY <1>1, LocalFlat DEF l, RequestInv, ThreadInv, OneStatement, Running, LastStep, Levels
  <2>2. tx'[Own(q)] = tx[Own(q)] /\ tx'[Inner(q)] = tx[Inner(q)]
    BY <1>3 DEF Own, Inner, Levels
  <2>. QED
    BY <1>1, <1>3, <2>1, <2>2 DEF RequestInv, ThreadInv, l
<1>7. DoneInv(q)'
  <2>a. /\ \A s \in Resources : l # "own" \/ s # r => branch'[Own(q)][s] = branch[Own(q)][s]
        /\ tx'[Own(q)] = tx[Own(q)]
        /\ l = "own" => Own(q) = <<q, l>>
    BY <1>3 DEF Own, Levels
  <2>1. outside'[q] \subseteq Outside \/ ~InTx(method'[q])
    BY <1>3, <1>4 DEF RequestInv, DoneInv, AtOnce, r
  <2>2. ASSUME method'[q] \in Rethrowing, NEW i \in DOMAIN Script[method'[q]],
               i < step'[q], Script[method'[q]][i].do # "create"
        PROVE  LET o == Script[method'[q]][i] IN
               \/ o.on \in outside'[q]
               \/ tx'[Own(q)] = "abort"
               \/ branch'[Own(q)][o.on] \in {"active", "prepared", "committed"}
    <3>1. i \in 1..n /\ (i < step[q] \/ i = step[q])
      BY <1>1, <1>2, <1>3, <2>2 DEF n, ScriptOf
    <3>2. CASE i = step[q]
      <4>1. Script[method[q]][i] = Now(q) /\ Now(q).do # "create" /\ l # "inner"
        BY <1>1, <1>3, <2>2, <3>2
      <4>2. ~Swallowed(q)
        BY <1>3, <2>2, <4>1 DEF Swallowed, Rethrowing
      <4>3. l = "own"
        BY <4>1, LocalFlat DEF l, Levels
      <4>. QED
        BY <1>3, <1>4, <2>a, <4>1, <4>2, <4>3 DEF r
    <3>3. CASE i < step[q]
      <4>1. \/ Script[method[q]][i].on \in outside[q]
            \/ tx[Own(q)] = "abort"
            \/ branch[Own(q)][Script[method[q]][i].on] \in {"active", "prepared", "committed"}
        BY <1>3, <2>2, <3>3 DEF RequestInv, DoneInv
      <4>2. outside[q] \subseteq outside'[q]
        BY <1>4
      <4>3. Script[method[q]][i].on \in Resources
        BY <1>2, <3>1 DEF ScriptOf, n
      <4>4. Now(q).do = "create" /\ l = "own" => method[q] \notin Rethrowing
        BY <1>1 DEF CreatingMethods, Rethrowing
      <4>5. branch[Own(q)][Script[method[q]][i].on] \in {"active", "prepared", "committed"} =>
              branch'[Own(q)][Script[method[q]][i].on] \in {"active", "prepared", "committed"}
        BY <1>3, <1>4, <2>2, <2>a, <4>3, <4>4
      <4>. QED
        BY <1>3, <2>a, <4>1, <4>2, <4>5
    <3>. QED
      BY <3>1, <3>2, <3>3
  <2>3. ASSUME NEW s \in Resources, branch'[Own(q)][s] \in Lost
        PROVE  method'[q] \in CreatingMethods
    <3>1. \/ branch'[Own(q)][s] = branch[Own(q)][s]
          \/ l = "own" /\ Now(q).do = "create"
      BY <1>4, <2>3, <2>a DEF Lost
    <3>. QED
      BY <1>1, <1>3, <2>3, <3>1 DEF RequestInv, DoneInv
  <2>4. ASSUME method'[q] = "call", step'[q] > 3 PROVE "test-non-jta" \in outside'[q]
    <3>1. CASE step[q] > 3
      BY <1>3, <1>4, <2>4, <3>1 DEF RequestInv, DoneInv
    <3>2. CASE ~(step[q] > 3)
      <4>1. step[q] = 3
        BY <1>1, <1>3, <2>4, <3>2
      <4>2. Now(q) = Insert("test-non-jta")
        BY <1>1, <1>2, <1>3, <2>4, <4>1 DEF ScriptOf
      <4>3. r = "test-non-jta" /\ Now(q).do = "insert"
        BY <4>2 DEF r, Insert
      <4>4. AtOnce(q) /\ ~Swallowed(q)
        BY <4>3 DEF AtOnce, Swallowed, Outside, r
      <4>. QED
        BY <1>4, <4>3, <4>4
    <3>. QED
      BY <3>1, <3>2
  <2>5. reply[q] = "none"
    BY <1>1, LocalFlat DEF RequestInv, DoneInv
  <2>. QED
    BY <1>1, <1>3, <2>a, <2>1, <2>2, <2>3, <2>4, <2>5 DEF RequestInv, DoneInv
<1>8. SplitInv(q)'
  <2>1. ASSUME NEW k \in Levels, NEW s \in Resources
        PROVE  \/ branch'[<<q, k>>][s] = branch[<<q, k>>][s]
               \/ tx[<<q, k>>] = "active" /\ branch'[<<q, k>>][s] \in {"active", "broken"}
    BY <1>3, <1>4
  <2>2. ASSUME NEW k \in Levels, tx[<<q, k>>] = "active", NEW s \in Resources
        PROVE  branch[<<q, k>>][s] \notin {"prepared", "void"}
    BY <1>1, <2>2 DEF RequestInv, TxInv
  <2>3. ASSUME NEW k \in Levels, tx[<<q, k>>] = "commit"
        PROVE  \A s \in Resources : branch'[<<q, k>>][s] = branch[<<q, k>>][s]
    BY <2>1, <2>3
  <2>4. ASSUME NEW k \in Levels, tx[<<q, k>>] = "active", NEW s \in Resources
        PROVE  branch'[<<q, k>>][s] \notin {"prepared", "void"}
    BY <2>1, <2>2, <2>4
  <2>. QED
    BY <1>1, <1>3, <2>3, <2>4 DEF RequestInv, SplitInv, l
<1>. QED
  BY <1>5, <1>6, <1>7, <1>8 DEF RequestInv

(* The method is called: its transactions begin.                           *)
Called(q, m) ==
  /\ pc[q] = "new" /\ pc'[q] = "run"
  /\ m \in Methods /\ method'[q] = m /\ level'[q] = FirstLevel(m)
  /\ step'[q] = step[q] /\ reply'[q] = reply[q] /\ outside'[q] = outside[q]
  /\ \A k \in Levels :
       /\ tx'[<<q, k>>] = IF InTx(m) /\ k \in {"own", FirstLevel(m)} THEN "active"
                          ELSE tx[<<q, k>>]
       /\ branch'[<<q, k>>] = branch[<<q, k>>]

(* The start of a call.                                                    *)
LEMMA CalledKept ==
  ASSUME TypeOK, NEW q \in Requests, NEW m, RequestInv(q), Called(q, m)
  PROVE  RequestInv(q)'
<1>1. /\ pc'[q] = "run" /\ m \in Methods /\ method'[q] = m /\ level'[q] = FirstLevel(m)
      /\ step'[q] = 1 /\ reply'[q] = "none" /\ outside'[q] = {}
      /\ \A k \in Levels : /\ tx[<<q, k>>] = "none"
                           /\ \A r \in Resources : branch'[<<q, k>>][r] = branch[<<q, k>>][r]
                           /\ tx'[<<q, k>>] = IF InTx(m) /\ k \in {"own", FirstLevel(m)}
                                              THEN "active" ELSE "none"
  BY DEF Called, RequestInv, ThreadInv, Levels, Own, Inner
<1>2. \A k \in Levels, r \in Resources : branch'[<<q, k>>][r] = "none"
  BY <1>1 DEF RequestInv, TxInv, Legal
<1>3. ScriptOf(m, Script[m])
  BY <1>1, ScriptFacts
<1>4. TxInv(q)'
  BY <1>1, <1>2 DEF TxInv, Legal, FirstLevel, Levels
<1>5. ThreadInv(q)'
  BY <1>1 DEF ThreadInv, FirstLevel, Own, Inner, Levels, InTx
<1>6. DoneInv(q)'
  <2>1. \A r \in Resources : branch'[Own(q)][r] = "none"
    BY <1>2 DEF Own, Levels
  <2>2. tx'[Own(q)] \in {"none", "active"}
    BY <1>1 DEF Own, Levels
  <2>3. \A i \in DOMAIN Script[m] : ~(i < 1)
    BY <1>3 DEF ScriptOf
  <2>. QED
    BY <1>1, <2>1, <2>2, <2>3 DEF DoneInv, Lost
<1>7. SplitInv(q)'
  BY <1>1, <1>2 DEF SplitInv
<1>. QED
  BY <1>4, <1>5, <1>6, <1>7 DEF RequestInv

(* The method is over, by its last statement or by an exception.           *)
MethodOver(q) ==
  /\ pc[q] = "run" /\ pc'[q] = "completing"
  /\ method'[q] = method[q] /\ step'[q] = step[q] /\ level'[q] = level[q]
  /\ outside'[q] = outside[q]
  /\ \A k \in Levels :
       /\ branch'[<<q, k>>] = branch[<<q, k>>]
       /\ k # level[q] => tx'[<<q, k>>] = tx[<<q, k>>]
  /\ \/ /\ Running(q) /\ ~Swallowed(q)
        /\ reply'[q] = "error" /\ tx'[<<q, level[q]>>] = Marked(tx[<<q, level[q]>>])
     \/ /\ step[q] > LastStep(q) /\ reply'[q] = reply[q]
        /\ tx'[<<q, level[q]>>] = IF method[q] = "call" THEN Marked(tx[<<q, level[q]>>])
                                  ELSE tx[<<q, level[q]>>]

(* The end of the method, before its transaction is completed.             *)
LEMMA MethodOverKept ==
  ASSUME TypeOK, NEW q \in Requests, RequestInv(q), MethodOver(q)
  PROVE  RequestInv(q)'
<1>. DEFINE l == level[q]
<1>1. /\ pc[q] = "run" /\ pc'[q] = "completing"
      /\ method'[q] = method[q] /\ step'[q] = step[q] /\ level'[q] = l
      /\ outside'[q] = outside[q]
      /\ \A k \in Levels : /\ branch'[<<q, k>>] = branch[<<q, k>>]
                           /\ k # l => tx'[<<q, k>>] = tx[<<q, k>>]
      /\ method[q] \in Methods /\ reply[q] = "none" /\ l \in Levels
  BY LocalFlat DEF MethodOver, RequestInv, ThreadInv, DoneInv
<1>2. \/ /\ l = "own" /\ reply'[q] = "error" /\ tx'[<<q, l>>] = Marked(tx[<<q, l>>])
      \/ /\ step[q] > LastStep(q) /\ reply'[q] = "none"
         /\ tx'[<<q, l>>] = IF method[q] = "call" THEN Marked(tx[<<q, l>>]) ELSE tx[<<q, l>>]
  <2>1. Running(q) /\ l = "inner" => Swallowed(q)
    BY NowFacts DEF RequestInv, Swallowed
  <2>. QED
    BY <1>1, <2>1 DEF MethodOver, Levels
<1>3. Branches(Own(q))' = Branches(Own(q)) /\ branch'[Own(q)] = branch[Own(q)]
  BY <1>1 DEF Branches, Own, Levels
<1>. HIDE DEF l
<1>4. /\ \A k \in Levels : tx'[<<q, k>>] = tx[<<q, k>>] \/ (k = l /\ tx[<<q, k>>] = "active"
                                                             /\ tx'[<<q, k>>] = "marked")
      /\ l = "own" => \/ tx'[Own(q)] = "marked" /\ (reply'[q] = "error" \/ method[q] = "call")
                      \/ tx'[Own(q)] = tx[Own(q)]
                         /\ (tx[Own(q)] = "active" => method[q] # "call" /\ reply'[q] # "error")
      /\ l # "own" => tx'[Own(q)] = tx[Own(q)]
  BY <1>1, <1>2 DEF Marked, Own, Levels
<1>5. TxInv(q)'
  <2>. SUFFICES ASSUME NEW k \in Levels
                PROVE  LET t == <<q, k>> IN
                  /\ \A s \in Resources : branch'[t][s] \in Legal[tx'[t]]
                  /\ tx'[t] \in {"active", "marked"} =>
                       pc'[q] \in {"run", "completing"} /\ (k = "inner" => level'[q] = "inner")
                  /\ tx'[t] = "active" /\ (\E s \in Resources : branch'[t][s] \in {"prepared", "void"}) =>
                       pc'[q] = "completing" /\ level'[q] = k
                  /\ \A s \in Resources : branch'[t][s] # "none" => s \in Used(method'[q])
    BY DEF TxInv
  <2>1. /\ \A s \in Resources : branch[<<q, k>>][s] \in Legal[tx[<<q, k>>]]
        /\ tx[<<q, k>>] \in {"active", "marked"} =>
             pc[q] \in {"run", "completing"} /\ (k = "inner" => level[q] = "inner")
        /\ tx[<<q, k>>] = "active" => \A s \in Resources : branch[<<q, k>>][s] \notin {"prepared", "void"}
        /\ \A s \in Resources : branch[<<q, k>>][s] # "none" => s \in Used(method[q])
    BY <1>1 DEF RequestInv, TxInv
  <2>2. \A b : b \in Legal["active"] /\ b \notin {"prepared", "void"} => b \in Legal["marked"]
    BY DEF Legal
  <2>. QED
    BY <1>1, <1>4, <2>1, <2>2 DEF l
<1>6. ThreadInv(q)'
  <2>1. l = "inner" => step[q] = 3
    BY <1>1, <1>2, LocalFlat DEF l, RequestInv, ThreadInv, LastStep
  <2>2. tx'[Inner(q)] = "none" <=> tx[Inner(q)] = "none"
    BY <1>4 DEF Inner, Levels
  <2>3. l = "inner" => /\ method[q] = "runInsertionWithCreation"
                       /\ tx'[Own(q)] = tx[Own(q)] /\ reply'[q] = "none"
    BY <1>1, <1>2, <1>4 DEF l, RequestInv, ThreadInv, Levels
  <2>. QED
    BY <1>1, <2>1, <2>2, <2>3 DEF l, RequestInv, ThreadInv
<1>7. DoneInv(q)'
  <2>1. /\ pc'[q] = "completing" /\ l = "own" /\ reply'[q] # "error" =>
             step'[q] > Len(Script[method'[q]])
        /\ tx'[Own(q)] = "commit" <=> tx[Own(q)] = "commit"
        /\ tx'[Own(q)] = "abort" <=> tx[Own(q)] = "abort"
    BY <1>1, <1>2, <1>4 DEF l, LastStep, Own
  <2>2. tx[Own(q)] = "marked" => method[q] = "call"
    BY <1>1 DEF RequestInv, DoneInv
  <2>3. reply'[q] \in {"none", "error"}
    BY <1>2
  <2>4. tx'[Own(q)] = "marked" => reply'[q] = "error" \/ method'[q] = "call"
    BY <1>1, <1>4, <2>2
  <2>5. method'[q] = "call" => l = "own"
    BY <1>1 DEF RequestInv, ThreadInv, l, Levels
  <2>6. reply'[q] = "error" => l = "own"
    BY <1>2
  <2>7. tx[Own(q)] # "commit"
    BY <1>1 DEF RequestInv, DoneInv
  <2>. QED
    BY <1>1, <1>3, <1>4, <2>1, <2>3, <2>4, <2>5, <2>6, <2>7 DEF RequestInv, DoneInv, l
<1>8. SplitInv(q)'
  <2>1. \A k \in Levels : Branches(<<q, k>>)' = Branches(<<q, k>>)
    BY <1>1 DEF Branches
  <2>2. ASSUME NEW k \in Levels, tx'[<<q, k>>] = "commit"
        PROVE  /\ tx[<<q, k>>] = "commit"
               /\ \A r \in Resources : branch[<<q, k>>][r] \notin {"void", "missing"}
    <3>1. tx[<<q, k>>] = "commit"
      BY <1>4, <2>2
    <3>. QED
      BY <1>1, <3>1 DEF RequestInv, SplitInv
  <2>3. ASSUME NEW k \in Levels, tx'[<<q, k>>] = "active"
        PROVE  tx[<<q, k>>] = "active"
    BY <1>4, <2>3
  <2>. QED
    BY <1>1, <2>1, <2>2, <2>3 DEF RequestInv, SplitInv
<1>. QED
  BY <1>5, <1>6, <1>7, <1>8 DEF RequestInv

(* The manager ends the transaction at s, or finds it ended: its branches  *)
(* follow, and control goes back to the caller with an answer.             *)
Completes(q, s, answer) ==
  LET l == level[q]
      t == <<q, l>>
  IN
  /\ pc[q] = "completing"
  /\ method'[q] = method[q] /\ step'[q] = step[q] /\ outside'[q] = outside[q]
  /\ level'[q] = "own"
  /\ pc'[q] = IF l = "own" THEN "done" ELSE IF answer = "ok" THEN "run" ELSE "completing"
  /\ reply'[q] = IF reply[q] = "error" THEN "error"
                 ELSE IF l = "inner" /\ answer = "ok" THEN reply[q] ELSE answer
  /\ tx'[t] = s
  /\ \A k \in Levels : k # l => branch'[<<q, k>>] = branch[<<q, k>>]
  /\ l = "inner" => tx'[Own(q)] = IF answer = "error" THEN Marked(tx[Own(q)]) ELSE tx[Own(q)]
  /\ l = "own" => tx'[Inner(q)] = tx[Inner(q)]
  /\ \A r \in Resources :
       /\ branch'[t][r] \in Legal[s]
       /\ branch'[t][r] # "none" <=> branch[t][r] # "none"
       /\ branch'[t][r] \in Lost => branch[t][r] \in Lost
       /\ s = "commit" /\ branch[t][r] \in {"active", "prepared", "committed"} =>
            branch'[t][r] \in {"prepared", "committed"}
  /\ s = "commit" => tx[t] \in {"active", "commit"}
  /\ s = "none" => tx[t] = "none"
  /\ s = "abort" => tx[t] # "commit"
  /\ \A k \in Levels :
       k = l /\ s = "commit" /\ answer = "error" => OneBranchOrHeuristic(<<q, k>>)'
  /\ s = "commit" /\ answer = "ok" =>
       \A r \in Resources : branch'[t][r] \notin {"void", "missing"}
  /\ s = "commit" /\ (\E r \in Resources : branch'[t][r] = "aborted") =>
       \A r \in Resources : branch'[t][r] \in {"none", "aborted"}
  /\ s = "abort" /\ answer = "ok" => tx[t] = "marked"

(* The completion: the decision, or the end of an inner transaction, or    *)
(* the answer.                                                             *)
LEMMA CompletesKept ==
  ASSUME TypeOK, NEW q \in Requests, RequestInv(q),
         NEW s \in {"none", "commit", "abort"}, NEW answer \in {"ok", "error"},
         Completes(q, s, answer)
  PROVE  RequestInv(q)'
<1>a. level[q] \in Levels /\ method[q] \in Methods \union {"none"} /\ reply[q] \in {"none", "ok", "error"}
  BY LocalFlat
<1>b. /\ pc[q] = "completing"
      /\ method'[q] = method[q] /\ step'[q] = step[q] /\ outside'[q] = outside[q]
      /\ level'[q] = "own"
  BY DEF Completes
<1>1. CASE level[q] = "own"
  <2>1. /\ pc'[q] = "done"
        /\ reply'[q] = IF reply[q] = "error" THEN "error" ELSE answer
        /\ tx'[Own(q)] = s /\ tx'[Inner(q)] = tx[Inner(q)]
        /\ branch'[Inner(q)] = branch[Inner(q)]
        /\ \A r \in Resources :
             /\ branch'[Own(q)][r] \in Legal[s]
             /\ branch'[Own(q)][r] # "none" <=> branch[Own(q)][r] # "none"
             /\ branch'[Own(q)][r] \in Lost => branch[Own(q)][r] \in Lost
             /\ s = "commit" /\ branch[Own(q)][r] \in {"active", "prepared", "committed"} =>
                  branch'[Own(q)][r] \in {"prepared", "committed"}
        /\ s = "commit" => tx[Own(q)] \in {"active", "commit"}
        /\ s = "none" => tx[Own(q)] = "none"
        /\ s = "commit" /\ answer = "error" => OneBranchOrHeuristic(Own(q))'
        /\ s = "abort" /\ answer = "ok" => tx[Own(q)] = "marked"
    BY <1>1 DEF Completes, Own, Inner, Levels
  <2>2. Branches(Own(q))' = Branches(Own(q))
    BY <2>1 DEF Branches
  <2>3. TxInv(q)'
    <3>1. /\ \A r \in Resources : branch[Own(q)][r] # "none" => r \in Used(method[q])
          /\ \A r \in Resources : branch[Inner(q)][r] \in Legal[tx[Inner(q)]]
          /\ tx[Inner(q)] \notin {"active", "marked"}
          /\ \A r \in Resources : branch[Inner(q)][r] # "none" => r \in Used(method[q])
      BY <1>1 DEF RequestInv, TxInv, Own, Inner, Levels
    <3>2. ASSUME NEW k \in Levels
          PROVE  LET t == <<q, k>> IN
            /\ \A r \in Resources : branch'[t][r] \in Legal[tx'[t]]
            /\ tx'[t] \in {"active", "marked"} =>
                 pc'[q] \in {"run", "completing"} /\ (k = "inner" => level'[q] = "inner")
            /\ tx'[t] = "active" /\ (\E r \in Resources : branch'[t][r] \in {"prepared", "void"}) =>
                 pc'[q] = "completing" /\ level'[q] = k
            /\ \A r \in Resources : branch'[t][r] # "none" => r \in Used(method'[q])
      <4>1. CASE k = "own"
        BY <1>b, <2>1, <3>1, <4>1 DEF Own
      <4>2. CASE k = "inner"
        BY <1>b, <2>1, <3>1, <4>2 DEF Inner
      <4>. QED
        BY <4>1, <4>2 DEF Levels
    <3>. QED
      BY <3>2 DEF TxInv
  <2>4. ThreadInv(q)'
    BY <1>1, <1>b, <2>1 DEF RequestInv, ThreadInv
  <2>5. DoneInv(q)'
    <3>1. /\ outside[q] \subseteq Outside \/ ~InTx(method[q])
          /\ (\E r \in Resources : branch[Own(q)][r] \in Lost) =>
                method[q] \in CreatingMethods
          /\ method[q] = "call" => /\ tx[Own(q)] \notin {"active", "commit"}
                                   /\ step[q] > 3 => "test-non-jta" \in outside[q]
          /\ reply[q] # "error" => step[q] > Len(Script[method[q]])
          /\ tx[Own(q)] = "marked" => reply[q] = "error" \/ method[q] = "call"
          /\ reply[q] = "error" => tx[Own(q)] \notin {"active", "commit"}
          /\ reply[q] # "ok"
      BY <1>1, <1>b DEF RequestInv, DoneInv
    <3>2. ASSUME method'[q] \in Rethrowing, NEW i \in DOMAIN Script[method'[q]],
                 i < step'[q], Script[method'[q]][i].do # "create"
          PROVE  LET o == Script[method'[q]][i] IN
                 \/ o.on \in outside'[q]
                 \/ tx'[Own(q)] = "abort"
                 \/ branch'[Own(q)][o.on] \in {"active", "prepared", "committed"}
      <4>. DEFINE on == Script[method[q]][i].on
      <4>1. \/ on \in outside[q]
            \/ tx[Own(q)] = "abort"
            \/ branch[Own(q)][on] \in {"active", "prepared", "committed"}
        BY <1>b, <3>2 DEF RequestInv, DoneInv
      <4>2. on \in Resources
        <5>1. method[q] \in Methods
          BY <1>b, <3>2 DEF Rethrowing
        <5>. QED
          BY <1>b, <3>2, <5>1, ScriptFacts DEF ScriptOf
      <4>3. s = "commit" => tx[Own(q)] # "abort"
        BY <2>1, <4>2 DEF RequestInv, TxInv, Legal, Own, Levels
      <4>4. s = "none" => branch[Own(q)][on] = "none" /\ tx[Own(q)] # "abort"
        BY <2>1, <4>2 DEF RequestInv, TxInv, Legal, Own, Levels
      <4>. HIDE DEF on
      <4>5. on \in outside'[q] \/ tx'[Own(q)] = "abort"
            \/ branch'[Own(q)][on] \in {"active", "prepared", "committed"}
        BY <1>b, <2>1, <4>1, <4>2, <4>3, <4>4
      <4>. QED
        BY <1>b, <4>5 DEF on
    <3>3. (\E r \in Resources : branch'[Own(q)][r] \in Lost) =>
            method'[q] \in CreatingMethods
      BY <1>b, <2>1, <3>1
    <3>4. reply'[q] = "ok" => method[q] = "call" \/ s \in {"none", "commit"}
      BY <2>1, <3>1
    <3>5. reply'[q] = "error" => (s = "commit" => OneBranchOrHeuristic(Own(q))')
      BY <2>1, <3>1
    <3>. QED
      BY <1>b, <2>1, <2>2, <3>1, <3>2, <3>3, <3>4, <3>5 DEF DoneInv
  <2>6. SplitInv(q)'
    <3>1. ASSUME NEW k \in Levels
          PROVE  LET t == <<q, k>> IN
            /\ tx'[t] = "active" /\ (\E r \in Resources : branch'[t][r] \in {"prepared", "void"}) =>
                 Cardinality(Branches(t)') > 1
            /\ tx'[t] = "commit" /\ (\E r \in Resources : branch'[t][r] = "aborted") =>
                 \A r \in Resources : branch'[t][r] \in {"none", "aborted"}
            /\ tx'[t] = "commit" /\ (\E r \in Resources : branch'[t][r] \in {"void", "missing"}) =>
                 reply'[q] = "error"
      <4>1. CASE k = level[q]
        <5>1. /\ tx'[<<q, k>>] = s /\ s \in {"none", "commit", "abort"}
              /\ s = "commit" /\ answer = "ok" =>
                   \A r \in Resources : branch'[<<q, k>>][r] \notin {"void", "missing"}
              /\ s = "commit" /\ (\E r \in Resources : branch'[<<q, k>>][r] = "aborted") =>
                   \A r \in Resources : branch'[<<q, k>>][r] \in {"none", "aborted"}
          BY <4>1 DEF Completes
        <5>2. answer = "error" => reply'[q] = "error"
          BY <2>1
        <5>. QED
          BY <5>1, <5>2
      <4>2. CASE k # level[q]
        <5>1. /\ k = "inner" /\ <<q, k>> = Inner(q) /\ tx[<<q, k>>] # "active"
          BY <1>1, <4>2 DEF Levels, Inner, RequestInv, TxInv
        <5>2. tx'[<<q, k>>] = tx[<<q, k>>] /\ branch'[<<q, k>>] = branch[<<q, k>>]
          BY <2>1, <5>1
        <5>3. reply[q] = "error" => reply'[q] = "error"
          BY <2>1
        <5>. QED
          BY <4>2, <5>1, <5>2, <5>3 DEF RequestInv, SplitInv
      <4>. QED
        BY <4>1, <4>2
    <3>. QED
      BY <3>1 DEF SplitInv
  <2>. QED
    BY <2>3, <2>4, <2>5, <2>6 DEF RequestInv
<1>2. CASE level[q] = "inner"
  <2>1. /\ pc'[q] = IF answer = "ok" THEN "run" ELSE "completing"
        /\ reply'[q] = IF answer = "ok" THEN "none" ELSE "error"
        /\ tx'[Inner(q)] = s
        /\ tx'[Own(q)] = IF answer = "error" THEN Marked(tx[Own(q)]) ELSE tx[Own(q)]
        /\ branch'[Own(q)] = branch[Own(q)]
        /\ \A r \in Resources : branch'[Inner(q)][r] \in Legal[s]
        /\ \A r \in Resources : branch'[Inner(q)][r] # "none" => branch[Inner(q)][r] # "none"
    BY <1>2 DEF Completes, Own, Inner, Levels, RequestInv, ThreadInv
  <2>2. /\ method[q] = "runInsertionWithCreation" /\ step[q] = 3 /\ reply[q] = "none"
        /\ tx[Own(q)] \in {"active", "abort"}
    BY <1>2, <1>b DEF RequestInv, ThreadInv
  <2>3. /\ tx'[Own(q)] \in {"active", "abort", "marked"}
        /\ tx'[Own(q)] = "active" => answer = "ok" /\ tx[Own(q)] = "active"
        /\ tx'[Own(q)] = "marked" => answer = "error" /\ tx[Own(q)] = "active"
        /\ tx'[Own(q)] = "abort" <=> tx[Own(q)] = "abort"
    BY <2>1, <2>2 DEF Marked
  <2>4. TxInv(q)'
    <3>1. /\ \A r \in Resources : branch[Own(q)][r] # "none" => r \in Used(method[q])
          /\ \A r \in Resources : branch[Own(q)][r] \in Legal[tx[Own(q)]]
          /\ tx[Own(q)] = "active" =>
               \A r \in Resources : branch[Own(q)][r] \notin {"prepared", "void"}
          /\ \A r \in Resources : branch[Inner(q)][r] # "none" => r \in Used(method[q])
      BY <1>2 DEF RequestInv, TxInv, Own, Inner, Levels
    <3>2. \A b : b \in Legal["active"] /\ b \notin {"prepared", "void"} => b \in Legal["marked"]
      BY DEF Legal
    <3>3. /\ \A r \in Resources : branch'[Own(q)][r] \in Legal[tx'[Own(q)]]
          /\ tx'[Own(q)] = "active" =>
               \A r \in Resources : branch'[Own(q)][r] \notin {"prepared", "void"}
          /\ pc'[q] \in {"run", "completing"}
      BY <2>1, <2>2, <2>3, <3>1, <3>2
    <3>4. ASSUME NEW k \in Levels
          PROVE  LET t == <<q, k>> IN
            /\ \A r \in Resources : branch'[t][r] \in Legal[tx'[t]]
            /\ tx'[t] \in {"active", "marked"} =>
                 pc'[q] \in {"run", "completing"} /\ (k = "inner" => level'[q] = "inner")
            /\ tx'[t] = "active" /\ (\E r \in Resources : branch'[t][r] \in {"prepared", "void"}) =>
                 pc'[q] = "completing" /\ level'[q] = k
            /\ \A r \in Resources : branch'[t][r] # "none" => r \in Used(method'[q])
      <4>1. CASE k = "own"
        BY <1>b, <2>1, <3>1, <3>3, <4>1 DEF Own
      <4>2. CASE k = "inner"
        BY <1>b, <2>1, <3>1, <4>2 DEF Inner
      <4>. QED
        BY <4>1, <4>2 DEF Levels
    <3>. QED
      BY <3>4 DEF TxInv
  <2>5. ThreadInv(q)'
    BY <1>b, <2>1, <2>2 DEF ThreadInv, Methods, Script
  <2>6. DoneInv(q)'
    <3>1. /\ outside[q] \subseteq Outside \/ ~InTx(method[q])
          /\ (\E r \in Resources : branch[Own(q)][r] \in Lost) =>
                method[q] \in CreatingMethods
          /\ method[q] \in Rethrowing =>
               \A i \in DOMAIN Script[method[q]] :
                 LET o == Script[method[q]][i] IN
                 i < step[q] /\ o.do # "create" =>
                   \/ o.on \in outside[q]
                   \/ tx[Own(q)] = "abort"
                   \/ branch[Own(q)][o.on] \in {"active", "prepared", "committed"}
      BY DEF RequestInv, DoneInv
    <3>. QED
      BY <1>b, <2>1, <2>2, <2>3, <3>1 DEF DoneInv
  <2>7. SplitInv(q)'
    <3>1. ASSUME NEW k \in Levels
          PROVE  LET t == <<q, k>> IN
            /\ tx'[t] = "active" /\ (\E r \in Resources : branch'[t][r] \in {"prepared", "void"}) =>
                 Cardinality(Branches(t)') > 1
            /\ tx'[t] = "commit" /\ (\E r \in Resources : branch'[t][r] = "aborted") =>
                 \A r \in Resources : branch'[t][r] \in {"none", "aborted"}
            /\ tx'[t] = "commit" /\ (\E r \in Resources : branch'[t][r] \in {"void", "missing"}) =>
                 reply'[q] = "error"
      <4>1. CASE k = level[q]
        <5>1. /\ tx'[<<q, k>>] = s /\ s \in {"none", "commit", "abort"}
              /\ s = "commit" /\ answer = "ok" =>
                   \A r \in Resources : branch'[<<q, k>>][r] \notin {"void", "missing"}
              /\ s = "commit" /\ (\E r \in Resources : branch'[<<q, k>>][r] = "aborted") =>
                   \A r \in Resources : branch'[<<q, k>>][r] \in {"none", "aborted"}
          BY <4>1 DEF Completes
        <5>2. answer = "error" => reply'[q] = "error"
          BY <2>1
        <5>. QED
          BY <5>1, <5>2
      <4>2. CASE k # level[q]
        <5>1. /\ k = "own" /\ <<q, k>> = Own(q)
          BY <1>2, <4>2 DEF Levels, Own
        <5>2. branch'[<<q, k>>] = branch[<<q, k>>]
          BY <2>1, <5>1
        <5>3. /\ tx'[<<q, k>>] # "commit"
              /\ tx'[<<q, k>>] = "active" =>
                   \A r \in Resources : branch[<<q, k>>][r] \notin {"prepared", "void"}
          BY <1>2, <2>3, <5>1 DEF RequestInv, TxInv
        <5>. QED
          BY <5>2, <5>3
      <4>. QED
        BY <4>1, <4>2
    <3>. QED
      BY <3>1 DEF SplitInv
  <2>. QED
    BY <2>4, <2>5, <2>6, <2>7 DEF RequestInv
<1>. QED
  BY <1>a, <1>1, <1>2 DEF Levels

(* Branches that change while the thread stays where it is: a vote, the    *)
(* timeout, phase two, or a crash.                                         *)
StaysInMethod(q) ==
  /\ method'[q] = method[q] /\ step'[q] = step[q] /\ level'[q] = level[q]
  /\ outside'[q] = outside[q] /\ reply'[q] = reply[q]

(* A vote of a resource: no last resource has one here, since a method     *)
(* that uses several resources and one of them is MyBean.call, which has   *)
(* marked its transaction.                                                 *)
Votes(q, r) ==
  LET t == <<q, level[q]>> IN
  /\ StaysInMethod(q)
  /\ pc[q] = "completing" /\ pc'[q] = pc[q] /\ tx[t] = "active"
  /\ \A k \in Levels : tx'[<<q, k>>] = tx[<<q, k>>]
  /\ \A k \in Levels, s \in Resources :
       k # level[q] \/ s # r => branch'[<<q, k>>][s] = branch[<<q, k>>][s]
  /\ branch[t][r] \in {"active", "broken"}
  /\ Cardinality(Branches(t)) > 1
  /\ branch'[t][r] = IF branch[t][r] = "broken" THEN "void"
                     ELSE IF r \in Last THEN "committed" ELSE "prepared"

(* The vote of a resource.                                                 *)
LEMMA VotesKept ==
  ASSUME TypeOK, NEW q \in Requests, NEW r \in Resources, RequestInv(q), Votes(q, r)
  PROVE  RequestInv(q)'
<1>. DEFINE l == level[q]
            t == <<q, l>>
<1>1. /\ method'[q] = method[q] /\ step'[q] = step[q] /\ level'[q] = l
      /\ outside'[q] = outside[q] /\ reply'[q] = reply[q]
      /\ pc[q] = "completing" /\ pc'[q] = pc[q] /\ tx[t] = "active"
      /\ \A k \in Levels : tx'[<<q, k>>] = tx[<<q, k>>]
      /\ \A k \in Levels, s \in Resources :
           k # l \/ s # r => branch'[<<q, k>>][s] = branch[<<q, k>>][s]
      /\ branch[t][r] \in {"active", "broken"}
      /\ l \in Levels /\ method[q] \in Methods
  BY LocalFlat DEF Votes, StaysInMethod, RequestInv, ThreadInv
<1>2. r \notin Last
  <2>. SUFFICES ASSUME r \in Last PROVE FALSE
    OBVIOUS
  <2>1. method[q] # "call"
    <3>1. method[q] = "call" => l = "own"
      BY <1>1 DEF RequestInv, ThreadInv, Levels
    <3>. QED
      BY <1>1, <3>1 DEF RequestInv, DoneInv, Own
  <2>2. \A s \in Resources : branch[t][s] # "none" => s \in Used(method[q])
    BY <1>1 DEF RequestInv, TxInv
  <2>3. r \in Used(method[q])
    BY <1>1, <2>2
  <2>4. \A s \in Used(method[q]) : s = r
    BY <1>1, <2>1, <2>3, ScriptFacts DEF Used, ScriptOf
  <2>5. Branches(t) \subseteq {r}
    BY <2>2, <2>4 DEF Branches
  <2>6. Branches(t) = {} \/ Branches(t) = {r}
    BY <2>5
  <2>7. Cardinality(Branches(t)) \in {0, 1}
    BY <2>6, FS_EmptySet, FS_Singleton
  <2>. QED
    BY <2>7 DEF Votes
<1>3. branch'[t][r] \in {"prepared", "void"} /\ (branch'[t][r] = "void" => branch[t][r] = "broken")
  BY <1>1, <1>2 DEF Votes
<1>. HIDE DEF l
<1>4. TxInv(q)'
  <2>. SUFFICES ASSUME NEW k \in Levels
                PROVE  LET u == <<q, k>> IN
                  /\ \A s \in Resources : branch'[u][s] \in Legal[tx'[u]]
                  /\ tx'[u] \in {"active", "marked"} =>
                       pc'[q] \in {"run", "completing"} /\ (k = "inner" => level'[q] = "inner")
                  /\ tx'[u] = "active" /\ (\E s \in Resources : branch'[u][s] \in {"prepared", "void"}) =>
                       pc'[q] = "completing" /\ level'[q] = k
                  /\ \A s \in Resources : branch'[u][s] # "none" => s \in Used(method'[q])
    BY DEF TxInv
  <2>1. /\ \A s \in Resources : branch[<<q, k>>][s] \in Legal[tx[<<q, k>>]]
        /\ tx[<<q, k>>] \in {"active", "marked"} =>
             pc[q] \in {"run", "completing"} /\ (k = "inner" => level[q] = "inner")
        /\ tx[<<q, k>>] = "active" /\ (\E s \in Resources : branch[<<q, k>>][s] \in {"prepared", "void"}) =>
             pc[q] = "completing" /\ level[q] = k
        /\ \A s \in Resources : branch[<<q, k>>][s] # "none" => s \in Used(method[q])
    BY DEF RequestInv, TxInv
  <2>2. {"prepared", "void"} \subseteq Legal["active"]
    BY DEF Legal
  <2>3. \A s \in Resources :
          \/ branch'[<<q, k>>][s] = branch[<<q, k>>][s]
          \/ /\ k = l /\ s = r /\ branch'[<<q, k>>][s] \in Legal[tx[<<q, k>>]]
             /\ branch[<<q, k>>][s] # "none"
    BY <1>1, <1>3, <2>2
  <2>. QED
    BY <1>1, <2>1, <2>3 DEF l
<1>5. ThreadInv(q)'
  <2>1. tx'[Own(q)] = tx[Own(q)] /\ tx'[Inner(q)] = tx[Inner(q)]
    BY <1>1 DEF Own, Inner, Levels
  <2>. QED
    BY <1>1, <2>1 DEF RequestInv, ThreadInv, l
<1>6. DoneInv(q)'
  <2>1. /\ tx'[Own(q)] = tx[Own(q)]
        /\ \A s \in Resources :
             \/ branch'[Own(q)][s] = branch[Own(q)][s]
             \/ /\ l = "own" /\ tx[Own(q)] = "active"
                /\ branch'[Own(q)][s] \in {"prepared", "void"}
                /\ branch'[Own(q)][s] = "void" => branch[Own(q)][s] = "broken"
                /\ branch[Own(q)][s] = "broken" => branch'[Own(q)][s] = "void"
    BY <1>1, <1>3 DEF Own, Levels, Votes, l
  <2>2. ASSUME method'[q] \in Rethrowing, NEW i \in DOMAIN Script[method'[q]],
               i < step'[q], Script[method'[q]][i].do # "create"
        PROVE  LET o == Script[method'[q]][i] IN
               \/ o.on \in outside'[q]
               \/ tx'[Own(q)] = "abort"
               \/ branch'[Own(q)][o.on] \in {"active", "prepared", "committed"}
    <3>. DEFINE on == Script[method[q]][i].on
    <3>1. \/ on \in outside[q]
          \/ tx[Own(q)] = "abort"
          \/ branch[Own(q)][on] \in {"active", "prepared", "committed"}
      BY <1>1, <2>2 DEF RequestInv, DoneInv
    <3>2. on \in Resources
      BY <1>1, <2>2, ScriptFacts DEF ScriptOf
    <3>. HIDE DEF on
    <3>3. \/ on \in outside'[q]
          \/ tx'[Own(q)] = "abort"
          \/ branch'[Own(q)][on] \in {"active", "prepared", "committed"}
      BY <1>1, <2>1, <3>1, <3>2
    <3>. QED
      BY <1>1, <3>3 DEF on
  <2>3. reply[q] = "error" => l = "inner" \/ tx[Own(q)] # "active"
    BY <1>1 DEF RequestInv, DoneInv
  <2>4. /\ reply[q] # "ok"
        /\ reply[q] = "error" => tx[Own(q)] # "active" /\ tx[Own(q)] # "commit"
    BY <1>1 DEF RequestInv, DoneInv
  <2>5. (\E s \in Resources : branch'[Own(q)][s] \in Lost) =>
          \E s \in Resources : branch[Own(q)][s] \in Lost
    BY <2>1 DEF Lost
  <2>. QED
    BY <1>1, <2>1, <2>2, <2>4, <2>5 DEF RequestInv, DoneInv, l
<1>7. SplitInv(q)'
  <2>1. /\ tx'[t] = "active" /\ Cardinality(Branches(t)) > 1 /\ t = <<q, l>>
        /\ \A s \in Resources : branch'[t][s] # "none" <=> branch[t][s] # "none"
    BY <1>1, <1>3 DEF Votes, l
  <2>2. ASSUME NEW k \in Levels
        PROVE  LET u == <<q, k>> IN
               /\ tx'[u] = tx[u]
               /\ Cardinality(Branches(u))' = Cardinality(Branches(u))
               /\ \/ k # l /\ \A s \in Resources : branch'[u][s] = branch[u][s]
                  \/ tx[u] = "active" /\ Cardinality(Branches(u)) > 1
    <3>1. tx'[<<q, k>>] = tx[<<q, k>>]
      BY <1>1, <2>1 DEF l
    <3>2. \A s \in Resources : branch'[<<q, k>>][s] # "none" <=> branch[<<q, k>>][s] # "none"
      BY <1>1, <2>1 DEF l
    <3>3. Cardinality(Branches(<<q, k>>))' = Cardinality(Branches(<<q, k>>))
      BY <3>2, SameBranches
    <3>4. \/ k # l /\ \A s \in Resources : branch'[<<q, k>>][s] = branch[<<q, k>>][s]
          \/ tx[<<q, k>>] = "active" /\ Cardinality(Branches(<<q, k>>)) > 1
      BY <1>1, <2>1 DEF Votes, l
    <3>. QED
      BY <3>1, <3>3, <3>4
  <2>3. UNCHANGED <<reply[q], level[q], pc[q]>>
    BY DEF Votes, StaysInMethod
  <2>4. ASSUME NEW k \in Levels
        PROVE  LET u == <<q, k>> IN
          /\ tx'[u] = "active" /\ (\E s \in Resources : branch'[u][s] \in {"prepared", "void"}) =>
               Cardinality(Branches(u))' > 1
          /\ tx'[u] = "commit" /\ (\E s \in Resources : branch'[u][s] = "aborted") =>
               \A s \in Resources : branch'[u][s] \in {"none", "aborted"}
          /\ tx'[u] = "commit" /\ (\E s \in Resources : branch'[u][s] \in {"void", "missing"}) =>
               \/ reply'[q] = "error"
               \/ reply'[q] = "none" /\ level'[q] = k /\ pc'[q] \in {"completing", "dead"}
    <3>. DEFINE u == <<q, k>>
                n == Cardinality(Branches(u))
    <3>1. /\ tx'[u] = tx[u] /\ n' = n
          /\ \/ \A s \in Resources : branch'[u][s] = branch[u][s]
             \/ tx[u] = "active" /\ n > 1
      BY <2>2
    <3>2. /\ tx[u] = "active" /\ (\E s \in Resources : branch[u][s] \in {"prepared", "void"}) =>
               n > 1
          /\ tx[u] = "commit" /\ (\E s \in Resources : branch[u][s] = "aborted") =>
               \A s \in Resources : branch[u][s] \in {"none", "aborted"}
          /\ tx[u] = "commit" /\ (\E s \in Resources : branch[u][s] \in {"void", "missing"}) =>
               \/ reply[q] = "error"
               \/ reply[q] = "none" /\ level[q] = k /\ pc[q] \in {"completing", "dead"}
      BY DEF RequestInv, SplitInv
    <3>. HIDE DEF n, u
    <3>3. /\ tx'[u] = "active" /\ (\E s \in Resources : branch'[u][s] \in {"prepared", "void"}) =>
               n' > 1
          /\ tx'[u] = "commit" /\ (\E s \in Resources : branch'[u][s] = "aborted") =>
               \A s \in Resources : branch'[u][s] \in {"none", "aborted"}
          /\ tx'[u] = "commit" /\ (\E s \in Resources : branch'[u][s] \in {"void", "missing"}) =>
               \/ reply'[q] = "error"
               \/ reply'[q] = "none" /\ level'[q] = k /\ pc'[q] \in {"completing", "dead"}
      BY <2>3, <3>1, <3>2
    <3>. QED
      BY <3>3 DEF n, u
  <2>. QED
    BY <2>4 DEF SplitInv
<1>. QED
  BY <1>4, <1>5, <1>6, <1>7 DEF RequestInv

(* The decision, when every resource has voted.                            *)
Decides(q) ==
  LET t == <<q, level[q]>> IN
  /\ StaysInMethod(q)
  /\ pc[q] = "completing" /\ pc'[q] = pc[q] /\ tx[t] = "active" /\ tx'[t] = "commit"
  /\ \A k \in Levels : branch'[<<q, k>>] = branch[<<q, k>>]
  /\ \A k \in Levels : k # level[q] => tx'[<<q, k>>] = tx[<<q, k>>]
  /\ Cardinality(Branches(t)) > 1
  /\ \A r \in Resources : branch[t][r] \in Voted

(* The caller waits for the end of phase two.                              *)
LEMMA DecidesKept ==
  ASSUME TypeOK, NEW q \in Requests, RequestInv(q), Decides(q)
  PROVE  RequestInv(q)'
<1>. DEFINE l == level[q]
            t == <<q, l>>
<1>1. /\ method'[q] = method[q] /\ step'[q] = step[q] /\ level'[q] = l
      /\ outside'[q] = outside[q] /\ reply'[q] = reply[q]
      /\ pc[q] = "completing" /\ pc'[q] = pc[q] /\ tx[t] = "active" /\ tx'[t] = "commit"
      /\ \A k \in Levels : branch'[<<q, k>>] = branch[<<q, k>>]
      /\ \A k \in Levels : k # l => tx'[<<q, k>>] = tx[<<q, k>>]
      /\ \A r \in Resources : branch[t][r] \in Voted
      /\ l \in Levels
  BY LocalFlat DEF Decides, StaysInMethod
<1>2. \A k \in Levels : Branches(<<q, k>>)' = Branches(<<q, k>>)
  BY <1>1 DEF Branches
<1>3. \A r \in Resources : branch[t][r] \in {"none", "prepared", "void"}
  BY <1>1 DEF RequestInv, TxInv, Legal, Voted
<1>4. reply[q] = "none" /\ method[q] # "call"
  <2>1. method[q] = "call" => l = "own"
    BY <1>1 DEF RequestInv, ThreadInv, Levels
  <2>2. method[q] # "call"
    BY <1>1, <2>1 DEF RequestInv, DoneInv, Own
  <2>3. l = "own" => reply[q] # "error"
    BY <1>1 DEF RequestInv, DoneInv, Own
  <2>. QED
    BY <1>1, <2>2, <2>3, LocalFlat DEF RequestInv, ThreadInv, DoneInv, Levels
<1>. HIDE DEF l
<1>5. TxInv(q)'
  <2>1. ASSUME NEW k \in Levels
        PROVE  LET u == <<q, k>> IN
          /\ \A s \in Resources : branch'[u][s] \in Legal[tx'[u]]
          /\ tx'[u] \in {"active", "marked"} =>
               pc'[q] \in {"run", "completing"} /\ (k = "inner" => level'[q] = "inner")
          /\ tx'[u] = "active" /\ (\E s \in Resources : branch'[u][s] \in {"prepared", "void"}) =>
               pc'[q] = "completing" /\ level'[q] = k
          /\ \A s \in Resources : branch'[u][s] # "none" => s \in Used(method'[q])
    <3>1. CASE k = l
      <4>1. \A s \in Resources : branch[<<q, k>>][s] # "none" => s \in Used(method[q])
        BY DEF RequestInv, TxInv
      <4>2. {"none", "prepared", "void"} \subseteq Legal["commit"]
        BY DEF Legal
      <4>. QED
        BY <1>1, <1>3, <3>1, <4>1, <4>2
    <3>2. CASE k # l
      BY <1>1, <3>2 DEF RequestInv, TxInv, l
    <3>. QED
      BY <3>1, <3>2
  <2>. QED
    BY <2>1 DEF TxInv
<1>6. ThreadInv(q)'
  <2>1. /\ l = "inner" => tx'[Own(q)] = tx[Own(q)] /\ method[q] = "runInsertionWithCreation"
        /\ l = "own" => tx'[Inner(q)] = tx[Inner(q)]
    BY <1>1 DEF RequestInv, ThreadInv, Own, Inner, Levels, l
  <2>. QED
    BY <1>1, <2>1 DEF RequestInv, ThreadInv, Levels, l
<1>7. DoneInv(q)'
  <2>1. /\ branch'[Own(q)] = branch[Own(q)]
        /\ tx'[Own(q)] = tx[Own(q)] \/ (tx[Own(q)] = "active" /\ tx'[Own(q)] = "commit")
    BY <1>1 DEF Own, Levels
  <2>. QED
    BY <1>1, <1>4, <2>1 DEF RequestInv, DoneInv, l
<1>8. SplitInv(q)'
  <2>1. ASSUME NEW k \in Levels
        PROVE  LET u == <<q, k>> IN
          /\ tx'[u] = "active" /\ (\E s \in Resources : branch'[u][s] \in {"prepared", "void"}) =>
               Cardinality(Branches(u)') > 1
          /\ tx'[u] = "commit" /\ (\E s \in Resources : branch'[u][s] = "aborted") =>
               \A s \in Resources : branch'[u][s] \in {"none", "aborted"}
          /\ tx'[u] = "commit" /\ (\E s \in Resources : branch'[u][s] \in {"void", "missing"}) =>
               \/ reply'[q] = "error"
               \/ reply'[q] = "none" /\ level'[q] = k /\ pc'[q] \in {"completing", "dead"}
    <3>1. CASE k = l
      BY <1>1, <1>3, <1>4, <3>1
    <3>2. CASE k # l
      BY <1>1, <1>2, <3>2 DEF RequestInv, SplitInv, l
    <3>. QED
      BY <3>1, <3>2
  <2>. QED
    BY <2>1 DEF SplitInv
<1>. QED
  BY <1>5, <1>6, <1>7, <1>8 DEF RequestInv

(* Transactions that are aborted from outside, or whose decision reaches   *)
(* the branches.                                                           *)
Settles(q) ==
  /\ StaysInMethod(q)
  /\ pc'[q] = pc[q] \/ (pc'[q] = "dead" /\ pc[q] \notin {"new", "done"}
                        /\ \A k \in Levels : tx'[<<q, k>>] \notin {"active", "marked"})
  /\ \A k \in Levels :
       LET t == <<q, k>> IN
       \/ /\ tx[t] \in {"active", "marked"} /\ tx'[t] = "abort" /\ pc[q] \in {"run", "completing"}
          /\ \A r \in Resources : branch'[t][r] = Aborted(branch[t][r])
       \/ /\ tx'[t] = tx[t]
          /\ \A r \in Resources :
               \/ branch'[t][r] = branch[t][r]
               \/ tx[t] = "commit" /\ branch[t][r] = "prepared" /\ branch'[t][r] = "committed"
               \/ tx[t] = "commit" /\ branch[t][r] = "void" /\ branch'[t][r] = "missing"
               \/ tx[t] = "abort" /\ branch[t][r] = "prepared" /\ branch'[t][r] = "aborted"

(* A branch settled as decided, by the call or by the recovery.            *)
LEMMA SettlesKept ==
  ASSUME TypeOK, NEW q \in Requests, RequestInv(q), Settles(q)
  PROVE  RequestInv(q)'
<1>1. /\ method'[q] = method[q] /\ step'[q] = step[q] /\ level'[q] = level[q]
      /\ outside'[q] = outside[q] /\ reply'[q] = reply[q]
      /\ pc'[q] = pc[q] \/ (pc'[q] = "dead" /\ pc[q] \notin {"new", "done"})
  BY DEF Settles, StaysInMethod
<1>2. ASSUME NEW k \in Levels
      PROVE  /\ \A r \in Resources : branch'[<<q, k>>][r] \in Legal[tx'[<<q, k>>]]
             /\ \A r \in Resources : branch'[<<q, k>>][r] # "none" <=> branch[<<q, k>>][r] # "none"
             /\ \A r \in Resources : branch'[<<q, k>>][r] \in Lost => branch[<<q, k>>][r] \in Lost
             /\ tx'[<<q, k>>] = tx[<<q, k>>] \/ (tx[<<q, k>>] \in {"active", "marked"}
                                                 /\ tx'[<<q, k>>] = "abort")
             /\ tx'[<<q, k>>] = tx[<<q, k>>] => \A r \in Resources :
                  \/ branch'[<<q, k>>][r] = branch[<<q, k>>][r]
                  \/ /\ tx[<<q, k>>] = "commit" /\ branch[<<q, k>>][r] = "prepared"
                     /\ branch'[<<q, k>>][r] = "committed"
                  \/ /\ tx[<<q, k>>] = "commit" /\ branch[<<q, k>>][r] = "void"
                     /\ branch'[<<q, k>>][r] = "missing"
                  \/ tx[<<q, k>>] = "abort"
  <2>1. \A r \in Resources : branch[<<q, k>>][r] \in Legal[tx[<<q, k>>]]
    BY DEF RequestInv, TxInv
  <2>2. CASE /\ tx[<<q, k>>] \in {"active", "marked"} /\ tx'[<<q, k>>] = "abort"
             /\ \A r \in Resources : branch'[<<q, k>>][r] = Aborted(branch[<<q, k>>][r])
    BY <2>1, <2>2 DEF Legal, Aborted, Lost
  <2>3. CASE /\ tx'[<<q, k>>] = tx[<<q, k>>]
             /\ \A r \in Resources :
                  \/ branch'[<<q, k>>][r] = branch[<<q, k>>][r]
                  \/ /\ tx[<<q, k>>] = "commit" /\ branch[<<q, k>>][r] = "prepared"
                     /\ branch'[<<q, k>>][r] = "committed"
                  \/ /\ tx[<<q, k>>] = "commit" /\ branch[<<q, k>>][r] = "void"
                     /\ branch'[<<q, k>>][r] = "missing"
                  \/ /\ tx[<<q, k>>] = "abort" /\ branch[<<q, k>>][r] = "prepared"
                     /\ branch'[<<q, k>>][r] = "aborted"
    <3>1. {"committed", "missing"} \subseteq Legal["commit"] /\ "aborted" \in Legal["abort"]
      BY DEF Legal
    <3>. QED
      BY <2>1, <2>3, <3>1 DEF Lost
  <2>. QED
    BY <2>2, <2>3 DEF Settles
<1>3. pc'[q] # pc[q] => pc'[q] = "dead" /\ \A k \in Levels : tx'[<<q, k>>] \notin {"active", "marked"}
  BY DEF Settles
<1>4. TxInv(q)'
  <2>. SUFFICES ASSUME NEW k \in Levels
                PROVE  LET u == <<q, k>> IN
                  /\ \A s \in Resources : branch'[u][s] \in Legal[tx'[u]]
                  /\ tx'[u] \in {"active", "marked"} =>
                       pc'[q] \in {"run", "completing"} /\ (k = "inner" => level'[q] = "inner")
                  /\ tx'[u] = "active" /\ (\E s \in Resources : branch'[u][s] \in {"prepared", "void"}) =>
                       pc'[q] = "completing" /\ level'[q] = k
                  /\ \A s \in Resources : branch'[u][s] # "none" => s \in Used(method'[q])
    BY DEF TxInv
  <2>1. /\ tx[<<q, k>>] \in {"active", "marked"} =>
             pc[q] \in {"run", "completing"} /\ (k = "inner" => level[q] = "inner")
        /\ tx[<<q, k>>] = "active" /\ (\E s \in Resources : branch[<<q, k>>][s] \in {"prepared", "void"}) =>
             pc[q] = "completing" /\ level[q] = k
        /\ \A s \in Resources : branch[<<q, k>>][s] # "none" => s \in Used(method[q])
    BY DEF RequestInv, TxInv
  <2>. QED
    BY <1>1, <1>2, <1>3, <2>1
<1>5. /\ tx'[Own(q)] = tx[Own(q)] \/ (tx[Own(q)] \in {"active", "marked"} /\ tx'[Own(q)] = "abort")
      /\ tx'[Inner(q)] = "none" <=> tx[Inner(q)] = "none"
      /\ \A r \in Resources : branch'[Own(q)][r] # "none" <=> branch[Own(q)][r] # "none"
      /\ \A r \in Resources : branch'[Own(q)][r] \in Lost => branch[Own(q)][r] \in Lost
      /\ tx'[Own(q)] = tx[Own(q)] => \A r \in Resources :
           \/ branch'[Own(q)][r] = branch[Own(q)][r]
           \/ /\ tx[Own(q)] = "commit" /\ branch[Own(q)][r] = "prepared"
              /\ branch'[Own(q)][r] = "committed"
           \/ /\ tx[Own(q)] = "commit" /\ branch[Own(q)][r] = "void"
              /\ branch'[Own(q)][r] = "missing"
           \/ tx[Own(q)] = "abort"
  BY <1>2 DEF Own, Inner, Levels
<1>6. ThreadInv(q)'
  BY <1>1, <1>3, <1>5 DEF RequestInv, ThreadInv
<1>7. DoneInv(q)'
  <2>1. Branches(Own(q))' = Branches(Own(q))
    BY <1>5 DEF Branches
  <2>2. ASSUME method'[q] \in Rethrowing, NEW i \in DOMAIN Script[method'[q]],
               i < step'[q], Script[method'[q]][i].do # "create"
        PROVE  LET o == Script[method'[q]][i] IN
               \/ o.on \in outside'[q]
               \/ tx'[Own(q)] = "abort"
               \/ branch'[Own(q)][o.on] \in {"active", "prepared", "committed"}
    <3>. DEFINE on == Script[method[q]][i].on
    <3>1. \/ on \in outside[q]
          \/ tx[Own(q)] = "abort"
          \/ branch[Own(q)][on] \in {"active", "prepared", "committed"}
      BY <1>1, <2>2 DEF RequestInv, DoneInv
    <3>2. on \in Resources
      <4>1. method[q] \in Methods
        BY <1>1, <2>2 DEF Rethrowing
      <4>. QED
        BY <1>1, <2>2, <4>1, ScriptFacts DEF ScriptOf
    <3>. HIDE DEF on
    <3>3. \/ on \in outside'[q]
          \/ tx'[Own(q)] = "abort"
          \/ branch'[Own(q)][on] \in {"active", "prepared", "committed"}
      BY <1>1, <1>5, <3>1, <3>2
    <3>. QED
      BY <1>1, <3>3 DEF on
  <2>3. /\ outside[q] \subseteq Outside \/ ~InTx(method[q])
        /\ (\E r \in Resources : branch[Own(q)][r] \in Lost) => method[q] \in CreatingMethods
        /\ method[q] = "call" => /\ tx[Own(q)] # "commit"
                                 /\ pc[q] = "completing" => tx[Own(q)] # "active"
                                 /\ step[q] > 3 => "test-non-jta" \in outside[q]
        /\ pc[q] = "completing" /\ level[q] = "own" /\ reply[q] # "error" =>
             step[q] > Len(Script[method[q]])
        /\ pc[q] = "run" => tx[Own(q)] # "commit"
        /\ pc[q] = "completing" /\ tx[Own(q)] = "commit" => reply[q] = "none"
        /\ tx[Own(q)] = "marked" => reply[q] = "error" \/ method[q] = "call"
        /\ reply[q] = "ok" => /\ pc[q] = "done" /\ step[q] > Len(Script[method[q]])
                              /\ method[q] = "call" \/ tx[Own(q)] \in {"none", "commit"}
        /\ reply[q] = "error" => /\ pc[q] \in {"completing", "done", "dead"}
                                 /\ tx[Own(q)] # "active"
                                 /\ tx[Own(q)] = "commit" => OneBranchOrHeuristic(Own(q))
    BY DEF RequestInv, DoneInv
  <2>4. (\E r \in Resources : branch'[Own(q)][r] \in Lost) => method'[q] \in CreatingMethods
    BY <1>1, <1>5, <2>3
  <2>5. tx'[Own(q)] = "commit" =>
          tx[Own(q)] = "commit" /\ (OneBranchOrHeuristic(Own(q)) => OneBranchOrHeuristic(Own(q))')
    BY <1>5, <2>1 DEF OneBranchOrHeuristic
  <2>. QED
    BY <1>1, <1>5, <2>2, <2>3, <2>4, <2>5 DEF DoneInv
<1>8. SplitInv(q)'
  <2>1. ASSUME NEW k \in Levels
        PROVE  LET u == <<q, k>> IN
          /\ tx'[u] = "active" /\ (\E s \in Resources : branch'[u][s] \in {"prepared", "void"}) =>
               Cardinality(Branches(u)') > 1
          /\ tx'[u] = "commit" /\ (\E s \in Resources : branch'[u][s] = "aborted") =>
               \A s \in Resources : branch'[u][s] \in {"none", "aborted"}
          /\ tx'[u] = "commit" /\ (\E s \in Resources : branch'[u][s] \in {"void", "missing"}) =>
               \/ reply'[q] = "error"
               \/ reply'[q] = "none" /\ level'[q] = k /\ pc'[q] \in {"completing", "dead"}
    <3>1. Branches(<<q, k>>)' = Branches(<<q, k>>)
      BY <1>2 DEF Branches
    <3>2. CASE tx'[<<q, k>>] = "active"
      <4>1. tx[<<q, k>>] = "active"
        BY <1>2, <3>2
      <4>2. \A r \in Resources : branch'[<<q, k>>][r] = branch[<<q, k>>][r]
        BY <1>2, <3>2, <4>1
      <4>. QED
        BY <3>1, <3>2, <4>1, <4>2 DEF RequestInv, SplitInv
    <3>3. CASE tx'[<<q, k>>] = "commit"
      <4>1. /\ tx[<<q, k>>] = "commit"
            /\ \A r \in Resources :
                 \/ branch'[<<q, k>>][r] = branch[<<q, k>>][r]
                 \/ branch[<<q, k>>][r] = "prepared" /\ branch'[<<q, k>>][r] = "committed"
                 \/ branch[<<q, k>>][r] = "void" /\ branch'[<<q, k>>][r] = "missing"
        BY <1>2, <3>3
      <4>2. /\ (\E r \in Resources : branch[<<q, k>>][r] = "aborted") =>
                 \A s \in Resources : branch[<<q, k>>][s] \in {"none", "aborted"}
            /\ (\E r \in Resources : branch[<<q, k>>][r] \in {"void", "missing"}) =>
                 \/ reply[q] = "error"
                 \/ reply[q] = "none" /\ level[q] = k /\ pc[q] \in {"completing", "dead"}
        BY <4>1 DEF RequestInv, SplitInv
      <4>3. pc[q] \in {"completing", "dead"} => pc'[q] \in {"completing", "dead"}
        BY <1>1
      <4>. QED
        BY <1>1, <3>3, <4>1, <4>2, <4>3
    <3>. QED
      BY <3>2, <3>3
  <2>. QED
    BY <2>1 DEF SplitInv
<1>. QED
  BY <1>4, <1>6, <1>7, <1>8 DEF RequestInv

Kind(q) ==
  \/ Untouched(q)
  \/ \E m \in Methods : Called(q, m)
  \/ OneStatement(q)
  \/ MethodOver(q)
  \/ \E s \in {"none", "commit", "abort"}, answer \in {"ok", "error"} : Completes(q, s, answer)
  \/ \E r \in Resources : Votes(q, r)
  \/ Decides(q)
  \/ Settles(q)

(* The kinds together.                                                     *)
LEMMA KindKept ==
  ASSUME TypeOK, NEW q \in Requests, RequestInv(q), Kind(q)
  PROVE  RequestInv(q)'
  BY UntouchedKept, CalledKept, OneStatementKept, MethodOverKept, CompletesKept, VotesKept,
     DecidesKept, SettlesKept
  DEF Kind

(* There are finitely many resources.                                      *)
LEMMA BranchesFinite == \A t : IsFiniteSet(Branches(t))
<1>1. ASSUME NEW a, NEW b PROVE IsFiniteSet({a, b})
  <2>1. IsFiniteSet({a}) /\ IsFiniteSet({b}) /\ {a, b} = {a} \union {b}
    BY FS_Singleton
  <2>. QED
    BY <2>1, FS_Union
<1>2. XA = {"testxa", "JmsXA"} \union {"db1", "db2"}
  BY DEF XA
<1>3. IsFiniteSet(XA) /\ IsFiniteSet(Last) /\ IsFiniteSet(Outside)
  BY <1>1, <1>2, FS_Union DEF Last, Outside
<1>4. IsFiniteSet(Resources)
  BY <1>3, FS_Union DEF Resources
<1>. QED
  BY <1>4, FS_Subset DEF Branches

(* Two members of a set of one are the same.                               *)
LEMMA AtMostOne ==
  ASSUME NEW S, IsFiniteSet(S), Cardinality(S) <= 1, NEW a \in S, NEW b \in S
  PROVE  a = b
<1>. SUFFICES ASSUME a # b PROVE FALSE
  OBVIOUS
<1>1. IsFiniteSet({a}) /\ Cardinality({a}) = 1
  BY FS_Singleton
<1>2. Cardinality({a} \union {b}) = 2
  BY <1>1, FS_AddElement
<1>3. {a} \union {b} \subseteq S
  OBVIOUS
<1>4. 2 <= Cardinality(S)
  BY <1>2, <1>3, FS_Subset
<1>5. Cardinality(S) \in Nat
  BY FS_CardinalityType
<1>. QED
  BY <1>4, <1>5

(* What a step of the specification is for each request.                   *)
LEMMA StepKinds ==
  ASSUME TypeOK, EnlistInv, [Next]_vars
  PROVE  \A q \in Requests : Kind(q)
<1>. USE DEF thread, jms, server
<1>a. \A q \in Requests : RequestInv(q) /\ TxInv(q) /\ ThreadInv(q)
  BY DEF EnlistInv, RequestInv
<1>b. /\ pc \in [Requests -> PCs] /\ method \in [Requests -> Methods \union {"none"}]
      /\ step \in [Requests -> Nat] /\ level \in [Requests -> Levels]
      /\ reply \in [Requests -> {"none", "ok", "error"}]
      /\ tx \in [Txs -> TxStates] /\ branch \in [Txs -> [Resources -> BranchStates]]
      /\ outside \in [Requests -> SUBSET Resources]
  BY Flat
<1>c. \A q \in Requests : /\ Cur(q) = <<q, level[q]>> /\ Own(q) = <<q, "own">>
                          /\ \A l \in Levels : <<q, l>> \in Txs
  BY DEF Cur, Own, Txs
<1>1. ASSUME NEW q \in Requests, NEW m \in Invoked, Invoke(q, m), NEW d \in Requests
      PROVE  Kind(d)
  <2>1. CASE d = q
    <3>1. m \in Methods
      BY EnlistmentAssumption
    <3>2. Called(q, m)
      BY <1>1, <1>b, <1>c, <3>1 DEF Invoke, Called
    <3>. QED
      BY <2>1, <3>1, <3>2 DEF Kind
  <2>2. CASE d # q
    BY <1>1, <1>b, <1>c, <2>2 DEF Invoke, Untouched, Kind
  <2>. QED
    BY <2>1, <2>2
<1>2. ASSUME NEW q \in Requests, Work(q), NEW d \in Requests PROVE Kind(d)
  <2>. DEFINE t == Cur(q)
              r == Now(q).on
  <2>a. /\ Running(q) /\ step' = [step EXCEPT ![q] = @ + 1]
        /\ UNCHANGED <<pc, method, level, reply, tx>>
        /\ r \in Resources /\ t \in Txs
    BY <1>2, <1>a, <1>c, NowFacts, Flat DEF Work
  <2>b. \/ AtOnce(q) /\ outside' = [outside EXCEPT ![q] = @ \union {r}] /\ branch' = branch
        \/ /\ ~AtOnce(q) /\ tx[t] = "active" /\ outside' = outside
           /\ branch' = [branch EXCEPT ![t][r] = "active"]
    BY <1>2 DEF Work
  <2>c. \/ AtOnce(q) /\ outside' = [outside EXCEPT ![q] = @ \union {r}] /\ branch' = branch
        \/ /\ ~AtOnce(q) /\ tx[t] = "active" /\ outside' = outside
           /\ branch'[t][r] = "active"
           /\ \A s \in Resources \ {r} : branch'[t][s] = branch[t][s]
           /\ \A u \in Txs \ {t} : branch'[u] = branch[u]
    <3>1. "active" \in BranchStates
      BY DEF BranchStates
    <3>2. ASSUME branch' = [branch EXCEPT ![t][r] = "active"]
          PROVE  /\ branch'[t][r] = "active"
                 /\ \A s \in Resources \ {r} : branch'[t][s] = branch[t][s]
                 /\ \A u \in Txs \ {t} : branch'[u] = branch[u]
      <4>. HIDE DEF t, r
      <4>. QED
        BY <1>b, <2>a, <3>1, <3>2, BranchEdit
    <3>. QED
      BY <2>b, <3>2
  <2>1. CASE d = q
    <3>1. /\ pc'[q] = pc[q] /\ method'[q] = method[q] /\ level'[q] = level[q]
          /\ reply'[q] = reply[q] /\ step'[q] = step[q] + 1
          /\ \A k \in Levels : tx'[<<q, k>>] = tx[<<q, k>>]
      BY <1>b, <2>a
    <3>2. \A k \in Levels, s \in Resources :
            k # level[q] \/ s # r => branch'[<<q, k>>][s] = branch[<<q, k>>][s]
      BY <1>c, <2>a, <2>c
    <3>3. \/ /\ AtOnce(q) /\ outside'[q] = outside[q] \union {r}
             /\ branch'[<<q, level[q]>>][r] = branch[<<q, level[q]>>][r]
          \/ /\ ~AtOnce(q) /\ outside'[q] = outside[q]
             /\ tx[<<q, level[q]>>] = "active" /\ branch'[<<q, level[q]>>][r] = "active"
      BY <1>b, <1>c, <2>c
    <3>4. OneStatement(q)
      BY <2>a, <3>1, <3>2, <3>3 DEF OneStatement
    <3>. QED
      BY <2>1, <3>4 DEF Kind
  <2>2. CASE d # q
    BY <1>b, <1>c, <2>a, <2>c, <2>2 DEF Untouched, Kind
  <2>. QED
    BY <2>1, <2>2
<1>3. ASSUME NEW q \in Requests, FailSwallowed(q), NEW d \in Requests PROVE Kind(d)
  <2>. DEFINE t == Cur(q)
              r == Now(q).on
  <2>a. /\ Running(q) /\ Swallowed(q) /\ step' = [step EXCEPT ![q] = @ + 1]
        /\ UNCHANGED <<pc, method, level, reply, tx, outside>>
        /\ r \in Resources /\ t \in Txs
    BY <1>3, <1>a, <1>c, NowFacts, Flat DEF FailSwallowed
  <2>b. \/ branch' = branch
        \/ /\ Now(q).do = "create" /\ tx[t] = "active"
           /\ branch' = [branch EXCEPT ![t][r] = "broken"]
    BY <1>3 DEF FailSwallowed
  <2>c. \/ branch' = branch
        \/ /\ Now(q).do = "create" /\ tx[t] = "active"
           /\ branch'[t][r] = "broken"
           /\ \A s \in Resources \ {r} : branch'[t][s] = branch[t][s]
           /\ \A u \in Txs \ {t} : branch'[u] = branch[u]
    <3>1. "broken" \in BranchStates
      BY DEF BranchStates
    <3>2. ASSUME branch' = [branch EXCEPT ![t][r] = "broken"]
          PROVE  /\ branch'[t][r] = "broken"
                 /\ \A s \in Resources \ {r} : branch'[t][s] = branch[t][s]
                 /\ \A u \in Txs \ {t} : branch'[u] = branch[u]
      <4>. HIDE DEF t, r
      <4>. QED
        BY <1>b, <2>a, <3>1, <3>2, BranchEdit
    <3>. QED
      BY <2>b, <3>2
  <2>1. CASE d = q
    <3>1. /\ pc'[q] = pc[q] /\ method'[q] = method[q] /\ level'[q] = level[q]
          /\ reply'[q] = reply[q] /\ step'[q] = step[q] + 1 /\ outside'[q] = outside[q]
          /\ \A k \in Levels : tx'[<<q, k>>] = tx[<<q, k>>]
      BY <1>b, <2>a
    <3>2. \A k \in Levels, s \in Resources :
            k # level[q] \/ s # r => branch'[<<q, k>>][s] = branch[<<q, k>>][s]
      BY <1>c, <2>a, <2>c
    <3>3. \/ branch'[<<q, level[q]>>][r] = branch[<<q, level[q]>>][r]
          \/ /\ Now(q).do = "create" /\ tx[<<q, level[q]>>] = "active"
             /\ branch'[<<q, level[q]>>][r] = "broken"
      BY <1>c, <2>c
    <3>4. OneStatement(q)
      BY <2>a, <3>1, <3>2, <3>3 DEF OneStatement
    <3>. QED
      BY <2>1, <3>4 DEF Kind
  <2>2. CASE d # q
    BY <1>b, <1>c, <2>a, <2>c, <2>2 DEF Untouched, Kind
  <2>. QED
    BY <2>1, <2>2
<1>4. ASSUME NEW q \in Requests, FailThrown(q), NEW d \in Requests PROVE Kind(d)
  <2>1. CASE d = q
    <3>1. /\ Running(q) /\ ~Swallowed(q)
          /\ tx' = [tx EXCEPT ![Cur(q)] = Marked(@)]
          /\ UNCHANGED <<method, step, level, branch, outside>>
      BY <1>4 DEF FailThrown
    <3>2. pc[q] = "run" /\ pc'[q] = "completing" /\ reply'[q] = "error"
      BY <1>4, <1>b DEF FailThrown, Running
    <3>3. \A k \in Levels : k # level[q] => tx'[<<q, k>>] = tx[<<q, k>>]
      BY <1>b, <1>c, <3>1
    <3>4. tx'[<<q, level[q]>>] = Marked(tx[<<q, level[q]>>])
      BY <1>b, <1>c, <3>1
    <3>5. MethodOver(q)
      BY <3>1, <3>2, <3>3, <3>4 DEF MethodOver
    <3>. QED
      BY <2>1, <3>5 DEF Kind
  <2>2. CASE d # q
    BY <1>4, <1>b, <1>c, <2>2 DEF FailThrown, Untouched, Kind
  <2>. QED
    BY <2>1, <2>2
<1>5. ASSUME NEW q \in Requests, End(q), NEW d \in Requests PROVE Kind(d)
  <2>1. CASE d = q
    <3>1. /\ step[q] > LastStep(q)
          /\ tx' = [tx EXCEPT ![Cur(q)] = IF method[q] = "call" THEN Marked(@) ELSE @]
          /\ UNCHANGED <<method, step, level, reply, branch, outside>>
      BY <1>5 DEF End
    <3>2. pc[q] = "run" /\ pc'[q] = "completing"
      BY <1>5, <1>b DEF End
    <3>3. \A k \in Levels : k # level[q] => tx'[<<q, k>>] = tx[<<q, k>>]
      BY <1>b, <1>c, <3>1
    <3>4. tx'[<<q, level[q]>>] = IF method[q] = "call" THEN Marked(tx[<<q, level[q]>>])
                                 ELSE tx[<<q, level[q]>>]
      BY <1>b, <1>c, <3>1
    <3>5. MethodOver(q)
      BY <3>1, <3>2, <3>3, <3>4 DEF MethodOver
    <3>. QED
      BY <2>1, <3>5 DEF Kind
  <2>2. CASE d # q
    BY <1>5, <1>b, <1>c, <2>2 DEF End, Untouched, Kind
  <2>. QED
    BY <2>1, <2>2
(* The four ways to complete a transaction.                                *)
<1>6. ASSUME NEW q \in Requests, NEW s \in {"none", "commit", "abort"},
             NEW answer \in {"ok", "error"},
             Completing(q), Ended(q, s, answer), Return(q, answer),
             UNCHANGED <<method, step, outside>>,
             \A u \in Txs : u # Cur(q) => branch'[u] = branch[u],
             \A r \in Resources :
               LET t == Cur(q) IN
               /\ branch'[t][r] \in Legal[s]
               /\ branch'[t][r] # "none" <=> branch[t][r] # "none"
               /\ branch'[t][r] \in Lost => branch[t][r] \in Lost
               /\ s = "commit" /\ branch[t][r] \in {"active", "prepared", "committed"} =>
                    branch'[t][r] \in {"prepared", "committed"},
             s = "commit" => tx[Cur(q)] \in {"active", "commit"},
             s = "none" => tx[Cur(q)] = "none",
             s = "abort" => tx[Cur(q)] # "commit",
             \A k \in Levels : k = level[q] /\ s = "commit" /\ answer = "error" =>
                               OneBranchOrHeuristic(<<q, k>>)',
             s = "abort" /\ answer = "ok" => tx[Cur(q)] = "marked",
             s = "commit" /\ answer = "ok" =>
               \A r \in Resources : branch'[Cur(q)][r] \notin {"void", "missing"},
             s = "commit" /\ (\E r \in Resources : branch'[Cur(q)][r] = "aborted") =>
               \A r \in Resources : branch'[Cur(q)][r] \in {"none", "aborted"},
             NEW d \in Requests
      PROVE  Kind(d)
  <2>1. CASE d = q
    <3>1. Completes(q, s, answer)
      <4>1. /\ pc[q] = "completing"
            /\ method'[q] = method[q] /\ step'[q] = step[q] /\ outside'[q] = outside[q]
            /\ level'[q] = "own"
            /\ pc'[q] = IF level[q] = "own" THEN "done"
                        ELSE IF answer = "ok" THEN "run" ELSE "completing"
            /\ reply'[q] = IF reply[q] = "error" THEN "error"
                           ELSE IF level[q] = "inner" /\ answer = "ok" THEN reply[q] ELSE answer
        BY <1>6, <1>b DEF Completing, Return
      <4>2. /\ tx'[<<q, level[q]>>] = s
            /\ level[q] = "inner" =>
                 tx'[Own(q)] = IF answer = "error" THEN Marked(tx[Own(q)]) ELSE tx[Own(q)]
            /\ level[q] = "own" => tx'[Inner(q)] = tx[Inner(q)]
        BY <1>6, <1>b, <1>c DEF Ended, Own, Inner, Levels
      <4>3. \A k \in Levels : k # level[q] => branch'[<<q, k>>] = branch[<<q, k>>]
        BY <1>6, <1>c
      <4>. QED
        BY <1>6, <1>c, <4>1, <4>2, <4>3 DEF Completes
    <3>. QED
      BY <2>1, <3>1 DEF Kind
  <2>2. CASE d # q
    <3>1. Untouched(d)
      BY <1>6, <1>b, <1>c, <2>2 DEF Ended, Return, Untouched
    <3>. QED
      BY <3>1 DEF Kind
  <2>. QED
    BY <2>1, <2>2
<1>d. ASSUME NEW q \in Requests
      PROVE  /\ \A r \in Resources : branch[Cur(q)][r] \in Legal[tx[Cur(q)]]
             /\ Cur(q) \in Txs
  BY <1>a, <1>b, <1>c DEF TxInv
<1>7. ASSUME NEW q \in Requests, Rollback(q), NEW d \in Requests PROVE Kind(d)
  <2>. DEFINE t == Cur(q)
              s == IF tx[t] = "none" THEN "none" ELSE "abort"
              answer == IF tx[t] = "abort" THEN "error" ELSE "ok"
  <2>1. /\ Completing(q) /\ tx[t] \in {"none", "marked", "abort"}
        /\ Ended(q, s, answer) /\ Return(q, answer) /\ UNCHANGED <<method, step, outside>>
        /\ AbortActive({t})
    BY <1>7 DEF Rollback
  <2>2. /\ \A u \in Txs : u # t => branch'[u] = branch[u]
        /\ \A r \in Resources : branch'[t][r] = Aborted(branch[t][r])
    BY <1>b, <1>d, <2>1 DEF AbortActive
  <2>3. \A r \in Resources :
          /\ branch'[t][r] \in Legal[s]
          /\ branch'[t][r] # "none" <=> branch[t][r] # "none"
          /\ branch'[t][r] \in Lost => branch[t][r] \in Lost
    <3>1. \A b : /\ tx[t] = "none" /\ b \in Legal["none"] => Aborted(b) \in Legal["none"]
                 /\ tx[t] # "none" /\ b \in Legal["marked"] \union Legal["abort"] =>
                      Aborted(b) \in Legal["abort"]
                 /\ Aborted(b) # "none" <=> b # "none"
                 /\ Aborted(b) \in Lost => b \in Lost
      BY DEF Aborted, Legal, Lost
    <3>. QED
      BY <1>d, <2>1, <2>2, <3>1
  <2>4. s \in {"none", "commit", "abort"} /\ answer \in {"ok", "error"}
        /\ s # "commit" /\ (s = "none" => tx[t] = "none")
        /\ (s = "abort" => tx[t] # "commit")
        /\ (s = "abort" /\ answer = "ok" => tx[t] = "marked")
    BY <2>1
  <2>. HIDE DEF s, answer
  <2>. QED
    BY <1>6, <2>1, <2>2, <2>3, <2>4
<1>8. ASSUME NEW q \in Requests, CompletionFails(q), NEW d \in Requests PROVE Kind(d)
  <2>. DEFINE t == Cur(q)
  <2>1. /\ Completing(q) /\ tx[t] = "active"
        /\ Ended(q, "abort", "error") /\ Return(q, "error") /\ UNCHANGED <<method, step, outside>>
        /\ AbortActive({t})
    BY <1>8 DEF CompletionFails
  <2>2. /\ \A u \in Txs : u # t => branch'[u] = branch[u]
        /\ \A r \in Resources : branch'[t][r] = Aborted(branch[t][r])
    BY <1>b, <1>d, <2>1 DEF AbortActive
  <2>3. \A r \in Resources :
          /\ branch'[t][r] \in Legal["abort"]
          /\ branch'[t][r] # "none" <=> branch[t][r] # "none"
          /\ branch'[t][r] \in Lost => branch[t][r] \in Lost
    <3>1. \A b : /\ b \in Legal["active"] => Aborted(b) \in Legal["abort"]
                 /\ Aborted(b) # "none" <=> b # "none"
                 /\ Aborted(b) \in Lost => b \in Lost
      BY DEF Aborted, Legal, Lost
    <3>. QED
      BY <1>d, <2>1, <2>2, <3>1
  <2>. HIDE DEF t
  <2>4. \A r \in Resources :
          /\ branch'[Cur(q)][r] \in Legal["abort"]
          /\ branch'[Cur(q)][r] # "none" <=> branch[Cur(q)][r] # "none"
          /\ branch'[Cur(q)][r] \in Lost => branch[Cur(q)][r] \in Lost
    BY <2>3 DEF t
  <2>. QED
    BY <1>6, <2>1, <2>2, <2>4 DEF t
<1>9. ASSUME NEW q \in Requests, OnePhase(q), NEW d \in Requests PROVE Kind(d)
  <2>. DEFINE t == <<q, level[q]>>
  <2>0. t = Cur(q)
    BY <1>c
  <2>1. /\ Completing(q) /\ tx[t] = "active" /\ Cardinality(Branches(t)) <= 1
        /\ UNCHANGED <<method, step, outside>>
    BY <1>9, <2>0 DEF OnePhase
  <2>2. PICK answer \in {"ok", "error"} : Ended(q, "commit", answer) /\ Return(q, answer)
    BY <1>9 DEF OnePhase
  <2>3. /\ \A u \in Txs : u # t => branch'[u] = branch[u]
        /\ \A r \in Resources :
             branch'[t][r] = CASE branch[t][r] = "active" -> "committed"
                               [] branch[t][r] = "broken" -> "aborted"
                               [] OTHER -> branch[t][r]
    BY <1>9, <1>b, <1>d, <2>0 DEF OnePhase
  <2>4. \A r \in Resources : branch[t][r] \in {"none", "active", "broken"}
    <3>1. \A r \in Resources : branch[t][r] \in Legal["active"]
      BY <1>d, <2>0, <2>1
    <3>2. Cardinality(Branches(t)) \in Nat
      BY BranchesFinite, FS_CardinalityType
    <3>3. level[q] \in Levels /\ SplitInv(q)
      BY <1>a, <1>b DEF RequestInv
    <3>4. \A r \in Resources : branch[t][r] \notin {"prepared", "void"}
      BY <2>1, <3>2, <3>3 DEF SplitInv
    <3>. QED
      BY <3>1, <3>4 DEF Legal
  <2>5. \A r \in Resources :
          /\ branch'[t][r] \in Legal["commit"]
          /\ branch'[t][r] # "none" <=> branch[t][r] # "none"
          /\ branch'[t][r] \notin Lost
          /\ branch[t][r] \in {"active", "prepared", "committed"} =>
               branch'[t][r] \in {"prepared", "committed"}
    <3>1. {"none", "committed", "aborted"} \subseteq Legal["commit"]
      BY DEF Legal
    <3>. QED
      BY <2>3, <2>4, <3>1 DEF Lost
  <2>6. ASSUME NEW k \in Levels, k = level[q] PROVE OneBranchOrHeuristic(<<q, k>>)'
    <3>1. /\ \A r \in Resources : branch'[<<q, k>>][r] # "none" <=> branch[<<q, k>>][r] # "none"
          /\ Cardinality(Branches(<<q, k>>)) <= 1
      BY <2>1, <2>5, <2>6
    <3>2. Cardinality(Branches(<<q, k>>))' <= 1
      BY <3>1, SameBranches
    <3>. QED
      BY <3>2 DEF OneBranchOrHeuristic
  <2>7. ASSUME NEW r \in Resources, branch'[t][r] = "aborted", NEW s \in Resources
        PROVE  branch'[t][s] \in {"none", "aborted"}
    <3>1. r \in Branches(t)
      BY <2>5, <2>7 DEF Branches
    <3>2. s \in Branches(t) => s = r
      BY <2>1, <3>1, BranchesFinite, AtMostOne
    <3>. QED
      BY <2>5, <2>7, <3>2 DEF Branches
  <2>. HIDE DEF t
  <2>8. \A r \in Resources :
          /\ branch'[Cur(q)][r] \in Legal["commit"]
          /\ branch'[Cur(q)][r] # "none" <=> branch[Cur(q)][r] # "none"
          /\ branch'[Cur(q)][r] \in Lost => branch[Cur(q)][r] \in Lost
          /\ branch[Cur(q)][r] \in {"active", "prepared", "committed"} =>
               branch'[Cur(q)][r] \in {"prepared", "committed"}
    BY <2>0, <2>5
  <2>9. /\ \A r \in Resources : branch'[Cur(q)][r] \notin {"void", "missing"}
        /\ (\E r \in Resources : branch'[Cur(q)][r] = "aborted") =>
             \A r \in Resources : branch'[Cur(q)][r] \in {"none", "aborted"}
    BY <2>0, <2>5, <2>7 DEF Lost
  <2>10. /\ tx[Cur(q)] \in {"active", "commit"}
         /\ \A k \in Levels : k = level[q] => OneBranchOrHeuristic(<<q, k>>)'
         /\ \A u \in Txs : u # Cur(q) => branch'[u] = branch[u]
    BY <2>0, <2>1, <2>3, <2>6 DEF t
  <2>. QED
    BY <1>6, <2>0, <2>1, <2>2, <2>8, <2>9, <2>10
<1>10. ASSUME NEW q \in Requests, Decide(q), NEW d \in Requests PROVE Kind(d)
  <2>1. CASE d = q
    <3>. DEFINE t == <<q, level[q]>>
    <3>1. /\ pc[q] = "completing" /\ tx[t] = "active"
          /\ Cardinality(Branches(t)) > 1
          /\ \A r \in Resources : branch[t][r] \in Voted
          /\ tx' = [tx EXCEPT ![t] = "commit"]
          /\ UNCHANGED <<thread, branch, outside>>
      BY <1>10, <1>c DEF Decide, Completing
    <3>2. /\ tx'[t] = "commit" /\ level[q] \in Levels
          /\ \A k \in Levels : k # level[q] => tx'[<<q, k>>] = tx[<<q, k>>]
      BY <1>b, <1>c, <3>1
    <3>3. Decides(q)
      BY <3>1, <3>2 DEF Decides, StaysInMethod
    <3>. QED
      BY <2>1, <3>3 DEF Kind
  <2>2. CASE d # q
    BY <1>10, <1>b, <1>c, <2>2 DEF Decide, Untouched, Kind
  <2>. QED
    BY <2>1, <2>2
<1>17. ASSUME NEW q \in Requests, Answer(q), NEW d \in Requests PROVE Kind(d)
  <2>. DEFINE t == Cur(q)
              answer == IF \E r \in Resources : branch[t][r] = "missing" THEN "error" ELSE "ok"
  <2>1. /\ Completing(q) /\ tx[t] = "commit" /\ answer \in {"ok", "error"}
        /\ \A r \in Resources : branch[t][r] # "void"
        /\ Ended(q, "commit", answer) /\ Return(q, answer)
        /\ UNCHANGED <<method, step, outside, branch>>
    BY <1>17 DEF Answer
  <2>2. \A r \in Resources :
          /\ branch'[t][r] \in Legal["commit"]
          /\ branch[t][r] \in {"active", "prepared", "committed"} =>
               branch'[t][r] \in {"prepared", "committed"}
    BY <1>d, <2>1 DEF Legal
  <2>3. ASSUME NEW k \in Levels, k = level[q], answer = "error"
        PROVE  OneBranchOrHeuristic(<<q, k>>)'
    <3>1. \E r \in Resources : branch'[<<q, k>>][r] = "missing"
      BY <1>c, <2>1, <2>3
    <3>. QED
      BY <3>1 DEF OneBranchOrHeuristic
  <2>4. (\E r \in Resources : branch'[t][r] = "aborted") =>
          \A r \in Resources : branch'[t][r] \in {"none", "aborted"}
    <3>1. level[q] \in Levels /\ SplitInv(q)
      BY <1>a, <1>b DEF RequestInv
    <3>. QED
      BY <1>c, <2>1, <3>1 DEF SplitInv
  <2>5. answer = "ok" => \A r \in Resources : branch'[t][r] \notin {"void", "missing"}
    BY <2>1
  <2>. HIDE DEF answer
  <2>. QED
    BY <1>6, <2>1, <2>2, <2>3, <2>4, <2>5
<1>11. ASSUME NEW q \in Requests, NEW r \in Resources, Vote(q, r), NEW d \in Requests PROVE Kind(d)
  <2>. DEFINE t == Cur(q)
              b == IF branch[t][r] = "broken" THEN "void"
                   ELSE IF r \in Last THEN "committed" ELSE "prepared"
  <2>1. /\ pc[q] = "completing" /\ tx[t] = "active" /\ Cardinality(Branches(t)) > 1
        /\ branch[t][r] \in {"active", "broken"}
        /\ branch' = [branch EXCEPT ![t][r] = b]
        /\ UNCHANGED <<thread, tx, outside>>
    BY <1>11 DEF Vote, Completing
  <2>2. b \in BranchStates /\ t \in Txs
    BY <1>d DEF BranchStates
  <2>3. /\ branch'[t][r] = b
        /\ \A s \in Resources \ {r} : branch'[t][s] = branch[t][s]
        /\ \A u \in Txs \ {t} : branch'[u] = branch[u]
    <3>. HIDE DEF b, t
    <3>. QED
      BY <1>b, <2>1, <2>2, BranchEdit
  <2>4. CASE d = q
    <3>1. /\ StaysInMethod(q) /\ pc'[q] = pc[q]
          /\ \A k \in Levels : tx'[<<q, k>>] = tx[<<q, k>>]
      BY <2>1 DEF StaysInMethod
    <3>2. \A k \in Levels, s \in Resources :
            k # level[q] \/ s # r => branch'[<<q, k>>][s] = branch[<<q, k>>][s]
      <4>. HIDE DEF b
      <4>. QED
        BY <1>c, <2>3
    <3>3. Votes(q, r)
      BY <1>c, <2>1, <2>3, <3>1, <3>2 DEF Votes
    <3>. QED
      BY <2>4, <3>3 DEF Kind
  <2>5. CASE d # q
    BY <1>b, <1>c, <2>1, <2>3, <2>5 DEF Untouched, Kind
  <2>. QED
    BY <2>4, <2>5
<1>12. ASSUME NEW t \in Txs, Timeout(t), NEW d \in Requests PROVE Kind(d)
  <2>1. PICK q \in Requests, l \in Levels : t = <<q, l>>
    BY DEF Txs
  <2>2. /\ pc[q] = "run" /\ tx[t] = "active" /\ tx' = [tx EXCEPT ![t] = "abort"]
        /\ UNCHANGED <<thread, outside>> /\ AbortActive({t})
    BY <1>12, <2>1 DEF Timeout
  <2>3. /\ \A u \in Txs : u # t => branch'[u] = branch[u] /\ tx'[u] = tx[u]
        /\ \A r \in Resources : branch'[t][r] = Aborted(branch[t][r])
        /\ tx'[t] = "abort"
    BY <1>b, <2>2 DEF AbortActive
  <2>4. CASE d = q
    <3>1. ASSUME NEW k \in Levels
          PROVE  \/ /\ tx[<<q, k>>] \in {"active", "marked"} /\ tx'[<<q, k>>] = "abort"
                    /\ \A r \in Resources : branch'[<<q, k>>][r] = Aborted(branch[<<q, k>>][r])
                 \/ /\ tx'[<<q, k>>] = tx[<<q, k>>]
                    /\ \A r \in Resources : branch'[<<q, k>>][r] = branch[<<q, k>>][r]
      BY <1>c, <2>1, <2>2, <2>3
    <3>2. Settles(q)
      BY <2>2, <3>1 DEF Settles, StaysInMethod
    <3>. QED
      BY <2>4, <3>2 DEF Kind
  <2>5. CASE d # q
    BY <1>b, <1>c, <2>1, <2>2, <2>3, <2>5 DEF Untouched, Kind
  <2>. QED
    BY <2>4, <2>5
<1>13. ASSUME NEW t \in Txs, NEW r \in XA, PhaseTwo(t, r), NEW d \in Requests PROVE Kind(d)
  <2>1. PICK q \in Requests, l \in Levels : t = <<q, l>>
    BY DEF Txs
  <2>2. PICK b \in {"committed", "aborted", "missing"} :
          /\ branch[t][r] = IF b = "missing" THEN "void" ELSE "prepared"
          /\ branch' = [branch EXCEPT ![t][r] = b]
          /\ b \in {"committed", "missing"} => tx[t] = "commit"
          /\ b = "aborted" => tx[t] = "abort"
          /\ UNCHANGED <<thread, tx, outside>>
    BY <1>13 DEF PhaseTwo, CommitBranch, CommitRefused, RollbackBranch
  <2>3. r \in Resources /\ b \in BranchStates
    BY DEF Resources, BranchStates
  <2>4. /\ branch'[t][r] = b
        /\ \A s \in Resources \ {r} : branch'[t][s] = branch[t][s]
        /\ \A u \in Txs \ {t} : branch'[u] = branch[u]
    BY <1>b, <2>2, <2>3, BranchEdit
  <2>5. CASE d = q
    <3>1. ASSUME NEW k \in Levels
          PROVE  /\ tx'[<<q, k>>] = tx[<<q, k>>]
                 /\ \A s \in Resources :
                      \/ branch'[<<q, k>>][s] = branch[<<q, k>>][s]
                      \/ /\ tx[<<q, k>>] = "commit" /\ branch[<<q, k>>][s] = "prepared"
                         /\ branch'[<<q, k>>][s] = "committed"
                      \/ /\ tx[<<q, k>>] = "commit" /\ branch[<<q, k>>][s] = "void"
                         /\ branch'[<<q, k>>][s] = "missing"
                      \/ /\ tx[<<q, k>>] = "abort" /\ branch[<<q, k>>][s] = "prepared"
                         /\ branch'[<<q, k>>][s] = "aborted"
      BY <1>c, <2>1, <2>2, <2>4
    <3>2. Settles(q)
      BY <2>2, <3>1 DEF Settles, StaysInMethod
    <3>. QED
      BY <2>5, <3>2 DEF Kind
  <2>6. CASE d # q
    BY <1>b, <1>c, <2>1, <2>2, <2>4, <2>6 DEF Untouched, Kind
  <2>. QED
    BY <2>5, <2>6
<1>14. ASSUME Crash, NEW d \in Requests PROVE Kind(d)
  <2>1. /\ pc'[d] = IF pc[d] \in {"new", "done"} THEN pc[d] ELSE "dead"
        /\ UNCHANGED <<method, step, level, reply, outside>>
        /\ \A k \in Levels :
             /\ tx'[<<d, k>>] = IF tx[<<d, k>>] \in {"active", "marked"} THEN "abort"
                                ELSE tx[<<d, k>>]
             /\ \A r \in Resources : branch'[<<d, k>>][r] = Aborted(branch[<<d, k>>][r])
    BY <1>14, <1>b, <1>c DEF Crash, AbortActive
  <2>2. ASSUME NEW k \in Levels
        PROVE  \/ /\ tx[<<d, k>>] \in {"active", "marked"} /\ tx'[<<d, k>>] = "abort"
                  /\ pc[d] \in {"run", "completing"}
                  /\ \A r \in Resources : branch'[<<d, k>>][r] = Aborted(branch[<<d, k>>][r])
               \/ /\ tx'[<<d, k>>] = tx[<<d, k>>]
                  /\ \A r \in Resources : branch'[<<d, k>>][r] = branch[<<d, k>>][r]
    <3>1. /\ tx[<<d, k>>] \in {"active", "marked"} => pc[d] \in {"run", "completing"}
          /\ \A r \in Resources : branch[<<d, k>>][r] \in Legal[tx[<<d, k>>]]
          /\ tx[<<d, k>>] \in TxStates
      BY <1>a, <1>b, <1>c DEF TxInv
    <3>2. CASE tx[<<d, k>>] \in {"active", "marked"}
      BY <2>1, <3>1, <3>2
    <3>3. CASE tx[<<d, k>>] \in {"none", "commit", "abort"}
      <4>1. \A b : b \in Legal["none"] \union Legal["commit"] \union Legal["abort"] => Aborted(b) = b
        BY DEF Legal, Aborted
      <4>. QED
        BY <2>1, <3>1, <3>3, <4>1
    <3>. QED
      BY <3>1, <3>2, <3>3 DEF TxStates
  <2>3. Settles(d)
    BY <2>1, <2>2 DEF Settles, StaysInMethod
  <2>. QED
    BY <2>3 DEF Kind
<1>15. ASSUME NEW q \in Requests, OnMessage(q), NEW d \in Requests PROVE Kind(d)
  BY <1>15 DEF OnMessage, Untouched, Kind
<1>16. ASSUME Clear \/ Restart \/ UNCHANGED vars, NEW d \in Requests PROVE Kind(d)
  BY <1>16 DEF Clear, Restart, vars, Untouched, Kind
<1>. QED
  BY <1>1, <1>2, <1>3, <1>4, <1>5, <1>7, <1>8, <1>9, <1>10, <1>11, <1>12, <1>13, <1>14,
     <1>15, <1>16, <1>17
  DEF Next, Thread

-----------------------------------------------------------------------------
(* Messages                                                                *)

(* A delivery that is not the last one leaves the message another one.     *)
LEMMA DeliveryInductive ==
  ASSUME TypeOK, EnlistInv, [Next]_vars
  PROVE  DeliveryInv'
<1>. USE DEF thread, jms, server
<1>a. /\ handled \in [Requests -> {"no", "stored", "dead"}]
      /\ attempts \in [Requests -> 0..MaxDelivery]
      /\ MaxDelivery \in Nat \ {0}
      /\ \A q \in Requests : handled[q] = "no" => attempts[q] < MaxDelivery
  BY EnlistmentAssumption DEF TypeOK, EnlistInv, DeliveryInv
<1>1. ASSUME NEW q \in Requests, OnMessage(q) PROVE DeliveryInv'
  <2>1. /\ attempts' = [attempts EXCEPT ![q] = @ + 1]
        /\ \/ handled' = [handled EXCEPT ![q] = "stored"]
           \/ handled' = [handled EXCEPT ![q] = IF attempts'[q] < MaxDelivery THEN @ ELSE "dead"]
    BY <1>1 DEF OnMessage
  <2>2. ASSUME NEW d \in Requests, handled'[d] = "no" PROVE attempts'[d] < MaxDelivery
    <3>1. CASE d = q
      BY <1>a, <2>1, <2>2, <3>1
    <3>2. CASE d # q
      BY <1>a, <2>1, <2>2, <3>2
    <3>. QED
      BY <3>1, <3>2
  <2>. QED
    BY <2>2 DEF DeliveryInv
<1>2. CASE UNCHANGED <<handled, attempts>>
  BY <1>2, <1>a DEF DeliveryInv
<1>3. (\E q \in Requests : OnMessage(q)) \/ UNCHANGED <<handled, attempts>>
  BY DEF Next, Thread, Invoke, Work, FailSwallowed, FailThrown, End, Rollback, OnePhase,
         CompletionFails, Decide, Answer, Vote, Timeout, PhaseTwo, CommitBranch, CommitRefused,
         RollbackBranch,
         Clear, Crash, Restart, vars
<1>. QED
  BY <1>1, <1>2, <1>3

-----------------------------------------------------------------------------
(* The theorems                                                            *)

(* The invariant holds in the initial states.                              *)
LEMMA EnlistInit == Init => TypeOK /\ EnlistInv
<1>. SUFFICES ASSUME Init PROVE TypeOK /\ EnlistInv
  OBVIOUS
<1>1. /\ \A q \in Requests : /\ pc[q] = "new" /\ method[q] = "none" /\ step[q] = 1
                             /\ level[q] = "own" /\ reply[q] = "none" /\ outside[q] = {}
                             /\ handled[q] = "no" /\ attempts[q] = 0
      /\ \A t \in Txs : tx[t] = "none" /\ branch[t] = [r \in Resources |-> "none"]
  BY DEF Init
<1>2. TypeOK
  BY EnlistmentAssumption DEF Init, TypeOK, Levels, XA
<1>3. DeliveryInv
  BY <1>1, EnlistmentAssumption DEF DeliveryInv
<1>4. "none" \notin Methods /\ "none" # "call" /\ "none" # "runInsertionWithCreation"
  BY DEF Methods, Script
<1>5. ASSUME NEW q \in Requests PROVE RequestInv(q)
  <2>1. \A l \in Levels : /\ tx[<<q, l>>] = "none"
                          /\ \A r \in Resources : branch[<<q, l>>][r] = "none"
    BY <1>1 DEF Txs
  <2>2. tx[Own(q)] = "none" /\ tx[Inner(q)] = "none"
        /\ \A r \in Resources : branch[Own(q)][r] = "none"
    BY <2>1 DEF Own, Inner, Levels
  <2>3. TxInv(q)
    BY <2>1 DEF TxInv, Legal
  <2>4. ThreadInv(q)
    BY <1>1, <1>4, <2>2 DEF ThreadInv
  <2>5. DoneInv(q)
    BY <1>1, <1>4, <2>2 DEF DoneInv, Rethrowing, Lost
  <2>6. SplitInv(q)
    BY <2>1 DEF SplitInv
  <2>. QED
    BY <2>3, <2>4, <2>5, <2>6 DEF RequestInv
<1>. QED
  BY <1>2, <1>3, <1>5 DEF EnlistInv

(* Every step keeps the invariant: that of each request by the kind of the *)
(* step for it, that of the deliveries on its own.                         *)
LEMMA EnlistInductive == TypeOK /\ EnlistInv /\ [Next]_vars => TypeOK' /\ EnlistInv'
<1>. SUFFICES ASSUME TypeOK, EnlistInv, [Next]_vars PROVE TypeOK' /\ EnlistInv'
  OBVIOUS
<1>1. \A q \in Requests : RequestInv(q) /\ Kind(q)
  BY StepKinds DEF EnlistInv
<1>2. \A q \in Requests : RequestInv(q)'
  BY <1>1, KindKept
<1>. QED
  BY <1>2, TypeInductive, DeliveryInductive DEF EnlistInv

(* The types and what holds of each request are an invariant.              *)
THEOREM EnlistInvariant == Spec => [](TypeOK /\ EnlistInv)
<1>1. Init => TypeOK /\ EnlistInv
  BY EnlistInit
<1>2. TypeOK /\ EnlistInv /\ [Next]_vars => TypeOK' /\ EnlistInv'
  BY EnlistInductive
<1>. QED
  BY <1>1, <1>2, PTL DEF Spec

(* Every variable keeps its type.                                          *)
THEOREM TypeCorrect == Spec => []TypeOK
  BY EnlistInvariant, PTL

(* Whatever is enlisted in one transaction takes effect together, but for  *)
(* the tables of two databases that one createTable creates; and where one *)
(* of them is created and the other one rolled back, the call does not     *)
(* return normally.                                                        *)
THEOREM EnlistedTogetherHolds == Spec => []EnlistedTogether
<1>1. ASSUME TypeOK, EnlistInv PROVE EnlistedTogether
  <2>1. ASSUME NEW q \in Requests, NEW l \in Levels, Split(<<q, l>>)
        PROVE  (l = "inner" \/ method[q] = "createTableNotJoin") /\ reply[q] # "ok"
    <3>. DEFINE t == <<q, l>>
    <3>1. PICK r \in Resources, s \in Resources :
            branch[t][r] = "committed" /\ branch[t][s] \in {"aborted", "void", "missing"}
      BY <2>1 DEF Split
    <3>2. tx[t] = "commit"
      <4>1. branch[t][r] \in Legal[tx[t]] /\ tx[t] \in TxStates
        BY <1>1, LocalFlat DEF EnlistInv, RequestInv, TxInv
      <4>2. \A x \in TxStates : "committed" \in Legal[x] => x = "commit"
        BY DEF TxStates, Legal
      <4>. QED
        BY <3>1, <4>1, <4>2
    <3>3. branch[t][s] \in {"void", "missing"} /\ reply[q] # "ok"
      BY <1>1, <3>1, <3>2 DEF EnlistInv, RequestInv, SplitInv
    <3>4. CASE l = "own"
      <4>1. method[q] \in CreatingMethods
        BY <1>1, <3>3, <3>4 DEF EnlistInv, RequestInv, DoneInv, Lost, Own
      <4>2. r \in Used(method[q]) /\ s \in Used(method[q]) /\ r # s
        BY <1>1, <3>1, <3>3 DEF EnlistInv, RequestInv, TxInv
      <4>3. \A x, y \in Used("createTableJoin") : x = y
        <5>1. "createTableJoin" \in Methods
          BY DEF Methods, Script
        <5>2. DOMAIN Script["createTableJoin"] = 1..1
          BY <5>1, ScriptFacts DEF ScriptOf
        <5>. QED
          BY <5>2 DEF Used
      <4>. QED
        BY <3>3, <4>1, <4>2, <4>3 DEF CreatingMethods
    <3>. QED
      BY <3>3, <3>4 DEF Levels
  <2>. QED
    BY <2>1 DEF EnlistedTogether, Txs
<1>. QED
  BY <1>1, EnlistInvariant, PTL

(* A call of MyBean commits nothing that was enlisted, and the row of the  *)
(* non-jta datasource stays when it returns.                               *)
THEOREM CallLeavesOnlyOutsideHolds == Spec => []CallLeavesOnlyOutside
<1>1. ASSUME TypeOK, EnlistInv PROVE CallLeavesOnlyOutside
  <2>1. ASSUME NEW q \in Requests, method[q] = "call"
        PROVE  /\ \A r \in XA \union Last : branch[<<q, "own">>][r] # "committed" /\ r \notin outside[q]
               /\ reply[q] = "ok" => "test-non-jta" \in outside[q]
    <3>1. TxInv(q) /\ DoneInv(q) /\ "own" \in Levels
      BY <1>1, <2>1 DEF EnlistInv, RequestInv, Levels
    <3>2. /\ tx[Own(q)] # "commit" /\ tx[Own(q)] \in TxStates
          /\ step[q] > 3 => "test-non-jta" \in outside[q]
          /\ reply[q] = "ok" => step[q] > Len(Script[method[q]])
          /\ outside[q] \subseteq Outside
      BY <1>1, <2>1, <3>1, Flat DEF DoneInv, InTx
    <3>3. \A r \in Resources : branch[Own(q)][r] \in Legal[tx[Own(q)]]
      BY <3>1 DEF TxInv, Own
    <3>4. \A r \in Resources : branch[Own(q)][r] # "committed"
      BY <3>2, <3>3 DEF TxStates, Legal
    <3>5. Len(Script["call"]) = 6
      BY ScriptFacts DEF ScriptOf, Methods, Script
    <3>6. step[q] \in Nat
      BY <1>1, Flat
    <3>. QED
      BY <2>1, <3>2, <3>4, <3>5, <3>6 DEF XA, Last, Outside, Resources, Own
  <2>. QED
    BY <2>1 DEF CallLeavesOnlyOutside
<1>. QED
  BY <1>1, EnlistInvariant, PTL

(* A caller can rely on either answer: on a normal return of a method that *)
(* rethrows its failures all of its work is done or decided; after an      *)
(* exception nothing of two branches or more is committed, but for a       *)
(* createTable on two databases whose commit was refused in one of them.   *)
THEOREM AnswersReliableHolds == Spec => []AnswersReliable
<1>1. ASSUME TypeOK, EnlistInv PROVE AnswersReliable
  <2>a. ASSUME NEW q \in Requests
        PROVE  /\ TxInv(q) /\ ThreadInv(q) /\ DoneInv(q) /\ tx[Own(q)] \in TxStates
               /\ step[q] \in Nat /\ Own(q) = <<q, "own">>
               /\ \A r \in Resources : branch[Own(q)][r] \in Legal[tx[Own(q)]]
    BY <1>1, Flat DEF EnlistInv, RequestInv, TxInv, Own, Levels
  <2>1. ASSUME NEW q \in Requests, reply[q] = "ok", method[q] \in Rethrowing,
               NEW i \in DOMAIN Script[method[q]], Script[method[q]][i].do # "create"
        PROVE  LET o == Script[method[q]][i] IN
               \/ o.on \in outside[q]
               \/ tx[Own(q)] = "commit" /\ branch[Own(q)][o.on] \in {"prepared", "committed"}
    <3>. DEFINE o == Script[method[q]][i]
    <3>1. method[q] \in Methods /\ method[q] # "call"
      BY <2>1 DEF Rethrowing
    <3>2. i < step[q] /\ o.on \in Resources
      <4>1. ScriptOf(method[q], Script[method[q]])
        BY <3>1, ScriptFacts
      <4>2. step[q] > Len(Script[method[q]])
        BY <2>a, <2>1 DEF DoneInv
      <4>3. Len(Script[method[q]]) \in Nat /\ i \in 1..Len(Script[method[q]])
            /\ Script[method[q]][i].on \in Resources
        BY <2>1, <4>1 DEF ScriptOf
      <4>. QED
        BY <2>a, <4>2, <4>3
    <3>3. tx[Own(q)] \in {"none", "commit"}
      BY <2>a, <2>1, <3>1 DEF DoneInv
    <3>4. \/ o.on \in outside[q]
          \/ tx[Own(q)] = "abort"
          \/ branch[Own(q)][o.on] \in {"active", "prepared", "committed"}
      BY <2>a, <2>1, <3>2 DEF DoneInv
    <3>5. branch[Own(q)][o.on] \in Legal[tx[Own(q)]]
      BY <2>a, <3>2
    <3>. HIDE DEF o
    <3>6. o.on \in outside[q] \/ (tx[Own(q)] = "commit"
                                  /\ branch[Own(q)][o.on] \in {"prepared", "committed"})
      BY <3>3, <3>4, <3>5 DEF Legal
    <3>. QED
      BY <3>6 DEF o
  <2>2. OkMeansDone
    BY <2>a, <2>1 DEF OkMeansDone
  <2>3. ASSUME NEW q \in Requests, reply[q] = "error", Cardinality(Branches(Own(q))) > 1
        PROVE  \/ /\ tx[Own(q)] # "commit"
                  /\ \A r \in Resources : branch[Own(q)][r] # "committed"
               \/ /\ method[q] = "createTableNotJoin"
                  /\ \E r \in Resources : branch[Own(q)][r] = "missing"
    <3>1. tx[Own(q)] = "commit" => OneBranchOrHeuristic(Own(q))
      BY <2>a, <2>3 DEF DoneInv
    <3>2. Cardinality(Branches(Own(q))) \in Nat
      BY BranchesFinite, FS_CardinalityType
    <3>3. CASE tx[Own(q)] # "commit"
      BY <2>a, <3>3 DEF TxStates, Legal
    <3>4. CASE tx[Own(q)] = "commit"
      <4>1. PICK r \in Resources : branch[Own(q)][r] = "missing"
        BY <2>3, <3>1, <3>2, <3>4 DEF OneBranchOrHeuristic
      <4>2. method[q] \in CreatingMethods
        <5>1. "missing" \in Lost
          BY DEF Lost
        <5>. QED
          BY <2>a, <4>1, <5>1 DEF DoneInv
      <4>3. CASE method[q] = "createTableJoin"
        <5>1. Branches(Own(q)) \subseteq {Script["createTableJoin"][1].on}
          <6>1. "createTableJoin" \in Methods
            BY DEF Methods, Script
          <6>2. DOMAIN Script["createTableJoin"] = 1..1
            BY <6>1, ScriptFacts DEF ScriptOf
          <6>3. \A x \in Resources : branch[Own(q)][x] # "none" => x \in Used("createTableJoin")
            BY <2>a, <4>3 DEF TxInv, Levels
          <6>. QED
            BY <6>2, <6>3 DEF Used, Branches
        <5>. DEFINE x == Script["createTableJoin"][1].on
        <5>. HIDE DEF x
        <5>2. Branches(Own(q)) = {} \/ Branches(Own(q)) = {x}
          BY <5>1 DEF x
        <5>3. Cardinality(Branches(Own(q))) \in {0, 1}
          BY <5>2, FS_EmptySet, FS_Singleton
        <5>. QED
          BY <2>3, <5>3
      <4>. QED
        BY <4>1, <4>2, <4>3 DEF CreatingMethods
    <3>. QED
      BY <3>3, <3>4
  <2>4. ErrorMeansNothing
    BY <2>a, <2>3 DEF ErrorMeansNothing
  <2>. QED
    BY <2>2, <2>4 DEF AnswersReliable
<1>. QED
  BY <1>1, EnlistInvariant, PTL

(* An insert never meets a branch that a failed CREATE TABLE has broken:   *)
(* broken branches belong to the methods that only create.                 *)
THEOREM InsertsMeetNoBrokenBranchHolds == Spec => []InsertsMeetNoBrokenBranch
<1>1. ASSUME TypeOK, EnlistInv PROVE InsertsMeetNoBrokenBranch
  <2>1. ASSUME NEW q \in Requests, pc[q] = "run", step[q] <= LastStep(q),
               Now(q).do = "insert", branch[Cur(q)][Now(q).on] = "broken"
        PROVE  FALSE
    <3>1. ThreadInv(q) /\ DoneInv(q)
      BY <1>1 DEF EnlistInv, RequestInv
    <3>2. /\ Now(q).on \in Resources
          /\ level[q] = "inner" => Now(q).do = "create"
          /\ method[q] \in CreatingMethods => Now(q).do = "create"
      BY <1>1, <2>1, <3>1, NextStatement
    <3>3. level[q] = "own" /\ Cur(q) = Own(q)
      BY <1>1, <2>1, <3>2, LocalFlat DEF Levels, Cur, Own
    <3>4. method[q] \in CreatingMethods
      <4>1. "broken" \in Lost
        BY DEF Lost
      <4>. QED
        BY <2>1, <3>1, <3>2, <3>3, <4>1 DEF DoneInv
    <3>. QED
      BY <2>1, <3>2, <3>4
  <2>. QED
    BY <2>1 DEF InsertsMeetNoBrokenBranch
<1>. QED
  BY <1>1, EnlistInvariant, PTL

(* What a message may depend on.                                           *)
Final(q) == ~InTx(method[q]) \/ tx[Own(q)] = "commit"

(* A request that is outside any transaction or committed stays so.        *)
LEMMA FinalStays ==
  ASSUME TypeOK, NEW q \in Requests, RequestInv(q), Kind(q), Final(q)
  PROVE  Final(q)'
<1>1. /\ Own(q) = <<q, "own">> /\ "own" \in Levels /\ level[q] \in Levels
      /\ pc[q] = "new" => method[q] = "none" /\ tx[Own(q)] = "none"
      /\ pc[q] = "run" => tx[Own(q)] # "commit"
      /\ level[q] = "inner" => tx[Own(q)] # "commit"
  BY LocalFlat DEF RequestInv, ThreadInv, DoneInv, Own, Levels
<1>2. pc[q] # "new"
  BY <1>1 DEF Final, InTx
<1>3. CASE Untouched(q)
  BY <1>1, <1>3 DEF Untouched, Final
<1>4. ASSUME NEW m \in Methods, Called(q, m) PROVE Final(q)'
  BY <1>2, <1>4 DEF Called
<1>5. CASE OneStatement(q)
  BY <1>1, <1>5 DEF OneStatement, Final
<1>6. CASE MethodOver(q)
  <2>1. pc[q] = "run" /\ method'[q] = method[q]
    BY <1>6 DEF MethodOver
  <2>. QED
    BY <1>1, <2>1 DEF Final
<1>7. ASSUME NEW s \in {"none", "commit", "abort"}, NEW answer \in {"ok", "error"},
             Completes(q, s, answer)
      PROVE  Final(q)'
  <2>1. pc[q] = "completing" /\ method'[q] = method[q]
    BY <1>7 DEF Completes
  <2>2. CASE level[q] = "inner"
    BY <1>1, <2>1, <2>2 DEF Final
  <2>3. CASE level[q] = "own" /\ tx[Own(q)] = "commit"
    <3>1. tx'[Own(q)] = s /\ (s = "abort" => tx[Own(q)] # "commit") /\ (s = "none" => tx[Own(q)] = "none")
      BY <1>1, <1>7, <2>3 DEF Completes
    <3>2. tx'[Own(q)] = "commit"
      BY <2>3, <3>1
    <3>. QED
      BY <3>2 DEF Final
  <2>. QED
    BY <1>1, <2>1, <2>2, <2>3 DEF Final, Levels
<1>8. ASSUME NEW r \in Resources, Votes(q, r) PROVE Final(q)'
  BY <1>1, <1>8 DEF Votes, StaysInMethod, Final
<1>10. CASE Decides(q)
  BY <1>1, <1>10 DEF Decides, StaysInMethod, Final
<1>9. CASE Settles(q)
  <2>1. method'[q] = method[q]
    BY <1>9 DEF Settles, StaysInMethod
  <2>2. tx[Own(q)] = "commit" => tx'[Own(q)] = "commit"
    BY <1>1, <1>9 DEF Settles
  <2>. QED
    BY <2>1, <2>2 DEF Final
<1>. QED
  BY <1>3, <1>4, <1>5, <1>6, <1>7, <1>8, <1>9, <1>10 DEF Kind

(* The message-driven bean sees no message of a transaction that did not   *)
(* commit: a message in the queue was sent outside any transaction or is   *)
(* the committed branch of one that committed, for good.                   *)
THEOREM MessageFollowsTxHolds == Spec => []MessageFollowsTx
<1>. USE DEF thread, jms, server
<1>1. Init => MessageFollowsTx
  BY EnlistmentAssumption DEF Init, MessageFollowsTx
<1>2. ASSUME TypeOK, EnlistInv, MessageFollowsTx, [Next]_vars PROVE MessageFollowsTx'
  <2>a. \A q \in Requests : mdb = q \/ handled[q] # "no" => Final(q)
    BY <1>2 DEF MessageFollowsTx, Final, Own
  <2>b. \A q \in Requests : Final(q) => Final(q)'
    BY <1>2, StepKinds, FinalStays DEF EnlistInv
  <2>c. handled \in [Requests -> {"no", "stored", "dead"}]
    BY <1>2 DEF TypeOK
  <2>d. (\A q \in Requests : mdb' = q \/ handled'[q] # "no" => Final(q)') => MessageFollowsTx'
    BY DEF MessageFollowsTx, Final, Own
  <2>1. ASSUME NEW q \in Requests, OnMessage(q) PROVE MessageFollowsTx'
    <3>1. /\ Queued(q) /\ (mdb' = q \/ mdb' = mdb)
          /\ \A d \in Requests : d # q => handled'[d] = handled[d]
      BY <2>1, <2>c DEF OnMessage
    <3>2. Final(q)
      <4>1. /\ outside[q] \subseteq Outside \/ ~InTx(method[q])
            /\ branch[Own(q)]["JmsXA"] \in Legal[tx[Own(q)]] /\ tx[Own(q)] \in TxStates
        BY <1>2, LocalFlat DEF EnlistInv, RequestInv, DoneInv, TxInv, Own, Levels, Resources, XA
      <4>2. CASE "JmsXA" \in outside[q]
        BY <4>1, <4>2 DEF Outside, Final
      <4>3. CASE branch[Own(q)]["JmsXA"] = "committed"
        BY <4>1, <4>3 DEF TxStates, Legal, Final
      <4>. QED
        BY <3>1, <4>2, <4>3 DEF Queued, Own
    <3>3. \A d \in Requests : mdb' = d \/ handled'[d] # "no" => Final(d)
      BY <2>a, <3>1, <3>2
    <3>. QED
      BY <2>b, <2>d, <3>3
  <2>2. CASE UNCHANGED handled /\ mdb' \in {mdb, NoRequest}
    BY <2>2, <2>a, <2>b, <2>d, EnlistmentAssumption
  <2>3. (\E q \in Requests : OnMessage(q)) \/ (UNCHANGED handled /\ mdb' \in {mdb, NoRequest})
    BY <1>2 DEF Next, Thread, Invoke, Work, FailSwallowed, FailThrown, End, Rollback, OnePhase,
           CompletionFails, Decide, Answer, Vote, Timeout, PhaseTwo, CommitBranch, CommitRefused,
         RollbackBranch,
           Clear, Crash, Restart, vars
  <2>. QED
    BY <2>1, <2>2, <2>3
<1>3. TypeOK /\ EnlistInv /\ MessageFollowsTx /\ [Next]_vars => MessageFollowsTx'
  BY <1>2
<1>. QED
  BY <1>1, <1>3, EnlistInvariant, PTL DEF Spec

=============================================================================
