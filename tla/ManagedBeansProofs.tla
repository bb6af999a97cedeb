--------------------------- MODULE ManagedBeansProofs ---------------------------
(***************************************************************************)
(* Proofs about ManagedBeans for any callers, any number of calls and any  *)
(* interleaving of them, in two parts.                                     *)
(*                                                                         *)
(* The transactions: a step is first reduced to what it does to them       *)
(* (Quiet, Begun, Dropped, Invoked, Completed, TimedOut); the invariants   *)
(* are then proved kind by kind (TypeOK, OneOwner, EndedForGood).          *)
(*                                                                         *)
(* What the methods of the beans come to: whatever other callers and the   *)
(* transaction reaper do, each call runs the course of its method, keeps   *)
(* or loses its entity as its test asserts (OutcomeAsTested), what         *)
(* ResultsBean holds after a call made alone is what the test asserts      *)
(* (ResultsAsTested), and the stateful bean commits a transaction across   *)
(* calls for each call that commits, and no other (CommitsAcrossCalls).    *)
(***************************************************************************)
EXTENDS ManagedBeans, FiniteSetTheorems, SequenceTheorems, TLAPS

-----------------------------------------------------------------------------
(* The methods                                                             *)

(* A method is a bean and a name, and its body is in the table of the      *)
(* beans.                                                                  *)
LEMMA MethodCases ==
  ASSUME NEW m \in Methods
  PROVE  \E b \in DOMAIN Bean : \E n \in DOMAIN Bean[b] : m = <<b, n>> /\ Body(m) = Bean[b][n]
  BY DEF Methods, Body

(* At most six operations, at most one of them a Begin, and none where the *)
(* container begins.                                                       *)
ShapeOf(b, s) ==
  /\ Len(s) \in 0..MaxBody
  /\ \A i, j \in 1..Len(s) : s[i] = Begin /\ s[j] = Begin => i = j
  /\ b \in {"ejb", "cdi"} => \A i \in 1..Len(s) : s[i] # Begin

(* The bodies of each kind of bean, with the exceptions left open.         *)
ContainerManaged(s) ==
  \/ s = <<Persist>>
  \/ \E e \in Exceptions : s = <<Persist, Caught(e)>> \/ s = <<Persist, Store, Thrown(e)>>

BeanManaged(s) ==
  \/ s = <<Begin, Persist, Store, Caught("Runtime"), Commit>>
  \/ s = <<Begin, Persist, Store, Caught("Runtime")>>
  \/ s = <<Begin, Persist, Store, Caught("Runtime"), MarkRollback, Commit>>
  \/ s = <<Begin, Persist, Store>>
  \/ s = <<Persist, Store>>
  \/ s = <<Begin, SetTimeout, Sleep, Persist, Store, Commit>>
  \/ s = <<SetTimeout, Begin, Sleep, Persist, Store, Commit>>
  \/ s = <<Commit>>
  \/ s = <<>>

(* Every body of the table has the shape that the invariant rests on.      *)
LEMMA BodyShape ==
  ASSUME NEW m \in Methods
  PROVE  m[1] \in DOMAIN Bean /\ ShapeOf(m[1], Body(m))
<1>1. /\ \A n \in DOMAIN ExceptionWorkerEjbBean : ContainerManaged(ExceptionWorkerEjbBean[n])
      /\ \A n \in DOMAIN ExceptionWorkerCdiBean : ContainerManaged(ExceptionWorkerCdiBean[n])
  BY DEF ExceptionWorkerEjbBean, ExceptionWorkerCdiBean, ContainerManaged, Exceptions
<1>2. /\ \A n \in DOMAIN ExceptionWorkerBmtEjbBean : BeanManaged(ExceptionWorkerBmtEjbBean[n])
      /\ \A n \in DOMAIN StatelessBmtBean : BeanManaged(StatelessBmtBean[n])
      /\ \A n \in DOMAIN StatefulBmtBean : BeanManaged(StatefulBmtBean[n])
      /\ \A n \in DOMAIN SingletonBmtBean : BeanManaged(SingletonBmtBean[n])
  BY DEF ExceptionWorkerBmtEjbBean, StatelessBmtBean, StatefulBmtBean, SingletonBmtBean,
         BeanManaged
<1>3. ASSUME NEW b, NEW s, ContainerManaged(s) PROVE ShapeOf(b, s)
  BY <1>3 DEF ContainerManaged, ShapeOf, MaxBody, Do, Caught, Thrown, Persist, Store, Begin,
              Exceptions
<1>4. ASSUME NEW b, NEW s, b \notin {"ejb", "cdi"}, BeanManaged(s) PROVE ShapeOf(b, s)
  <2>. USE DEF ShapeOf, MaxBody, Do, Caught, Persist, Store, Begin, MarkRollback, Commit,
               SetTimeout, Sleep
  <2>1. CASE s = <<Begin, Persist, Store, Caught("Runtime"), Commit>>
    BY <1>4, <2>1
  <2>2. CASE s = <<Begin, Persist, Store, Caught("Runtime")>>
    BY <1>4, <2>2
  <2>3. CASE s = <<Begin, Persist, Store, Caught("Runtime"), MarkRollback, Commit>>
    BY <1>4, <2>3
  <2>4. CASE s = <<Begin, Persist, Store>>
    BY <1>4, <2>4
  <2>5. CASE s = <<Persist, Store>>
    BY <1>4, <2>5
  <2>6. CASE s = <<Begin, SetTimeout, Sleep, Persist, Store, Commit>>
    BY <1>4, <2>6
  <2>7. CASE s = <<SetTimeout, Begin, Sleep, Persist, Store, Commit>>
    BY <1>4, <2>7
  <2>8. CASE s = <<Commit>>
    BY <1>4, <2>8
  <2>9. CASE s = <<>>
    BY <1>4, <2>9
  <2>. QED
    BY <1>4, <2>1, <2>2, <2>3, <2>4, <2>5, <2>6, <2>7, <2>8, <2>9 DEF BeanManaged
<1>5. \A b \in DOMAIN Bean : \A n \in DOMAIN Bean[b] : ShapeOf(b, Bean[b][n])
  BY <1>1, <1>2, <1>3, <1>4 DEF Bean
<1>. QED
  BY <1>5, MethodCases

-----------------------------------------------------------------------------
(* Types                                                                   *)

Positions == [phase : Phases \union {"body"}, op : 1..(MaxBody + 1)]
Entries == [m : Methods \union {<<"none", "none">>},
            result : {"none", "returned", "threw"},
            entity : 0..MaxCalls]
Records == [invoke : Seq(Statuses), exit : Seq(Statuses), id : 0..MaxCalls]

(* The types of the variables that hold records.                           *)
LEMMA TypeParts ==
  ASSUME TypeOK
  PROVE  at \in [Callers -> Positions] /\ log \in [Ids -> Entries] /\ results \in Records
  BY DEF TypeOK, Positions, Entries, Records

(* A thread is in a call or idle; the call is its own, its method is known *)
(* and it has no result yet; the calls to come are blank.                  *)
CallInv ==
  /\ \A c \in Callers :
       /\ call[c] = 0 <=> at[c].phase = "idle"
       /\ call[c] # 0 => /\ call[c] <= calls
                         /\ MethodOf(c) \in Methods
                         /\ log[call[c]].result = "none"
       /\ \A d \in Callers : call[c] # 0 /\ call[d] = call[c] => d = c
  /\ \A k \in Ids : k > calls => status[k] = "unused" /\ log[k].result = "none"

(* What is true of a thread in the middle of a method.                     *)
LEMMA DoingFacts ==
  ASSUME TypeOK, CallInv, NEW c \in Callers, NEW op, Doing(c, op)
  PROVE  /\ at[c].phase = "body"
         /\ call[c] \in Ids /\ call[c] <= calls
         /\ MethodOf(c) \in Methods
         /\ at[c].op \in 1..MaxBody
         /\ at[c].op \in 1..Len(Body(MethodOf(c)))
         /\ Body(MethodOf(c))[at[c].op] = op
<1>1. at[c].phase = "body" /\ at[c].op <= Len(Body(MethodOf(c)))
  BY DEF Doing
<1>2. call[c] \in Ids /\ call[c] <= calls /\ MethodOf(c) \in Methods
  BY <1>1, BeansAssumption DEF TypeOK, CallInv, Ids, MethodOf
<1>3. Len(Body(MethodOf(c))) \in 0..MaxBody
  BY <1>2, BodyShape DEF ShapeOf
<1>4. at[c].op \in 1..(MaxBody + 1)
  BY TypeParts DEF Positions
<1>5. ASSUME NEW n \in 0..MaxBody, at[c].op <= n
      PROVE  at[c].op \in 1..MaxBody /\ at[c].op \in 1..n
  BY <1>4, <1>5 DEF MaxBody
<1>6. at[c].op \in 1..MaxBody /\ at[c].op \in 1..Len(Body(MethodOf(c)))
  BY <1>1, <1>3, <1>5
<1>. QED
  BY <1>1, <1>2, <1>6 DEF Doing

(* Edits of the records.                                                   *)
LEMMA Moved ==
  ASSUME at \in [Callers -> Positions], NEW c \in Callers, NEW n \in 1..(MaxBody + 1),
         at' = [at EXCEPT ![c].op = n]
  PROVE  /\ at' \in [Callers -> Positions]
         /\ at'[c].phase = at[c].phase /\ at'[c].op = n
         /\ \A d \in Callers \ {c} : at'[d] = at[d]
  BY DEF Positions

(* What the updates of one field of a record leave as it is: the phase of  *)
(* a call,                                                                 *)
LEMMA Phased ==
  ASSUME at \in [Callers -> Positions], NEW c \in Callers,
         NEW p \in Phases \union {"body"}, at' = [at EXCEPT ![c].phase = p]
  PROVE  /\ at' \in [Callers -> Positions]
         /\ at'[c].phase = p /\ at'[c].op = at[c].op
         /\ \A d \in Callers \ {c} : at'[d] = at[d]
  BY DEF Positions

(* its place in the body,                                                  *)
LEMMA Placed ==
  ASSUME at \in [Callers -> Positions], NEW c \in Callers, NEW a \in Positions,
         at' = [at EXCEPT ![c] = a]
  PROVE  /\ at' \in [Callers -> Positions]
         /\ at'[c] = a
         /\ \A d \in Callers \ {c} : at'[d] = at[d]
  OBVIOUS

(* the method of a call in the log,                                        *)
LEMMA Named ==
  ASSUME log \in [Ids -> Entries], NEW k \in Ids, NEW m \in Methods,
         log' = [log EXCEPT ![k].m = m]
  PROVE  /\ log' \in [Ids -> Entries]
         /\ log'[k].m = m /\ log'[k].result = log[k].result /\ log'[k].entity = log[k].entity
         /\ \A j \in Ids \ {k} : log'[j] = log[j]
  BY DEF Entries

(* its result,                                                             *)
LEMMA Resulted ==
  ASSUME log \in [Ids -> Entries], NEW k \in Ids, NEW v \in {"returned", "threw"},
         log' = [log EXCEPT ![k].result = v]
  PROVE  /\ log' \in [Ids -> Entries]
         /\ log'[k].m = log[k].m /\ log'[k].result = v /\ log'[k].entity = log[k].entity
         /\ \A j \in Ids \ {k} : log'[j] = log[j]
  BY DEF Entries

(* and the entity it persists.                                             *)
LEMMA Persisting ==
  ASSUME log \in [Ids -> Entries], NEW k \in Ids, NEW t \in 0..MaxCalls,
         log' = [log EXCEPT ![k].entity = t]
  PROVE  /\ log' \in [Ids -> Entries]
         /\ log'[k].m = log[k].m /\ log'[k].result = log[k].result /\ log'[k].entity = t
         /\ \A j \in Ids \ {k} : log'[j] = log[j]
  BY DEF Entries

(* A thread that goes on to its next operation, or out of it by exception. *)
LEMMA Continued ==
  ASSUME TypeOK, CallInv, NEW c \in Callers, NEW op, Doing(c, op), Continue(c)
  PROVE  /\ at' \in [Callers -> Positions]
         /\ at'[c].phase = "body" /\ at'[c].op = at[c].op + 1
         /\ \A d \in Callers \ {c} : at'[d] = at[d]
<1>1. at[c].phase = "body" /\ at[c].op \in 1..MaxBody
  BY DoingFacts
<1>2. at[c].op + 1 \in 1..(MaxBody + 1)
  BY <1>1 DEF MaxBody
<1>3. at' = [at EXCEPT ![c].op = at[c].op + 1]
  BY DEF Continue
<1>. QED
  BY <1>1, <1>2, <1>3, TypeParts, Moved

(* An operation that throws leaves the body for the handler, or for the    *)
(* container.                                                              *)
LEMMA Failed ==
  ASSUME TypeOK, NEW c \in Callers, NEW e \in Exceptions, Fail(c, e)
  PROVE  /\ at' \in [Callers -> Positions]
         /\ at'[c].phase \in {"rollback", e} /\ at'[c].op = at[c].op
         /\ \A d \in Callers \ {c} : at'[d] = at[d]
<1>1. PICK p \in {"rollback", e} : at' = [at EXCEPT ![c].phase = p]
  BY DEF Fail
<1>2. p \in Phases \union {"body"}
  BY DEF Phases
<1>. QED
  BY <1>1, <1>2, TypeParts, Phased

-----------------------------------------------------------------------------
(* The kinds of steps                                                      *)

(* The calls, their methods and results, and the stateful bean stay.       *)
Kept ==
  /\ UNCHANGED <<calls, call, held, removed>>
  /\ \A k \in Ids : log'[k].m = log[k].m /\ log'[k].result = log[k].result

(* Only c moves, within its call, and never back to an earlier operation.  *)
Moves(c) ==
  /\ at[c].phase # "idle" /\ at'[c].phase # "idle"
  /\ \A d \in Callers \ {c} : at'[d] = at[d]
  /\ at'[c].phase = "body" =>
       \/ at[c].phase = "body" /\ at'[c].op = at[c].op + 1
       \/ at'[c].op = MaxBody + 1

(* No transaction begins, ends or changes its thread.                      *)
Quiet(c) ==
  /\ Kept /\ Moves(c) /\ UNCHANGED tx
  /\ \A t \in Ids : \/ status'[t] = status[t]
                    \/ t = tx[c] /\ status[t] = "active" /\ status'[t] = "marked"

Begun(c) ==
  /\ Kept /\ Moves(c)
  /\ at[c].phase = "body" /\ at'[c].phase = "body"
  /\ at[c].op \in 1..Len(Body(MethodOf(c)))
  /\ Body(MethodOf(c))[at[c].op] = Begin
  /\ tx[c] = 0 /\ tx' = [tx EXCEPT ![c] = call[c]]
  /\ status' = [status EXCEPT ![call[c]] = "active"]

(* The transaction ends and leaves the thread.                             *)
Dropped(c) ==
  /\ Kept /\ (Moves(c) \/ UNCHANGED at)
  /\ tx' = [tx EXCEPT ![c] = 0]
  /\ \A t \in Ids :
       /\ t # tx[c] => status'[t] = status[t]
       /\ t = tx[c] => \/ status'[t] = "aborted"
                       \/ status'[t] = "committed" /\ status[t] = "active"

Invoked(c, m) ==
  /\ at[c].phase = "idle" /\ at'[c].phase = "body" /\ at'[c].op = 1
  /\ \A d \in Callers \ {c} : at'[d] = at[d]
  /\ calls < MaxCalls /\ calls' = calls + 1
  /\ call' = [call EXCEPT ![c] = calls + 1]
  /\ log'[calls + 1].m = m
  /\ \A k \in Ids : /\ log'[k].result = log[k].result
                    /\ k # calls + 1 => log'[k].m = log[k].m
  /\ m[1] = "stateful" =>
       /\ ~removed
       /\ \A d \in Callers : call[d] # 0 => MethodOf(d)[1] # "stateful"
  /\ LET t == IF m[1] \in {"ejb", "cdi"} THEN calls + 1
              ELSE IF m[1] = "stateful" THEN held ELSE 0
     IN  /\ tx' = [tx EXCEPT ![c] = t]
         /\ status' = IF m[1] \in {"ejb", "cdi"} THEN [status EXCEPT ![t] = "active"]
                      ELSE status
  /\ held' = IF m[1] = "stateful" THEN 0 ELSE held
  /\ UNCHANGED removed

(* The stateful bean alone may keep its transaction, as it is.             *)
Completed(c) ==
  /\ at[c].phase # "idle" /\ at'[c].phase = "idle"
  /\ \A d \in Callers \ {c} : at'[d] = at[d]
  /\ UNCHANGED calls
  /\ call' = [call EXCEPT ![c] = 0]
  /\ tx' = [tx EXCEPT ![c] = 0]
  /\ \A k \in Ids : /\ log'[k].m = log[k].m
                    /\ k # call[c] => log'[k].result = log[k].result
  /\ log'[call[c]].result # "none"
  /\ \A t \in Ids : t # tx[c] => status'[t] = status[t]
  /\ tx[c] \in Ids =>
       status'[tx[c]] = FinalStatus(MethodOf(c), at[c].phase, status[tx[c]])
  /\ \/ MethodOf(c)[1] # "stateful" /\ UNCHANGED <<held, removed>>
     \/ MethodOf(c)[1] = "stateful" /\ held' = tx[c] /\ UNCHANGED removed
     \/ MethodOf(c)[1] = "stateful" /\ UNCHANGED held /\ removed'

TimedOut(t) ==
  /\ Kept /\ UNCHANGED <<at, tx>>
  /\ status[t] \in {"active", "marked"}
  /\ status' = [status EXCEPT ![t] = "aborted"]

Rest == Kept /\ UNCHANGED <<at, tx, status>>

StepKind ==
  \/ Rest
  \/ \E c \in Callers : Quiet(c) \/ Begun(c) \/ Dropped(c) \/ Completed(c)
  \/ \E c \in Callers, m \in Methods : Invoked(c, m)
  \/ \E t \in Ids : TimedOut(t)

(* Every step keeps the types and is of one of the kinds.                  *)
LEMMA StepTyped == TypeOK /\ CallInv /\ [Next]_vars => TypeOK' /\ StepKind
<1>. SUFFICES ASSUME TypeOK, CallInv, [Next]_vars PROVE TypeOK' /\ StepKind
  OBVIOUS
<1>. DEFINE Good == TypeOK' /\ StepKind
<1>a. ASSUME calls' \in 0..MaxCalls, call' \in [Callers -> 0..MaxCalls],
             at' \in [Callers -> Positions], log' \in [Ids -> Entries],
             tx' \in [Callers -> 0..MaxCalls],
             timeout' \in [Callers -> {"default", "short"}],
             status' \in [Ids -> Statuses], limit' \in [Ids -> {"default", "short"}],
             held' \in 0..MaxCalls, removed' \in BOOLEAN, alone' \in BOOLEAN,
             results' \in Records
      PROVE  TypeOK'
  BY <1>a DEF TypeOK, Positions, Entries, Records
<1>b. /\ calls \in 0..MaxCalls /\ call \in [Callers -> 0..MaxCalls]
      /\ at \in [Callers -> Positions] /\ log \in [Ids -> Entries]
      /\ tx \in [Callers -> 0..MaxCalls]
      /\ timeout \in [Callers -> {"default", "short"}]
      /\ status \in [Ids -> Statuses] /\ limit \in [Ids -> {"default", "short"}]
      /\ held \in 0..MaxCalls /\ removed \in BOOLEAN /\ alone \in BOOLEAN
      /\ results \in Records
  BY TypeParts DEF TypeOK
<1>c. \A c \in Callers : tx[c] \in Ids \/ tx[c] = 0
  BY <1>b, BeansAssumption DEF Ids
<1>. USE DEF calling, manager, bean, record
<1>1. ASSUME NEW c \in Callers, SetUp(c) PROVE Good
  <2>1. status' \in [Ids -> Statuses] /\ tx' \in [Callers -> 0..MaxCalls]
    BY <1>1, <1>b, BeansAssumption DEF SetUp, Statuses
  <2>2. results' \in Records
    BY <1>1, BeansAssumption DEF SetUp, Cleared, Records
  <2>3. Dropped(c)
    BY <1>1 DEF SetUp, Dropped, Kept
  <2>. QED
    BY <1>1, <1>a, <1>b, <2>1, <2>2, <2>3 DEF SetUp, StepKind
<1>2. ASSUME NEW c \in Callers, NEW m \in Methods, Invoke(c, m) PROVE Good
  <2>. DEFINE begun == m[1] \in {"ejb", "cdi"}
              t == IF begun THEN calls + 1 ELSE IF m[1] = "stateful" THEN held ELSE 0
              s == IF t = 0 THEN "unused" ELSE status'[t]
  <2>1. calls + 1 \in Ids /\ calls + 1 \in 0..MaxCalls /\ t \in 0..MaxCalls
    BY <1>2, <1>b, BeansAssumption DEF Invoke, Ids
  <2>2. /\ calls' = calls + 1
        /\ call' = [call EXCEPT ![c] = calls + 1]
        /\ log' = [log EXCEPT ![calls + 1].m = m]
        /\ at' = [at EXCEPT ![c] = [phase |-> "body", op |-> 1]]
        /\ tx' = [tx EXCEPT ![c] = t]
        /\ status' = IF begun THEN [status EXCEPT ![t] = "active"] ELSE status
        /\ limit' = IF begun THEN [limit EXCEPT ![t] = timeout[c]] ELSE limit
        /\ held' = IF m[1] = "stateful" THEN 0 ELSE held
        /\ results' = [results EXCEPT !.invoke = Append(@, s)]
        /\ alone' = (alone /\ results = Cleared)
        /\ UNCHANGED <<timeout, removed>>
    BY <1>2 DEF Invoke
  <2>3. status' \in [Ids -> Statuses] /\ limit' \in [Ids -> {"default", "short"}]
    BY <1>b, <2>2 DEF Statuses
  <2>4. tx' \in [Callers -> 0..MaxCalls] /\ held' \in 0..MaxCalls
    BY <1>b, <2>1, <2>2, BeansAssumption
  <2>5. s \in Statuses
    BY <2>1, <2>3, BeansAssumption DEF Ids, Statuses
  <2>6. results' \in Records
    <3>. HIDE DEF s
    <3>1. Append(results.invoke, s) \in Seq(Statuses)
      BY <1>b, <2>5 DEF Records
    <3>. QED
      BY <1>b, <2>2, <3>1 DEF Records
  <2>7. /\ at' \in [Callers -> Positions]
        /\ at'[c] = [phase |-> "body", op |-> 1]
        /\ \A d \in Callers \ {c} : at'[d] = at[d]
    <3>1. [phase |-> "body", op |-> 1] \in Positions
      BY DEF Positions, MaxBody
    <3>. QED
      BY <1>b, <2>2, <3>1, Placed
  <2>8. /\ log' \in [Ids -> Entries]
        /\ log'[calls + 1].m = m /\ log'[calls + 1].result = log[calls + 1].result
        /\ \A j \in Ids \ {calls + 1} : log'[j] = log[j]
    BY <1>b, <2>1, <2>2, Named
  <2>9. calls' \in 0..MaxCalls /\ call' \in [Callers -> 0..MaxCalls] /\ alone' \in BOOLEAN
    BY <1>b, <2>1, <2>2
  <2>10. TypeOK'
    BY <1>a, <1>b, <2>2, <2>3, <2>4, <2>6, <2>7, <2>8, <2>9
  <2>11. /\ at[c].phase = "idle" /\ calls < MaxCalls
         /\ m[1] = "stateful" =>
              /\ ~removed
              /\ \A d \in Callers : call[d] # 0 => MethodOf(d)[1] # "stateful"
    BY <1>2 DEF Invoke
  <2>12. at'[c].phase = "body" /\ at'[c].op = 1
    BY <2>7
  <2>13. Invoked(c, m)
    BY <2>2, <2>7, <2>8, <2>11, <2>12 DEF Invoked
  <2>. QED
    BY <2>10, <2>13 DEF StepKind
<1>3. ASSUME NEW c \in Callers, UtxBegin(c) PROVE Good
  <2>1. Doing(c, Begin)
    BY <1>3 DEF UtxBegin
  <2>2. CASE tx[c] = 0
    <3>1. Continue(c)
      BY <1>3, <2>2 DEF UtxBegin
    <3>2. /\ at' \in [Callers -> Positions]
          /\ at'[c].phase = "body" /\ at'[c].op = at[c].op + 1
          /\ \A d \in Callers \ {c} : at'[d] = at[d]
      BY <2>1, <3>1, Continued
    <3>3. /\ tx' = [tx EXCEPT ![c] = call[c]]
          /\ status' = [status EXCEPT ![call[c]] = "active"]
          /\ limit' = [limit EXCEPT ![call[c]] = timeout[c]]
          /\ UNCHANGED <<calling, timeout, bean, record>>
      BY <1>3, <2>2 DEF UtxBegin
    <3>4. /\ tx' \in [Callers -> 0..MaxCalls] /\ status' \in [Ids -> Statuses]
          /\ limit' \in [Ids -> {"default", "short"}]
      BY <1>b, <3>3 DEF Statuses
    <3>5. Begun(c)
      BY <2>1, <2>2, <3>2, <3>3, DoingFacts DEF Begun, Kept, Moves
    <3>. QED
      BY <1>a, <1>b, <3>2, <3>3, <3>4, <3>5 DEF StepKind
  <2>3. CASE tx[c] # 0
    <3>1. Fail(c, "Application") /\ UNCHANGED <<calling, manager, bean, record>>
      BY <1>3, <2>3 DEF UtxBegin
    <3>2. "Application" \in Exceptions
      BY DEF Exceptions
    <3>3. /\ at' \in [Callers -> Positions]
          /\ at'[c].phase \in {"rollback", "Application"}
          /\ \A d \in Callers \ {c} : at'[d] = at[d]
      BY <3>1, <3>2, Failed
    <3>4. Quiet(c)
      BY <2>1, <3>1, <3>3, DoingFacts DEF Quiet, Kept, Moves
    <3>. QED
      BY <1>a, <1>b, <3>1, <3>3, <3>4 DEF StepKind
  <2>. QED
    BY <2>2, <2>3
<1>4. ASSUME NEW c \in Callers, UtxSetTransactionTimeout(c) PROVE Good
  <2>1. /\ Doing(c, SetTimeout) /\ Continue(c)
        /\ timeout' = [timeout EXCEPT ![c] = "short"]
        /\ UNCHANGED <<calling, tx, status, limit, bean, record>>
    BY <1>4 DEF UtxSetTransactionTimeout
  <2>2. /\ at' \in [Callers -> Positions]
        /\ at'[c].phase = "body" /\ at'[c].op = at[c].op + 1
        /\ \A d \in Callers \ {c} : at'[d] = at[d]
    BY <2>1, Continued
  <2>3. Quiet(c)
    BY <2>1, <2>2, DoingFacts DEF Quiet, Kept, Moves
  <2>. QED
    BY <1>a, <1>b, <2>1, <2>2, <2>3 DEF StepKind
<1>5. ASSUME NEW c \in Callers, ThreadSleep(c) PROVE Good
  <2>1. Doing(c, Sleep) /\ Continue(c) /\ UNCHANGED <<calling, manager, bean, record>>
    BY <1>5 DEF ThreadSleep
  <2>2. /\ at' \in [Callers -> Positions]
        /\ at'[c].phase = "body" /\ at'[c].op = at[c].op + 1
        /\ \A d \in Callers \ {c} : at'[d] = at[d]
    BY <2>1, Continued
  <2>3. Quiet(c)
    BY <2>1, <2>2, DoingFacts DEF Quiet, Kept, Moves
  <2>. QED
    BY <1>a, <1>b, <2>1, <2>2, <2>3 DEF StepKind
<1>6. ASSUME NEW c \in Callers, EmPersist(c) PROVE Good
  <2>1. Doing(c, Persist) /\ UNCHANGED <<calls, call, manager, bean, record>>
    BY <1>6 DEF EmPersist
  <2>2. CASE Continue(c) /\ log' = [log EXCEPT ![call[c]].entity = tx[c]]
    <3>1. /\ at' \in [Callers -> Positions]
          /\ at'[c].phase = "body" /\ at'[c].op = at[c].op + 1
          /\ \A d \in Callers \ {c} : at'[d] = at[d]
      BY <2>1, <2>2, Continued
    <3>2. /\ log' \in [Ids -> Entries]
          /\ \A k \in Ids : log'[k].m = log[k].m /\ log'[k].result = log[k].result
      BY <1>b, <2>1, <2>2, DoingFacts, Persisting
    <3>3. Quiet(c)
      BY <2>1, <3>1, <3>2, DoingFacts DEF Quiet, Kept, Moves
    <3>. QED
      BY <1>a, <1>b, <2>1, <3>1, <3>2, <3>3 DEF StepKind
  <2>3. CASE Fail(c, "Runtime") /\ UNCHANGED log
    <3>1. "Runtime" \in Exceptions
      BY DEF Exceptions
    <3>2. /\ at' \in [Callers -> Positions]
          /\ at'[c].phase \in {"rollback", "Runtime"}
          /\ \A d \in Callers \ {c} : at'[d] = at[d]
      BY <2>3, <3>1, Failed
    <3>3. Quiet(c)
      BY <2>1, <2>3, <3>2, DoingFacts DEF Quiet, Kept, Moves
    <3>. QED
      BY <1>a, <1>b, <2>1, <2>3, <3>2, <3>3 DEF StepKind
  <2>. QED
    BY <1>6, <2>2, <2>3 DEF EmPersist
<1>7. ASSUME NEW c \in Callers, AddStorageValue(c) PROVE Good
  <2>1. /\ Doing(c, Store) /\ Continue(c)
        /\ results' = [results EXCEPT !.id = call[c]]
        /\ UNCHANGED <<calling, manager, bean, alone>>
    BY <1>7 DEF AddStorageValue
  <2>2. /\ at' \in [Callers -> Positions]
        /\ at'[c].phase = "body" /\ at'[c].op = at[c].op + 1
        /\ \A d \in Callers \ {c} : at'[d] = at[d]
    BY <2>1, Continued
  <2>3. results' \in Records
    BY <1>b, <2>1 DEF Records
  <2>4. Quiet(c)
    BY <2>1, <2>2, DoingFacts DEF Quiet, Kept, Moves
  <2>. QED
    BY <1>a, <1>b, <2>1, <2>2, <2>3, <2>4 DEF StepKind
<1>8. ASSUME NEW c \in Callers, CallThrower(c) PROVE Good
  <2>1. PICK e \in Exceptions :
          /\ \/ Doing(c, Caught(e)) /\ Continue(c)
             \/ Doing(c, Thrown(e)) /\ Fail(c, e)
          /\ status' = [t \in Ids |-> IF t = tx[c] /\ status[t] = "active"
                                         /\ MarkedBy(MethodOf(c), e)
                                      THEN "marked" ELSE status[t]]
          /\ UNCHANGED <<calling, tx, timeout, limit, bean, record>>
    BY <1>8 DEF CallThrower
  <2>2. /\ at[c].phase = "body" /\ at' \in [Callers -> Positions]
        /\ \/ at'[c].phase = "body" /\ at'[c].op = at[c].op + 1
           \/ at'[c].phase \in {"rollback", e}
        /\ \A d \in Callers \ {c} : at'[d] = at[d]
    BY <2>1, DoingFacts, Continued, Failed
  <2>3. status' \in [Ids -> Statuses]
    BY <1>b, <2>1 DEF Statuses
  <2>4. Quiet(c)
    BY <2>1, <2>2 DEF Quiet, Kept, Moves, Exceptions
  <2>. QED
    BY <1>a, <1>b, <2>1, <2>2, <2>3, <2>4 DEF StepKind
<1>9. ASSUME NEW c \in Callers, UtxSetRollbackOnly(c) PROVE Good
  <2>1. Doing(c, MarkRollback) /\ UNCHANGED <<calling, tx, timeout, limit, bean, record>>
    BY <1>9 DEF UtxSetRollbackOnly
  <2>2. CASE /\ StatusOf(tx[c]) \in {"active", "marked"} /\ Continue(c)
             /\ status' = [status EXCEPT ![tx[c]] = "marked"]
    <3>1. /\ at' \in [Callers -> Positions]
          /\ at'[c].phase = "body" /\ at'[c].op = at[c].op + 1
          /\ \A d \in Callers \ {c} : at'[d] = at[d]
      BY <2>1, <2>2, Continued
    <3>2. /\ status' \in [Ids -> Statuses]
          /\ tx[c] \in Ids /\ status[tx[c]] \in {"active", "marked"}
      BY <1>b, <1>c, <2>2 DEF StatusOf, Statuses
    <3>3. Quiet(c)
      BY <1>b, <2>1, <2>2, <3>1, <3>2, DoingFacts DEF Quiet, Kept, Moves
    <3>. QED
      BY <1>a, <1>b, <2>1, <3>1, <3>2, <3>3 DEF StepKind
  <2>3. CASE Fail(c, "Runtime") /\ UNCHANGED status
    <3>1. "Runtime" \in Exceptions
      BY DEF Exceptions
    <3>2. /\ at' \in [Callers -> Positions]
          /\ at'[c].phase \in {"rollback", "Runtime"}
          /\ \A d \in Callers \ {c} : at'[d] = at[d]
      BY <2>3, <3>1, Failed
    <3>3. Quiet(c)
      BY <2>1, <2>3, <3>2, DoingFacts DEF Quiet, Kept, Moves
    <3>. QED
      BY <1>a, <1>b, <2>1, <2>3, <3>2, <3>3 DEF StepKind
  <2>. QED
    BY <1>9, <2>2, <2>3 DEF UtxSetRollbackOnly
<1>10. ASSUME NEW c \in Callers, UtxCommit(c) PROVE Good
  <2>1. /\ Doing(c, Commit) /\ UNCHANGED <<calling, timeout, limit, bean, record>>
        /\ tx' = [tx EXCEPT ![c] = 0]
        /\ status' = [t \in Ids |-> IF t # tx[c] THEN status[t]
                                    ELSE IF status[t] = "active" THEN "committed"
                                    ELSE "aborted"]
    BY <1>10 DEF UtxCommit
  <2>2. Continue(c) \/ Fail(c, "Runtime") \/ Fail(c, "Application")
    BY <1>10 DEF UtxCommit
  <2>3. {"Runtime", "Application"} \subseteq Exceptions
    BY DEF Exceptions
  <2>4. /\ at[c].phase = "body" /\ at' \in [Callers -> Positions]
        /\ \/ at'[c].phase = "body" /\ at'[c].op = at[c].op + 1
           \/ at'[c].phase \in {"rollback", "Runtime", "Application"}
        /\ \A d \in Callers \ {c} : at'[d] = at[d]
    BY <2>1, <2>2, <2>3, DoingFacts, Continued, Failed
  <2>5. status' \in [Ids -> Statuses] /\ tx' \in [Callers -> 0..MaxCalls]
    BY <1>b, <2>1, BeansAssumption DEF Statuses
  <2>6. Dropped(c)
    BY <2>1, <2>4 DEF Dropped, Kept, Moves
  <2>. QED
    BY <1>a, <1>b, <2>1, <2>4, <2>5, <2>6 DEF StepKind
<1>11. ASSUME NEW c \in Callers, UtxRollback(c) PROVE Good
  <2>1. /\ at[c].phase = "rollback"
        /\ at' = [at EXCEPT ![c] = IF tx[c] = 0 THEN [@ EXCEPT !.phase = "Runtime"]
                                   ELSE [phase |-> "body", op |-> MaxBody + 1]]
        /\ status' = [t \in Ids |-> IF t = tx[c] THEN "aborted" ELSE status[t]]
        /\ tx' = [tx EXCEPT ![c] = 0]
        /\ UNCHANGED <<calling, timeout, limit, bean, record>>
    BY <1>11 DEF UtxRollback
  <2>2. PICK a \in Positions :
          /\ at' = [at EXCEPT ![c] = a]
          /\ a.phase = "Runtime" \/ (a.phase = "body" /\ a.op = MaxBody + 1)
    <3>1. at[c] \in Positions
      BY <1>b
    <3>2. /\ [at[c] EXCEPT !.phase = "Runtime"] \in Positions
          /\ [at[c] EXCEPT !.phase = "Runtime"].phase = "Runtime"
      BY <3>1 DEF Positions, Phases, Exceptions
    <3>3. [phase |-> "body", op |-> MaxBody + 1] \in Positions
      BY DEF Positions, MaxBody
    <3>. QED
      BY <2>1, <3>2, <3>3
  <2>3. /\ at' \in [Callers -> Positions] /\ at'[c] = a
        /\ \A d \in Callers \ {c} : at'[d] = at[d]
    BY <1>b, <2>2, Placed
  <2>4. status' \in [Ids -> Statuses] /\ tx' \in [Callers -> 0..MaxCalls]
    BY <1>b, <2>1, BeansAssumption DEF Statuses
  <2>5. Dropped(c)
    BY <2>1, <2>2, <2>3 DEF Dropped, Kept, Moves
  <2>. QED
    BY <1>a, <1>b, <2>1, <2>3, <2>4, <2>5 DEF StepKind
<1>12. ASSUME NEW c \in Callers, InterceptorExit(c) PROVE Good
  <2>1. /\ at[c].phase = "body"
        /\ at' = [at EXCEPT ![c].phase = "returning"]
        /\ results' = [results EXCEPT !.exit = Append(@, StatusOf(tx[c]))]
        /\ UNCHANGED <<calling, manager, bean, alone>>
    BY <1>12 DEF InterceptorExit
  <2>2. /\ at' \in [Callers -> Positions] /\ at'[c].phase = "returning"
        /\ \A d \in Callers \ {c} : at'[d] = at[d]
    BY <1>b, <2>1, Phased DEF Phases
  <2>3. StatusOf(tx[c]) \in Statuses
    BY <1>b, <1>c DEF StatusOf, Statuses
  <2>4. results' \in Records
    <3>1. Append(results.exit, StatusOf(tx[c])) \in Seq(Statuses)
      BY <1>b, <2>3 DEF Records
    <3>. QED
      BY <1>b, <2>1, <3>1 DEF Records
  <2>5. Quiet(c)
    BY <2>1, <2>2 DEF Quiet, Kept, Moves
  <2>. QED
    BY <1>a, <1>b, <2>1, <2>2, <2>4, <2>5 DEF StepKind
<1>13. ASSUME NEW c \in Callers, Complete(c) PROVE Good
  <2>. DEFINE m == MethodOf(c)
              s == StatusOf(tx[c])
              phase == at[c].phase
              gone == m = <<"stateful", "remove">> \/ phase = "Runtime"
  <2>1. /\ phase \in Exceptions \union {"returning"}
        /\ status' = [t \in Ids |-> IF t = tx[c] THEN FinalStatus(m, phase, s)
                                    ELSE status[t]]
        /\ log' = [log EXCEPT ![call[c]].result = CallResult(m, phase, s)]
        /\ held' = IF m[1] = "stateful" /\ ~gone THEN tx[c] ELSE held
        /\ removed' = (removed \/ (m[1] = "stateful" /\ gone))
        /\ tx' = [tx EXCEPT ![c] = 0]
        /\ call' = [call EXCEPT ![c] = 0]
        /\ timeout' = [timeout EXCEPT ![c] = "default"]
        /\ at' = [at EXCEPT ![c] = [phase |-> "idle", op |-> 1]]
        /\ UNCHANGED <<calls, limit, record>>
    BY <1>13 DEF Complete
  <2>. HIDE DEF gone
  <2>2. phase # "idle" /\ call[c] \in Ids
    <3>1. phase # "idle"
      BY <2>1 DEF Exceptions
    <3>. QED
      BY <1>b, <3>1, BeansAssumption DEF CallInv, Ids
  <2>3. s \in Statuses /\ FinalStatus(m, phase, s) \in Statuses
    <3>1. s \in Statuses
      BY <1>b, <1>c DEF StatusOf, Statuses
    <3>. HIDE DEF s, m, phase
    <3>. QED
      BY <3>1 DEF FinalStatus, Statuses
  <2>4. PICK v \in {"returned", "threw"} : log' = [log EXCEPT ![call[c]].result = v]
    <3>1. CallResult(m, phase, s) \in {"returned", "threw"}
      BY DEF CallResult
    <3>. QED
      BY <2>1, <3>1
  <2>5. /\ log' \in [Ids -> Entries] /\ log'[call[c]].result = v
        /\ log'[call[c]].m = log[call[c]].m
        /\ \A j \in Ids \ {call[c]} : log'[j] = log[j]
    BY <1>b, <2>2, <2>4, Resulted
  <2>6. /\ at' \in [Callers -> Positions] /\ at'[c] = [phase |-> "idle", op |-> 1]
        /\ \A d \in Callers \ {c} : at'[d] = at[d]
    <3>1. [phase |-> "idle", op |-> 1] \in Positions
      BY DEF Positions, Phases, MaxBody
    <3>. QED
      BY <1>b, <2>1, <3>1, Placed
  <2>7. /\ status' \in [Ids -> Statuses] /\ tx' \in [Callers -> 0..MaxCalls]
        /\ call' \in [Callers -> 0..MaxCalls] /\ timeout' \in [Callers -> {"default", "short"}]
        /\ held' \in 0..MaxCalls /\ removed' \in BOOLEAN
    BY <1>b, <2>1, <2>3, BeansAssumption
  <2>8. TypeOK'
    BY <1>a, <1>b, <2>1, <2>5, <2>6, <2>7
  <2>9. /\ \A t \in Ids : t # tx[c] => status'[t] = status[t]
        /\ tx[c] \in Ids => status'[tx[c]] = FinalStatus(m, phase, status[tx[c]])
    BY <2>1, BeansAssumption DEF StatusOf, Ids
  <2>10. \/ m[1] # "stateful" /\ UNCHANGED <<held, removed>>
         \/ m[1] = "stateful" /\ held' = tx[c] /\ UNCHANGED removed
         \/ m[1] = "stateful" /\ UNCHANGED held /\ removed'
    BY <1>b, <2>1
  <2>11. at'[c].phase = "idle"
    BY <2>6
  <2>12. Completed(c)
    BY <2>1, <2>2, <2>4, <2>5, <2>6, <2>9, <2>10, <2>11 DEF Completed
  <2>. QED
    BY <2>8, <2>12 DEF StepKind
<1>14. ASSUME NEW t \in Ids, Timeout(t) PROVE Good
  <2>1. /\ status[t] \in {"active", "marked"}
        /\ status' = [status EXCEPT ![t] = "aborted"]
        /\ UNCHANGED <<calling, at, tx, timeout, limit, bean, record>>
    BY <1>14 DEF Timeout
  <2>2. TimedOut(t)
    BY <2>1 DEF TimedOut, Kept
  <2>3. status' \in [Ids -> Statuses]
    BY <1>b, <2>1 DEF Statuses
  <2>. QED
    BY <1>a, <1>b, <2>1, <2>2, <2>3 DEF StepKind
<1>15. CASE UNCHANGED vars
  BY <1>a, <1>b, <1>15 DEF vars, StepKind, Rest, Kept
<1>. QED
  BY <1>1, <1>2, <1>3, <1>4, <1>5, <1>6, <1>7, <1>8, <1>9, <1>10, <1>11, <1>12,
     <1>13, <1>14, <1>15
  DEF Next, Step

-----------------------------------------------------------------------------
(* Who owns a transaction                                                  *)

InStateful(c) == call[c] # 0 /\ MethodOf(c)[1] = "stateful"

(* A transaction that a stateful bean kept from an earlier call.           *)
FromStateful(t) == log[t].m[1] = "stateful" /\ log[t].result # "none"

Open(t) == status[t] \in {"active", "marked", "aborted"}

(* An idle thread has no transaction.  A thread's transaction is not       *)
(* committed, is on no other thread and not kept in the bean; it is the    *)
(* one of its call, or the thread is in the stateful bean, which had kept  *)
(* it.                                                                     *)
ThreadInv ==
  \A c \in Callers :
    /\ call[c] = 0 => tx[c] = 0
    /\ tx[c] # 0 => /\ Open(tx[c]) /\ tx[c] # held
                    /\ tx[c] = call[c] \/ (InStateful(c) /\ FromStateful(tx[c]))
                    /\ \A d \in Callers : tx[d] = tx[c] => d = c

(* What the bean keeps is its own and not committed.  It keeps nothing     *)
(* while a thread is in it, and there is never a second one.               *)
HeldInv ==
  /\ held # 0 => Open(held) /\ FromStateful(held)
  /\ \A c \in Callers : InStateful(c) => /\ held = 0
                                        /\ \A d \in Callers : InStateful(d) => d = c

(* A live transaction on no thread is kept in the bean or was, until the   *)
(* bean was removed.                                                       *)
LostInv ==
  \A t \in Ids : Live(t) /\ (\A c \in Callers : tx[c] # t) =>
    held = t \/ (removed /\ log[t].m[1] = "stateful")

(* Method m begins a transaction in its i-th operation or a later one.     *)
BeginsFrom(m, i) == \E j \in 1..Len(Body(m)) : i <= j /\ Body(m)[j] = Begin

(* Before its Begin a call has no transaction of its own.                  *)
BeginInv ==
  \A c \in Callers :
    at[c].phase = "body" /\ BeginsFrom(MethodOf(c), at[c].op) => status[call[c]] = "unused"

OwnerInv == ThreadInv /\ HeldInv /\ LostInv /\ BeginInv

(* Where a method may still begin a transaction.                           *)
LEMMA BeginsFacts ==
  ASSUME NEW m \in Methods, NEW i \in 1..(MaxBody + 1)
  PROVE  /\ BeginsFrom(m, i + 1) => BeginsFrom(m, i)
         /\ ~BeginsFrom(m, MaxBody + 1)
         /\ m[1] \in {"ejb", "cdi"} => ~BeginsFrom(m, 1)
         /\ i \in 1..Len(Body(m)) /\ Body(m)[i] = Begin =>
              BeginsFrom(m, i) /\ ~BeginsFrom(m, i + 1)
<1>. DEFINE n == Len(Body(m))
            s == Body(m)
<1>1. /\ n \in 0..MaxBody
      /\ \A j, k \in 1..n : s[j] = Begin /\ s[k] = Begin => j = k
      /\ m[1] \in {"ejb", "cdi"} => \A j \in 1..n : s[j] # Begin
  BY BodyShape DEF ShapeOf
<1>2. \A k \in Nat : BeginsFrom(m, k) <=> \E j \in 1..n : k <= j /\ s[j] = Begin
  BY DEF BeginsFrom
<1>. HIDE DEF n, s
<1>3. BeginsFrom(m, i + 1) => BeginsFrom(m, i)
  <2>1. \A j \in 1..n : i + 1 <= j => i <= j
    BY <1>1
  <2>. QED
    BY <1>2, <2>1
<1>4. ~BeginsFrom(m, MaxBody + 1)
  <2>1. \A j \in 1..n : ~(MaxBody + 1 <= j)
    BY <1>1 DEF MaxBody
  <2>2. MaxBody + 1 \in Nat
    BY DEF MaxBody
  <2>. QED
    BY <1>2, <2>1, <2>2
<1>5. m[1] \in {"ejb", "cdi"} => ~BeginsFrom(m, 1)
  BY <1>1, <1>2
<1>6. ASSUME i \in 1..n, s[i] = Begin
      PROVE  BeginsFrom(m, i) /\ ~BeginsFrom(m, i + 1)
  <2>1. \A j \in 1..n : s[j] = Begin => j = i
    BY <1>1, <1>6
  <2>2. i <= i /\ ~(i + 1 <= i) /\ i \in Nat /\ i + 1 \in Nat
    OBVIOUS
  <2>. QED
    BY <1>2, <1>6, <2>1, <2>2
<1>. QED
  BY <1>3, <1>4, <1>5, <1>6 DEF n, s

(* What the invariants know of the types.                                  *)
LEMMA Flat ==
  ASSUME TypeOK
  PROVE  /\ calls \in 0..MaxCalls /\ call \in [Callers -> 0..MaxCalls]
         /\ tx \in [Callers -> 0..MaxCalls] /\ status \in [Ids -> Statuses]
         /\ held \in 0..MaxCalls /\ removed \in BOOLEAN
         /\ \A c \in Callers : at[c].op \in 1..(MaxBody + 1)
         /\ \A c \in Callers : call[c] = 0 \/ call[c] \in Ids
         /\ \A c \in Callers : tx[c] = 0 \/ tx[c] \in Ids
         /\ held = 0 \/ held \in Ids
<1>1. \A c \in Callers : at[c].op \in 1..(MaxBody + 1)
  BY TypeParts DEF Positions
<1>. QED
  BY <1>1, BeansAssumption DEF TypeOK, Ids

(* What a step that keeps the calls keeps of them.                         *)
LEMMA KeptFacts ==
  ASSUME TypeOK, CallInv, Kept
  PROVE  /\ \A c \in Callers : call'[c] = call[c]
         /\ \A c \in Callers : call[c] # 0 => MethodOf(c)' = MethodOf(c)
         /\ \A c \in Callers : call[c] # 0 => log'[call[c]].result = log[call[c]].result
         /\ \A c \in Callers : InStateful(c)' <=> InStateful(c)
         /\ \A t \in Ids : FromStateful(t)' <=> FromStateful(t)
  BY Flat DEF Kept, InStateful, FromStateful, MethodOf

(* The calls stay as they were, and nothing happens to those to come.      *)
LEMMA CallsKept ==
  ASSUME TypeOK, CallInv, Kept,
         \A c \in Callers : at'[c].phase = "idle" <=> at[c].phase = "idle",
         \A t \in Ids : status'[t] = status[t] \/ t <= calls
  PROVE  CallInv'
<1>1. ASSUME NEW c \in Callers
      PROVE  /\ call'[c] = 0 <=> at'[c].phase = "idle"
             /\ call'[c] # 0 => /\ call'[c] <= calls'
                                /\ MethodOf(c)' \in Methods
                                /\ log'[call'[c]].result = "none"
             /\ \A d \in Callers : call'[c] # 0 /\ call'[d] = call'[c] => d = c
  <2>1. calls' = calls /\ call' = call
    BY DEF Kept
  <2>2. /\ call[c] = 0 <=> at[c].phase = "idle"
        /\ call[c] # 0 => /\ call[c] <= calls
                          /\ MethodOf(c) \in Methods
                          /\ log[call[c]].result = "none"
        /\ \A d \in Callers : call[c] # 0 /\ call[d] = call[c] => d = c
    BY DEF CallInv
  <2>3. call[c] # 0 => MethodOf(c)' = MethodOf(c) /\ log'[call[c]].result = log[call[c]].result
    BY KeptFacts
  <2>. QED
    BY <2>1, <2>2, <2>3
<1>2. ASSUME NEW k \in Ids, k > calls'
      PROVE  status'[k] = "unused" /\ log'[k].result = "none"
  <2>1. calls' = calls /\ calls \in Nat /\ k \in Nat
    BY Flat DEF Kept, Ids
  <2>2. k > calls /\ ~(k <= calls)
    BY <1>2, <2>1
  <2>3. status[k] = "unused" /\ log[k].result = "none"
    BY <2>2 DEF CallInv
  <2>. QED
    BY <2>2, <2>3 DEF Kept
<1>. QED
  BY <1>1, <1>2 DEF CallInv

(* As a method goes on, less of it is left to begin a transaction in.      *)
LEMMA BeginKept ==
  ASSUME TypeOK, CallInv, BeginInv, Kept, TypeOK',
         \A c \in Callers : at'[c].phase = "body" =>
           \/ at[c].phase = "body" /\ at'[c].op \in {at[c].op, at[c].op + 1}
           \/ at'[c].op = MaxBody + 1,
         \A c \in Callers : at'[c].phase = "idle" <=> at[c].phase = "idle",
         \A c \in Callers : call[c] # 0 /\ status[call[c]] = "unused" =>
           status'[call[c]] = "unused" \/ ~BeginsFrom(MethodOf(c), at'[c].op)
  PROVE  BeginInv'
<1>. SUFFICES ASSUME NEW c \in Callers, at'[c].phase = "body",
                     BeginsFrom(MethodOf(c), at[c].op)'
              PROVE  status'[call'[c]] = "unused"
  BY DEF BeginInv
<1>1. call[c] # 0 /\ MethodOf(c) \in Methods
  BY DEF CallInv
<1>2. call'[c] = call[c] /\ MethodOf(c)' = MethodOf(c)
  BY <1>1, KeptFacts
<1>3. BeginsFrom(MethodOf(c), at'[c].op)
  <2>1. BeginsFrom(MethodOf(c)', at'[c].op)
    BY DEF BeginsFrom, Body
  <2>. QED
    BY <1>2, <2>1
<1>4. at[c].op \in 1..(MaxBody + 1)
  BY Flat
<1>5. at'[c].op # MaxBody + 1
  BY <1>1, <1>3, <1>4, BeginsFacts
<1>6. at[c].phase = "body" /\ BeginsFrom(MethodOf(c), at[c].op)
  BY <1>1, <1>3, <1>4, <1>5, BeginsFacts
<1>7. status[call[c]] = "unused"
  BY <1>6 DEF BeginInv
<1>. QED
  BY <1>1, <1>2, <1>3, <1>7

(* Threads that keep their transactions, or lose them.                     *)
LEMMA ThreadKept ==
  ASSUME TypeOK, ThreadInv, CallInv, Kept,
         \A c \in Callers : tx'[c] \in {tx[c], 0},
         \A c \in Callers : tx'[c] # 0 => Open(tx[c])'
  PROVE  ThreadInv'
<1>. SUFFICES ASSUME NEW c \in Callers
              PROVE  /\ call'[c] = 0 => tx'[c] = 0
                     /\ tx'[c] # 0 =>
                          /\ Open(tx[c])' /\ tx'[c] # held'
                          /\ tx'[c] = call'[c] \/ (InStateful(c)' /\ FromStateful(tx[c])')
                          /\ \A d \in Callers : tx'[d] = tx'[c] => d = c
  BY DEF ThreadInv
<1>1. /\ call[c] = 0 => tx[c] = 0
      /\ tx[c] # 0 => /\ tx[c] # held
                      /\ tx[c] = call[c] \/ (InStateful(c) /\ FromStateful(tx[c]))
                      /\ \A d \in Callers : tx[d] = tx[c] => d = c
  BY DEF ThreadInv
<1>2. call'[c] = call[c] /\ held' = held
  BY DEF Kept
<1>3. tx[c] # 0 => tx[c] \in Ids
  BY Flat
<1>4. InStateful(c) => InStateful(c)'
  BY KeptFacts
<1>5. ASSUME tx'[c] # 0
      PROVE  FromStateful(tx[c]) => FromStateful(tx[c])'
  <2>1. tx'[c] = tx[c] /\ tx[c] \in Ids
    BY <1>3, <1>5
  <2>. QED
    BY <2>1 DEF Kept, FromStateful
<1>6. ASSUME tx'[c] # 0, NEW d \in Callers, tx'[d] = tx'[c]
      PROVE  d = c
  BY <1>1, <1>6
<1>. QED
  BY <1>1, <1>2, <1>4, <1>5, <1>6

(* What the stateful bean keeps, unless it is ended by a commit.           *)
LEMMA HeldKept ==
  ASSUME TypeOK, HeldInv, CallInv, Kept, held # 0 => Open(held)'
  PROVE  HeldInv'
<1>1. held' = held /\ \A c \in Callers : InStateful(c)' <=> InStateful(c)
  BY KeptFacts DEF Kept
<1>2. held # 0 => FromStateful(held)'
  <2>1. held # 0 => held \in Ids /\ FromStateful(held)
    BY Flat DEF HeldInv
  <2>. QED
    BY <1>1, <2>1 DEF Kept, FromStateful
<1>3. held' # 0 => Open(held)'
  BY <1>1
<1>4. \A c \in Callers : InStateful(c) => /\ held = 0
                                         /\ \A d \in Callers : InStateful(d) => d = c
  BY DEF HeldInv
<1>. QED
  BY <1>1, <1>2, <1>3, <1>4 DEF HeldInv

(* A transaction that is live on no thread was so before the step.         *)
LEMMA LostKept ==
  ASSUME TypeOK, LostInv, Kept,
         \A t \in Ids : Live(t)' /\ (\A c \in Callers : tx'[c] # t) =>
           Live(t) /\ \A c \in Callers : tx[c] # t
  PROVE  LostInv'
  BY DEF LostInv, Kept

(* Steps within the calls.                                                 *)
LEMMA KeptInductive ==
  ASSUME TypeOK, CallInv, OwnerInv, TypeOK',
         \/ Rest
         \/ \E c \in Callers : Quiet(c) \/ Begun(c) \/ Dropped(c)
         \/ \E t \in Ids : TimedOut(t)
  PROVE  CallInv' /\ OwnerInv'
<1>a. /\ ThreadInv /\ HeldInv /\ LostInv /\ BeginInv
      /\ \A c \in Callers : tx[c] # 0 => Open(tx[c])
      /\ held # 0 => Open(held)
  BY DEF OwnerInv, ThreadInv, HeldInv
<1>b. /\ calls \in Nat /\ 0 \notin Ids /\ \A t \in Ids : t \in Nat
      /\ \A c \in Callers : call[c] = 0 \/ call[c] \in Ids
      /\ \A c \in Callers : tx[c] = 0 \/ tx[c] \in Ids
      /\ held = 0 \/ held \in Ids
      /\ \A c \in Callers : at[c].op \in 1..(MaxBody + 1)
      /\ tx \in [Callers -> 0..MaxCalls] /\ status \in [Ids -> Statuses]
  BY Flat DEF Ids
<1>c. \A t \in Ids : status[t] # "unused" => t <= calls
  BY <1>b DEF CallInv
<1>d. \A c \in Callers : call[c] # 0 => call[c] <= calls
  BY DEF CallInv
<1>1. ASSUME Rest PROVE CallInv' /\ OwnerInv'
  <2>1. Kept /\ at' = at /\ tx' = tx /\ status' = status
    BY <1>1 DEF Rest
  <2>2. CallInv'
    BY <2>1, CallsKept
  <2>3. ThreadInv'
    BY <1>a, <2>1, ThreadKept DEF Open
  <2>4. HeldInv'
    BY <1>a, <2>1, HeldKept DEF Kept, Open
  <2>5. LostInv'
    BY <1>a, <2>1, LostKept DEF Live
  <2>6. BeginInv'
    BY <1>a, <2>1, BeginKept
  <2>. QED
    BY <2>2, <2>3, <2>4, <2>5, <2>6 DEF OwnerInv
<1>2. ASSUME NEW c \in Callers, Quiet(c) PROVE CallInv' /\ OwnerInv'
  <2>1. /\ Kept /\ tx' = tx
        /\ \A t \in Ids : \/ status'[t] = status[t]
                          \/ status[t] = "active" /\ status'[t] = "marked"
    BY <1>2 DEF Quiet
  <2>2. /\ \A d \in Callers : at'[d].phase = "idle" <=> at[d].phase = "idle"
        /\ \A d \in Callers : at'[d].phase = "body" =>
             \/ at[d].phase = "body" /\ at'[d].op \in {at[d].op, at[d].op + 1}
             \/ at'[d].op = MaxBody + 1
    BY <1>2 DEF Quiet, Moves
  <2>3. CallInv'
    BY <1>c, <2>1, <2>2, CallsKept
  <2>4. ThreadInv'
    <3>1. \A d \in Callers : tx'[d] # 0 => Open(tx[d])'
      BY <1>a, <1>b, <2>1 DEF Open
    <3>. QED
      BY <1>a, <2>1, <3>1, ThreadKept
  <2>5. HeldInv'
    <3>1. held # 0 => Open(held)'
      BY <1>a, <1>b, <2>1 DEF Kept, Open
    <3>. QED
      BY <1>a, <2>1, <3>1, HeldKept
  <2>6. LostInv'
    BY <1>a, <2>1, LostKept DEF Live
  <2>7. BeginInv'
    <3>1. \A d \in Callers : call[d] # 0 /\ status[call[d]] = "unused" =>
            status'[call[d]] = "unused"
      BY <1>b, <2>1
    <3>. QED
      BY <1>a, <2>1, <2>2, <3>1, BeginKept
  <2>. QED
    BY <2>3, <2>4, <2>5, <2>6, <2>7 DEF OwnerInv
<1>3. ASSUME NEW c \in Callers, Dropped(c) PROVE CallInv' /\ OwnerInv'
  <2>1. /\ Kept /\ tx' = [tx EXCEPT ![c] = 0]
        /\ \A t \in Ids : /\ t # tx[c] => status'[t] = status[t]
                          /\ t = tx[c] => status'[t] \in {"aborted", "committed"}
    BY <1>3 DEF Dropped
  <2>2. /\ \A d \in Callers : at'[d].phase = "idle" <=> at[d].phase = "idle"
        /\ \A d \in Callers : at'[d].phase = "body" =>
             \/ at[d].phase = "body" /\ at'[d].op \in {at[d].op, at[d].op + 1}
             \/ at'[d].op = MaxBody + 1
    BY <1>3 DEF Dropped, Moves
  <2>a. tx[c] \in Ids => status[tx[c]] # "unused"
    BY <1>a, <1>b DEF Open
  <2>3. CallInv'
    <3>1. \A t \in Ids : status'[t] = status[t] \/ t <= calls
      BY <1>c, <2>1, <2>a
    <3>. QED
      BY <2>1, <2>2, <3>1, CallsKept
  <2>4. ThreadInv'
    <3>1. ASSUME NEW d \in Callers, tx'[d] # 0 PROVE Open(tx[d])'
      <4>1. d # c /\ tx'[d] = tx[d] /\ tx[d] \in Ids /\ tx[d] # 0
        BY <1>b, <2>1, <3>1
      <4>2. tx[d] # tx[c]
        BY <1>a, <4>1 DEF ThreadInv
      <4>3. status'[tx'[d]] = status[tx[d]]
        BY <2>1, <4>1, <4>2
      <4>. QED
        BY <1>a, <4>1, <4>3 DEF Open
    <3>2. \A d \in Callers : tx'[d] \in {tx[d], 0}
      BY <1>b, <2>1
    <3>. QED
      BY <1>a, <2>1, <3>1, <3>2, ThreadKept
  <2>5. HeldInv'
    <3>1. held # 0 => held # tx[c] /\ held \in Ids
      BY <1>a, <1>b DEF ThreadInv
    <3>2. held # 0 => Open(held)'
      BY <1>a, <2>1, <3>1 DEF Kept, Open
    <3>. QED
      BY <1>a, <2>1, <3>2, HeldKept
  <2>6. LostInv'
    <3>1. ASSUME NEW t \in Ids, Live(t)', \A d \in Callers : tx'[d] # t
          PROVE  Live(t) /\ \A d \in Callers : tx[d] # t
      <4>1. t # tx[c] /\ status'[t] = status[t]
        BY <2>1, <3>1 DEF Live
      <4>2. \A d \in Callers : tx[d] = t => tx'[d] = t
        BY <1>b, <2>1, <4>1
      <4>. QED
        BY <3>1, <4>1, <4>2 DEF Live
    <3>. QED
      BY <1>a, <2>1, <3>1, LostKept
  <2>7. BeginInv'
    <3>1. \A d \in Callers : call[d] # 0 /\ status[call[d]] = "unused" =>
            status'[call[d]] = "unused"
      BY <1>b, <2>1, <2>a
    <3>. QED
      BY <1>a, <2>1, <2>2, <3>1, BeginKept
  <2>. QED
    BY <2>3, <2>4, <2>5, <2>6, <2>7 DEF OwnerInv
<1>4. ASSUME NEW t \in Ids, TimedOut(t) PROVE CallInv' /\ OwnerInv'
  <2>1. /\ Kept /\ at' = at /\ tx' = tx /\ status[t] \in {"active", "marked"}
        /\ \A u \in Ids : status'[u] = status[u] \/ (u = t /\ status'[u] = "aborted")
    BY <1>4, <1>b DEF TimedOut
  <2>2. CallInv'
    BY <1>c, <2>1, CallsKept
  <2>3. ThreadInv'
    <3>1. \A d \in Callers : tx'[d] # 0 => Open(tx[d])'
      BY <1>a, <1>b, <2>1 DEF Open
    <3>. QED
      BY <1>a, <2>1, <3>1, ThreadKept
  <2>4. HeldInv'
    <3>1. held # 0 => Open(held)'
      BY <1>a, <1>b, <2>1 DEF Kept, Open
    <3>. QED
      BY <1>a, <2>1, <3>1, HeldKept
  <2>5. LostInv'
    BY <1>a, <2>1, LostKept DEF Live
  <2>6. BeginInv'
    <3>1. \A d \in Callers : call[d] # 0 /\ status[call[d]] = "unused" =>
            status'[call[d]] = "unused"
      BY <1>b, <2>1
    <3>. QED
      BY <1>a, <2>1, <3>1, BeginKept
  <2>. QED
    BY <2>2, <2>3, <2>4, <2>5, <2>6 DEF OwnerInv
<1>5. ASSUME NEW c \in Callers, Begun(c) PROVE CallInv' /\ OwnerInv'
  <2>1. /\ Kept /\ Moves(c) /\ tx[c] = 0 /\ tx' = [tx EXCEPT ![c] = call[c]]
        /\ status' = [status EXCEPT ![call[c]] = "active"]
        /\ at[c].phase = "body" /\ at'[c].phase = "body"
        /\ at[c].op \in 1..Len(Body(MethodOf(c))) /\ Body(MethodOf(c))[at[c].op] = Begin
    BY <1>5 DEF Begun
  <2>2. /\ \A d \in Callers : at'[d].phase = "idle" <=> at[d].phase = "idle"
        /\ \A d \in Callers : at'[d].phase = "body" =>
             \/ at[d].phase = "body" /\ at'[d].op \in {at[d].op, at[d].op + 1}
             \/ at'[d].op = MaxBody + 1
    BY <2>1 DEF Moves
  <2>3. call[c] # 0 /\ MethodOf(c) \in Methods /\ call[c] \in Ids /\ call[c] <= calls
    BY <1>b, <2>1 DEF CallInv
  (* The transaction of the call is new.                                   *)
  <2>4. /\ BeginsFrom(MethodOf(c), at[c].op) /\ ~BeginsFrom(MethodOf(c), at'[c].op)
        /\ status[call[c]] = "unused"
    <3>1. at[c].op \in 1..(MaxBody + 1)
      BY <1>b
    <3>2. at'[c].op = at[c].op + 1 \/ at'[c].op = MaxBody + 1
      BY <2>1 DEF Moves
    <3>3. /\ BeginsFrom(MethodOf(c), at[c].op)
          /\ ~BeginsFrom(MethodOf(c), at[c].op + 1)
          /\ ~BeginsFrom(MethodOf(c), MaxBody + 1)
      BY <2>1, <2>3, <3>1, BeginsFacts
    <3>4. status[call[c]] = "unused"
      BY <1>a, <2>1, <3>3 DEF BeginInv
    <3>. QED
      BY <3>2, <3>3, <3>4
  <2>5. /\ \A d \in Callers : tx[d] # call[c]
        /\ held # call[c]
    BY <1>a, <2>3, <2>4 DEF Open
  <2>6. /\ tx'[c] = call[c] /\ \A d \in Callers \ {c} : tx'[d] = tx[d]
        /\ status'[call[c]] = "active"
        /\ \A t \in Ids \ {call[c]} : status'[t] = status[t]
    BY <1>b, <2>1, <2>3
  <2>7. CallInv'
    <3>1. \A t \in Ids : status'[t] = status[t] \/ t <= calls
      BY <2>3, <2>6
    <3>. QED
      BY <2>1, <2>2, <3>1, CallsKept
  <2>8. ThreadInv'
    <3>1. ASSUME NEW d \in Callers
          PROVE  /\ call'[d] = 0 => tx'[d] = 0
                 /\ tx'[d] # 0 =>
                      /\ Open(tx[d])' /\ tx'[d] # held'
                      /\ tx'[d] = call'[d] \/ (InStateful(d)' /\ FromStateful(tx[d])')
                      /\ \A e \in Callers : tx'[e] = tx'[d] => e = d
      <4>1. call' = call /\ held' = held
        BY <2>1 DEF Kept
      <4>2. CASE d = c
        BY <2>3, <2>5, <2>6, <4>1, <4>2 DEF Open
      <4>3. CASE d # c
        <5>1. /\ call[d] = 0 => tx[d] = 0
              /\ tx[d] # 0 => /\ Open(tx[d]) /\ tx[d] # held
                              /\ tx[d] = call[d] \/ (InStateful(d) /\ FromStateful(tx[d]))
                              /\ \A e \in Callers : tx[e] = tx[d] => e = d
          BY <1>a DEF ThreadInv
        <5>2. tx'[d] = tx[d] /\ tx[d] # call[c]
          BY <2>5, <2>6, <4>3
        <5>3. \A e \in Callers : tx'[e] = tx'[d] => tx[e] = tx[d]
          BY <2>6, <5>2
        <5>4. ASSUME tx[d] # 0
              PROVE  Open(tx[d])' /\ (FromStateful(tx[d]) => FromStateful(tx[d])')
          <6>1. tx[d] \in Ids
            BY <1>b, <5>4
          <6>2. status'[tx'[d]] = status[tx[d]] /\ log'[tx'[d]].m = log[tx[d]].m
                /\ log'[tx'[d]].result = log[tx[d]].result
            BY <2>1, <2>6, <5>2, <6>1 DEF Kept
          <6>. QED
            BY <5>1, <5>4, <6>2 DEF Open, FromStateful
        <5>5. InStateful(d) => InStateful(d)'
          BY <2>1, KeptFacts
        <5>. QED
          BY <4>1, <5>1, <5>2, <5>3, <5>4, <5>5
      <4>. QED
        BY <4>2, <4>3
    <3>. QED
      BY <3>1 DEF ThreadInv
  <2>9. HeldInv'
    <3>1. held # 0 => Open(held)'
      BY <1>a, <1>b, <2>1, <2>5, <2>6 DEF Kept, Open
    <3>. QED
      BY <1>a, <2>1, <3>1, HeldKept
  <2>10. LostInv'
    <3>1. ASSUME NEW t \in Ids, Live(t)', \A d \in Callers : tx'[d] # t
          PROVE  Live(t) /\ \A d \in Callers : tx[d] # t
      <4>1. t # call[c]
        BY <2>6, <3>1
      <4>2. status'[t] = status[t]
        BY <2>6, <4>1
      <4>3. \A d \in Callers : tx[d] = t => tx'[d] = t
        BY <1>b, <2>1, <2>6
      <4>. QED
        BY <3>1, <4>2, <4>3 DEF Live
    <3>. QED
      BY <1>a, <2>1, <3>1, LostKept
  <2>11. BeginInv'
    <3>1. \A d \in Callers : call[d] # 0 /\ status[call[d]] = "unused" =>
            status'[call[d]] = "unused" \/ ~BeginsFrom(MethodOf(d), at'[d].op)
      <4>1. \A d \in Callers : call[d] = call[c] => d = c
        BY <2>3 DEF CallInv
      <4>. QED
        BY <1>b, <2>4, <2>6, <4>1
    <3>. QED
      BY <1>a, <2>1, <2>2, <3>1, BeginKept
  <2>. QED
    BY <2>7, <2>8, <2>9, <2>10, <2>11 DEF OwnerInv
<1>. QED
  BY <1>1, <1>2, <1>3, <1>4, <1>5

(* The status a transaction is left with at the end of a call.             *)
LEMMA FinalFacts ==
  ASSUME NEW m, NEW phase, NEW s \in Statuses
  PROVE  /\ m[1] # "stateful" => FinalStatus(m, phase, s) \notin {"active", "marked"}
         /\ m[1] = "stateful" => FinalStatus(m, phase, s) \in {s, "aborted"}
         /\ s \notin {"active", "marked"} => FinalStatus(m, phase, s) = s
  BY DEF FinalStatus, Statuses

(* A call is made: its transaction is new, or the one the bean had kept.   *)
LEMMA InvokedInductive ==
  ASSUME TypeOK, CallInv, OwnerInv, TypeOK', NEW c \in Callers, NEW m \in Methods, Invoked(c, m)
  PROVE  CallInv' /\ OwnerInv'
<1>. DEFINE k == calls + 1
            begun == m[1] \in {"ejb", "cdi"}
            t == IF begun THEN k ELSE IF m[1] = "stateful" THEN held ELSE 0
<1>a. /\ ThreadInv /\ HeldInv /\ LostInv /\ BeginInv
      /\ \A d \in Callers : tx[d] # 0 => Open(tx[d])
      /\ held # 0 => Open(held) /\ FromStateful(held)
  BY DEF OwnerInv, ThreadInv, HeldInv
<1>b. /\ calls \in Nat /\ k \in Ids /\ 0 \notin Ids /\ \A u \in Ids : u \in Nat
      /\ \A d \in Callers : call[d] = 0 \/ call[d] \in Ids
      /\ \A d \in Callers : tx[d] = 0 \/ tx[d] \in Ids
      /\ held = 0 \/ held \in Ids
      /\ call \in [Callers -> 0..MaxCalls]
      /\ tx \in [Callers -> 0..MaxCalls] /\ status \in [Ids -> Statuses]
  BY Flat, BeansAssumption DEF Ids, Invoked
<1>1. /\ calls' = k /\ call'[c] = k /\ \A d \in Callers \ {c} : call'[d] = call[d]
      /\ tx'[c] = t /\ \A d \in Callers \ {c} : tx'[d] = tx[d]
      /\ log'[k].m = m /\ \A u \in Ids : log'[u].result = log[u].result
      /\ \A u \in Ids \ {k} : log'[u].m = log[u].m
      /\ \A u \in Ids \ {k} : status'[u] = status[u]
      /\ begun => status'[k] = "active"
      /\ ~begun => status'[k] = status[k]
      /\ held' = IF m[1] = "stateful" THEN 0 ELSE held
      /\ removed' = removed
  BY <1>b DEF Invoked
<1>2. /\ at[c].phase = "idle" /\ at'[c].phase = "body" /\ at'[c].op = 1
      /\ \A d \in Callers \ {c} : at'[d] = at[d]
      /\ m[1] = "stateful" => \A d \in Callers : ~InStateful(d)
  BY DEF Invoked, InStateful
<1>. HIDE DEF t
<1>3. /\ call[c] = 0 /\ tx[c] = 0
      /\ status[k] = "unused" /\ log[k].result = "none"
  <2>1. call[c] = 0
    BY <1>2 DEF CallInv
  <2>2. tx[c] = 0
    BY <1>a, <2>1 DEF ThreadInv
  <2>3. k > calls
    BY <1>b
  <2>. QED
    BY <1>b, <2>1, <2>2, <2>3 DEF CallInv
<1>4. /\ \A d \in Callers : call[d] # k /\ tx[d] # k
      /\ held # k
  <2>1. \A d \in Callers : call[d] # 0 => call[d] <= calls
    BY DEF CallInv
  <2>2. \A d \in Callers : call[d] # k
    BY <1>b, <2>1 DEF Ids
  <2>. QED
    BY <1>a, <1>b, <1>3, <2>2 DEF Open
<1>5. \A d \in Callers \ {c} : /\ call[d] # 0 => MethodOf(d)' = MethodOf(d)
                               /\ InStateful(d)' <=> InStateful(d)
  BY <1>b, <1>1, <1>4 DEF MethodOf, InStateful
<1>6. MethodOf(c)' = m
  BY <1>1 DEF MethodOf
<1>7. \A u \in Ids : FromStateful(u) => FromStateful(u)'
  BY <1>1, <1>3 DEF FromStateful
<1>8. CallInv'
  <2>1. ASSUME NEW d \in Callers
        PROVE  /\ call'[d] = 0 <=> at'[d].phase = "idle"
               /\ call'[d] # 0 => /\ call'[d] <= calls'
                                  /\ MethodOf(d)' \in Methods
                                  /\ log'[call'[d]].result = "none"
               /\ \A e \in Callers : call'[d] # 0 /\ call'[e] = call'[d] => e = d
    <3>1. CASE d = c
      <4>1. k # 0 /\ k <= k
        BY <1>b
      <4>. QED
        BY <1>b, <1>1, <1>2, <1>3, <1>4, <1>6, <3>1, <4>1
    <3>2. CASE d # c
      <4>1. /\ call[d] = 0 <=> at[d].phase = "idle"
            /\ call[d] # 0 => /\ call[d] <= calls
                              /\ MethodOf(d) \in Methods
                              /\ log[call[d]].result = "none"
            /\ \A e \in Callers : call[d] # 0 /\ call[e] = call[d] => e = d
        BY DEF CallInv
      <4>2. call'[d] = call[d] /\ at'[d] = at[d] /\ (call[d] # 0 => MethodOf(d)' = MethodOf(d))
        BY <1>1, <1>2, <1>5, <3>2
      <4>3. call[d] <= calls => call[d] <= calls'
        BY <1>b, <1>1 DEF Ids
      <4>4. call[d] # 0 => log'[call[d]].result = log[call[d]].result
        BY <1>b, <1>1
      <4>5. \A e \in Callers : call[d] # 0 /\ call'[e] = call[d] => call[e] = call[d]
        BY <1>1, <1>4
      <4>. QED
        BY <4>1, <4>2, <4>3, <4>4, <4>5
    <3>. QED
      BY <3>1, <3>2
  <2>2. ASSUME NEW u \in Ids, u > calls'
        PROVE  status'[u] = "unused" /\ log'[u].result = "none"
    <3>1. u > calls /\ u # k
      BY <1>b, <1>1, <2>2
    <3>2. status[u] = "unused" /\ log[u].result = "none"
      BY <3>1 DEF CallInv
    <3>. QED
      BY <1>1, <3>1, <3>2
  <2>. QED
    BY <2>1, <2>2 DEF CallInv
<1>9. ThreadInv'
  <2>1. ASSUME NEW d \in Callers
        PROVE  /\ call'[d] = 0 => tx'[d] = 0
               /\ tx'[d] # 0 =>
                    /\ Open(tx[d])' /\ tx'[d] # held'
                    /\ tx'[d] = call'[d] \/ (InStateful(d)' /\ FromStateful(tx[d])')
                    /\ \A e \in Callers : tx'[e] = tx'[d] => e = d
    <3>1. CASE d = c /\ begun
      <4>1. tx'[c] = k /\ held' # k
        BY <1>b, <1>1, <1>4, <3>1 DEF t
      <4>2. Open(tx[c])'
        BY <1>1, <3>1, <4>1 DEF Open
      <4>3. \A e \in Callers : tx'[e] = tx'[c] => e = c
        BY <1>1, <1>4, <4>1
      <4>. QED
        BY <1>1, <1>b, <3>1, <4>1, <4>2, <4>3
    <3>2. CASE d = c /\ m[1] = "stateful"
      <4>1. tx'[c] = held /\ held' = 0
        BY <1>1, <3>2 DEF t
      <4>2. ASSUME held # 0
            PROVE  /\ Open(tx[c])' /\ FromStateful(tx[c])'
                   /\ \A e \in Callers : tx'[e] = tx'[c] => e = c
        <5>1. held \in Ids \ {k} /\ status'[held] = status[held]
              /\ log'[held].m = log[held].m /\ log'[held].result = log[held].result
          BY <1>b, <1>1, <1>4, <4>2
        <5>2. Open(tx[c])' /\ FromStateful(tx[c])'
          BY <1>a, <4>1, <4>2, <5>1 DEF Open, FromStateful
        <5>3. \A e \in Callers : tx[e] # held
          BY <1>a, <4>2 DEF ThreadInv
        <5>. QED
          BY <1>1, <4>1, <5>2, <5>3
      <4>3. InStateful(c)' /\ call'[c] # 0
        BY <1>b, <1>1, <1>6, <3>2 DEF InStateful
      <4>. QED
        BY <3>2, <4>1, <4>2, <4>3
    <3>3. CASE d = c /\ ~begun /\ m[1] # "stateful"
      BY <1>1, <1>b, <3>3 DEF t
    <3>4. CASE d # c
      <4>1. /\ call[d] = 0 => tx[d] = 0
            /\ tx[d] # 0 => /\ Open(tx[d]) /\ tx[d] # held
                            /\ tx[d] = call[d] \/ (InStateful(d) /\ FromStateful(tx[d]))
                            /\ \A e \in Callers : tx[e] = tx[d] => e = d
        BY <1>a DEF ThreadInv
      <4>2. tx'[d] = tx[d] /\ call'[d] = call[d] /\ (InStateful(d)' <=> InStateful(d))
        BY <1>1, <1>5, <3>4
      <4>3. ASSUME tx[d] # 0
            PROVE  /\ Open(tx[d])' /\ tx[d] # held'
                   /\ FromStateful(tx[d]) => FromStateful(tx[d])'
                   /\ tx'[c] # tx[d]
        <5>1. tx[d] \in Ids \ {k} /\ status'[tx'[d]] = status[tx[d]]
              /\ log'[tx'[d]].m = log[tx[d]].m /\ log'[tx'[d]].result = log[tx[d]].result
          BY <1>b, <1>1, <1>4, <4>2, <4>3
        <5>. QED
          BY <1>b, <1>1, <4>1, <4>3, <5>1 DEF Open, FromStateful, t
      <4>4. \A e \in Callers : tx[d] # 0 /\ tx'[e] = tx[d] => tx[e] = tx[d]
        BY <1>1, <4>3
      <4>. QED
        BY <4>1, <4>2, <4>3, <4>4
    <3>. QED
      BY <3>1, <3>2, <3>3, <3>4
  <2>. QED
    BY <2>1 DEF ThreadInv
<1>10. HeldInv'
  <2>1. held' # 0 => Open(held)' /\ FromStateful(held)'
    <3>1. ASSUME held' # 0
          PROVE  held' = held /\ held # 0 /\ held \in Ids \ {k}
      BY <1>b, <1>1, <1>4, <3>1
    <3>2. held' # 0 => /\ status'[held'] = status[held]
                       /\ log'[held'].m = log[held].m /\ log'[held'].result = log[held].result
      BY <1>1, <3>1
    <3>. QED
      BY <1>a, <3>1, <3>2 DEF Open, FromStateful
  <2>2. ASSUME NEW d \in Callers, InStateful(d)'
        PROVE  held' = 0 /\ \A e \in Callers : InStateful(e)' => e = d
    <3>1. CASE m[1] = "stateful"
      BY <1>1, <1>2, <1>5, <2>2, <3>1
    <3>2. CASE m[1] # "stateful"
      <4>1. ~InStateful(c)'
        BY <1>6, <3>2 DEF InStateful
      <4>2. /\ InStateful(d) /\ held' = held
            /\ \A e \in Callers : InStateful(e)' => InStateful(e)
        BY <1>1, <1>5, <2>2, <3>2, <4>1
      <4>. QED
        BY <1>a, <4>2 DEF HeldInv
    <3>. QED
      BY <3>1, <3>2
  <2>. QED
    BY <2>1, <2>2 DEF HeldInv
<1>11. LostInv'
  <2>1. ASSUME NEW u \in Ids, Live(u)', \A d \in Callers : tx'[d] # u
        PROVE  held' = u \/ (removed' /\ log'[u].m[1] = "stateful")
    <3>1. u # k
      BY <1>1, <1>3, <2>1 DEF Live, t
    <3>2. Live(u) /\ log'[u].m = log[u].m
      BY <1>1, <2>1, <3>1 DEF Live
    <3>3. \A d \in Callers : tx[d] # u
      BY <1>b, <1>1, <1>3, <2>1
    <3>4. held = u \/ (removed /\ log[u].m[1] = "stateful")
      BY <1>a, <3>2, <3>3 DEF LostInv
    <3>5. held = u => held' = u
      BY <1>1, <2>1 DEF t
    <3>. QED
      BY <1>1, <3>2, <3>4, <3>5
  <2>. QED
    BY <2>1 DEF LostInv
<1>12. BeginInv'
  <2>1. ASSUME NEW d \in Callers, at'[d].phase = "body", BeginsFrom(MethodOf(d), at[d].op)'
        PROVE  status'[call'[d]] = "unused"
    <3>1. BeginsFrom(MethodOf(d)', at'[d].op)
      BY <2>1 DEF BeginsFrom, Body
    <3>2. CASE d = c
      <4>1. BeginsFrom(m, 1) /\ 1 \in 1..(MaxBody + 1)
        BY <1>2, <1>6, <3>1, <3>2 DEF MaxBody
      <4>2. ~begun
        BY <4>1, BeginsFacts
      <4>. QED
        BY <1>1, <1>3, <3>2, <4>2
    <3>3. CASE d # c
      <4>1. at[d].phase = "body" /\ at'[d] = at[d]
        BY <1>2, <2>1, <3>3
      <4>2. call[d] # 0
        BY <4>1 DEF CallInv
      <4>3. status[call[d]] = "unused"
        BY <1>a, <1>5, <3>1, <3>3, <4>1, <4>2 DEF BeginInv
      <4>. QED
        BY <1>b, <1>1, <1>4, <3>3, <4>2, <4>3
    <3>. QED
      BY <3>2, <3>3
  <2>. QED
    BY <2>1 DEF BeginInv
<1>. QED
  BY <1>8, <1>9, <1>10, <1>11, <1>12 DEF OwnerInv

(* A call ends: its transaction with it, unless the stateful bean keeps it *)
(* or is removed with it.                                                  *)
LEMMA CompletedInductive ==
  ASSUME TypeOK, CallInv, OwnerInv, TypeOK', NEW c \in Callers, Completed(c)
  PROVE  CallInv' /\ OwnerInv'
<1>a. /\ ThreadInv /\ HeldInv /\ LostInv /\ BeginInv
      /\ \A d \in Callers : tx[d] # 0 => Open(tx[d])
      /\ held # 0 => Open(held) /\ FromStateful(held)
  BY DEF OwnerInv, ThreadInv, HeldInv
<1>b. /\ calls \in Nat /\ 0 \notin Ids /\ \A u \in Ids : u \in Nat
      /\ \A d \in Callers : call[d] = 0 \/ call[d] \in Ids
      /\ \A d \in Callers : tx[d] = 0 \/ tx[d] \in Ids
      /\ held = 0 \/ held \in Ids
      /\ call \in [Callers -> 0..MaxCalls]
      /\ tx \in [Callers -> 0..MaxCalls] /\ status \in [Ids -> Statuses]
  BY Flat DEF Ids
<1>1. /\ calls' = calls /\ call'[c] = 0 /\ \A d \in Callers \ {c} : call'[d] = call[d]
      /\ tx'[c] = 0 /\ \A d \in Callers \ {c} : tx'[d] = tx[d]
      /\ \A u \in Ids : log'[u].m = log[u].m
      /\ \A u \in Ids \ {call[c]} : log'[u].result = log[u].result
      /\ log'[call[c]].result # "none"
      /\ \A u \in Ids : u # tx[c] => status'[u] = status[u]
  BY <1>b DEF Completed
<1>2. /\ at[c].phase # "idle" /\ at'[c].phase = "idle"
      /\ \A d \in Callers \ {c} : at'[d] = at[d]
      /\ \/ MethodOf(c)[1] # "stateful" /\ held' = held /\ removed' = removed
         \/ MethodOf(c)[1] = "stateful" /\ held' = tx[c] /\ removed' = removed
         \/ MethodOf(c)[1] = "stateful" /\ held' = held /\ removed'
  BY DEF Completed
<1>3. /\ call[c] \in Ids /\ call[c] <= calls
      /\ \A d \in Callers \ {c} : call[d] # call[c]
  BY <1>b, <1>2 DEF CallInv
<1>4. /\ InStateful(c) <=> MethodOf(c)[1] = "stateful"
      /\ ~InStateful(c)'
      /\ \A d \in Callers \ {c} : /\ call[d] # 0 => MethodOf(d)' = MethodOf(d)
                                  /\ InStateful(d)' <=> InStateful(d)
  BY <1>b, <1>1, <1>3 DEF InStateful, MethodOf
<1>5. \A u \in Ids : FromStateful(u) => FromStateful(u)'
  BY <1>1 DEF FromStateful
(* Its transaction ends, or was and stays open in the stateful bean.       *)
<1>6. ASSUME tx[c] # 0
      PROVE  /\ tx[c] \in Ids /\ Open(tx[c]) /\ status[tx[c]] # "unused"
             /\ ~InStateful(c) => status'[tx[c]] \notin {"active", "marked"}
             /\ InStateful(c) => status'[tx[c]] \in {"active", "marked", "aborted"}
             /\ InStateful(c) => log'[tx[c]].m[1] = "stateful" /\ log'[tx[c]].result # "none"
  <2>1. tx[c] \in Ids /\ Open(tx[c]) /\ status[tx[c]] # "unused" /\ status[tx[c]] \in Statuses
    BY <1>a, <1>b, <1>6 DEF Open
  <2>2. status'[tx[c]] = FinalStatus(MethodOf(c), at[c].phase, status[tx[c]])
    BY <2>1 DEF Completed
  <2>3. /\ ~InStateful(c) => status'[tx[c]] \notin {"active", "marked"}
        /\ InStateful(c) => status'[tx[c]] \in {status[tx[c]], "aborted"}
    BY <1>4, <2>1, <2>2, FinalFacts
  <2>4. InStateful(c) => log'[tx[c]].m[1] = "stateful" /\ log'[tx[c]].result # "none"
    <3>1. tx[c] = call[c] \/ FromStateful(tx[c])
      BY <1>a, <1>6 DEF ThreadInv
    <3>2. CASE tx[c] = call[c]
      BY <1>1, <1>3, <3>2 DEF InStateful, MethodOf
    <3>3. CASE FromStateful(tx[c])
      BY <1>1, <2>1, <3>3 DEF FromStateful
    <3>. QED
      BY <3>1, <3>2, <3>3
  <2>. QED
    BY <2>1, <2>3, <2>4 DEF Open
<1>7. CallInv'
  <2>1. ASSUME NEW d \in Callers
        PROVE  /\ call'[d] = 0 <=> at'[d].phase = "idle"
               /\ call'[d] # 0 => /\ call'[d] <= calls'
                                  /\ MethodOf(d)' \in Methods
                                  /\ log'[call'[d]].result = "none"
               /\ \A e \in Callers : call'[d] # 0 /\ call'[e] = call'[d] => e = d
    <3>1. CASE d = c
      BY <1>1, <1>2, <3>1
    <3>2. CASE d # c
      <4>1. /\ call[d] = 0 <=> at[d].phase = "idle"
            /\ call[d] # 0 => /\ call[d] <= calls
                              /\ MethodOf(d) \in Methods
                              /\ log[call[d]].result = "none"
            /\ \A e \in Callers : call[d] # 0 /\ call[e] = call[d] => e = d
        BY DEF CallInv
      <4>2. call'[d] = call[d] /\ at'[d] = at[d] /\ (call[d] # 0 => MethodOf(d)' = MethodOf(d))
        BY <1>1, <1>2, <1>4, <3>2
      <4>3. call[d] # 0 => log'[call[d]].result = log[call[d]].result
        BY <1>b, <1>1, <1>3, <3>2
      <4>4. \A e \in Callers : call[d] # 0 /\ call'[e] = call[d] => call[e] = call[d]
        BY <1>1
      <4>. QED
        BY <1>1, <4>1, <4>2, <4>3, <4>4
    <3>. QED
      BY <3>1, <3>2
  <2>2. ASSUME NEW u \in Ids, u > calls'
        PROVE  status'[u] = "unused" /\ log'[u].result = "none"
    <3>1. status[u] = "unused" /\ log[u].result = "none"
      BY <1>1, <2>2 DEF CallInv
    <3>2. u # call[c]
      BY <1>1, <1>3, <1>b, <2>2
    <3>3. u # tx[c]
      BY <1>6, <1>b, <3>1
    <3>. QED
      BY <1>1, <3>1, <3>2, <3>3
  <2>. QED
    BY <2>1, <2>2 DEF CallInv
<1>8. ThreadInv'
  <2>1. ASSUME NEW d \in Callers
        PROVE  /\ call'[d] = 0 => tx'[d] = 0
               /\ tx'[d] # 0 =>
                    /\ Open(tx[d])' /\ tx'[d] # held'
                    /\ tx'[d] = call'[d] \/ (InStateful(d)' /\ FromStateful(tx[d])')
                    /\ \A e \in Callers : tx'[e] = tx'[d] => e = d
    <3>1. CASE d = c
      BY <1>1, <3>1
    <3>2. CASE d # c
      <4>1. /\ call[d] = 0 => tx[d] = 0
            /\ tx[d] # 0 => /\ Open(tx[d]) /\ tx[d] # held
                            /\ tx[d] = call[d] \/ (InStateful(d) /\ FromStateful(tx[d]))
                            /\ \A e \in Callers : tx[e] = tx[d] => e = d
        BY <1>a DEF ThreadInv
      <4>2. tx'[d] = tx[d] /\ call'[d] = call[d] /\ (InStateful(d)' <=> InStateful(d))
        BY <1>1, <1>4, <3>2
      <4>3. ASSUME tx[d] # 0
            PROVE  /\ Open(tx[d])' /\ tx[d] # held'
                   /\ FromStateful(tx[d]) => FromStateful(tx[d])'
        <5>1. tx[d] \in Ids /\ tx[d] # tx[c]
          BY <1>b, <3>2, <4>1, <4>3
        <5>2. status'[tx'[d]] = status[tx[d]]
          BY <1>1, <4>2, <5>1
        <5>3. Open(tx[d])'
          BY <4>1, <4>3, <5>2 DEF Open
        <5>4. FromStateful(tx[d]) => FromStateful(tx[d])'
          BY <1>1, <4>2, <5>1 DEF FromStateful
        <5>. QED
          BY <1>2, <4>1, <4>3, <5>1, <5>3, <5>4
      <4>4. \A e \in Callers : tx[d] # 0 /\ tx'[e] = tx[d] => tx[e] = tx[d]
        BY <1>1
      <4>. QED
        BY <4>1, <4>2, <4>3, <4>4
    <3>. QED
      BY <3>1, <3>2
  <2>. QED
    BY <2>1 DEF ThreadInv
<1>9. HeldInv'
  <2>1. CASE held' = held
    <3>1. ASSUME held # 0
          PROVE  Open(held)' /\ FromStateful(held)'
      <4>1. held \in Ids /\ held # tx[c]
        BY <1>a, <1>b, <3>1 DEF ThreadInv
      <4>2. status'[held'] = status[held] /\ log'[held'].m = log[held].m
        BY <1>1, <2>1, <4>1
      <4>3. log'[held'].result # "none"
        BY <1>1, <1>a, <2>1, <3>1, <4>1 DEF FromStateful
      <4>. QED
        BY <1>a, <3>1, <4>2, <4>3 DEF Open, FromStateful
    <3>2. \A d \in Callers : InStateful(d)' =>
            held = 0 /\ \A e \in Callers : InStateful(e)' => e = d
      BY <1>a, <1>4 DEF HeldInv
    <3>. QED
      BY <2>1, <3>1, <3>2 DEF HeldInv
  <2>2. CASE InStateful(c) /\ held' = tx[c]
    <3>1. ASSUME tx[c] # 0
          PROVE  Open(held)' /\ FromStateful(held)'
      BY <1>6, <2>2, <3>1 DEF Open, FromStateful
    <3>2. \A d \in Callers : ~InStateful(d)'
      BY <1>a, <1>4, <2>2 DEF HeldInv
    <3>. QED
      BY <2>2, <3>1, <3>2 DEF HeldInv
  <2>. QED
    BY <1>2, <1>4, <2>1, <2>2
<1>10. LostInv'
  <2>1. ASSUME NEW u \in Ids, Live(u)', \A d \in Callers : tx'[d] # u
        PROVE  held' = u \/ (removed' /\ log'[u].m[1] = "stateful")
    <3>1. CASE u = tx[c]
      <4>1. InStateful(c) /\ log'[u].m[1] = "stateful"
        BY <1>b, <1>6, <2>1, <3>1 DEF Live
      <4>. QED
        BY <1>2, <1>4, <3>1, <4>1
    <3>2. CASE u # tx[c]
      <4>1. Live(u)
        BY <1>1, <2>1, <3>2 DEF Live
      <4>2. \A d \in Callers : tx[d] # u
        BY <1>1, <2>1, <3>2
      <4>3. held = u \/ (removed /\ log[u].m[1] = "stateful")
        BY <1>a, <4>1, <4>2 DEF LostInv
      <4>4. held = u => ~InStateful(c)
        BY <1>a, <1>b DEF HeldInv
      <4>. QED
        BY <1>1, <1>2, <1>4, <4>3, <4>4
    <3>. QED
      BY <3>1, <3>2
  <2>. QED
    BY <2>1 DEF LostInv
<1>11. BeginInv'
  <2>1. ASSUME NEW d \in Callers, at'[d].phase = "body", BeginsFrom(MethodOf(d), at[d].op)'
        PROVE  status'[call'[d]] = "unused"
    <3>1. BeginsFrom(MethodOf(d)', at'[d].op)
      BY <2>1 DEF BeginsFrom, Body
    <3>2. d # c
      BY <1>2, <2>1
    <3>3. at[d].phase = "body" /\ at'[d] = at[d]
      BY <1>2, <2>1, <3>2
    <3>4. call[d] # 0
      BY <3>3 DEF CallInv
    <3>5. status[call[d]] = "unused"
      BY <1>a, <1>4, <3>1, <3>2, <3>3, <3>4 DEF BeginInv
    <3>6. call[d] # tx[c]
      BY <1>6, <1>b, <3>4, <3>5
    <3>. QED
      BY <1>b, <1>1, <3>2, <3>4, <3>5, <3>6
  <2>. QED
    BY <2>1 DEF BeginInv
<1>. QED
  BY <1>7, <1>8, <1>9, <1>10, <1>11 DEF OwnerInv

-----------------------------------------------------------------------------
(* The theorems                                                            *)

BeansInv == TypeOK /\ CallInv /\ OwnerInv

(* The invariant holds in the initial states.                              *)
LEMMA BeansInit == Init => BeansInv
<1>. SUFFICES ASSUME Init PROVE BeansInv
  OBVIOUS
<1>1. TypeOK
  <2>1. [phase |-> "idle", op |-> 1] \in [phase : Phases \union {"body"}, op : 1..(MaxBody + 1)]
    BY DEF Phases, MaxBody
  <2>2. [m |-> <<"none", "none">>, result |-> "none", entity |-> 0]
          \in [m : Methods \union {<<"none", "none">>},
               result : {"none", "returned", "threw"}, entity : 0..MaxCalls]
    BY BeansAssumption
  <2>3. Cleared \in [invoke : Seq(Statuses), exit : Seq(Statuses), id : 0..MaxCalls]
    BY BeansAssumption DEF Cleared
  <2>. QED
    BY <2>1, <2>2, <2>3, BeansAssumption DEF Init, TypeOK, Statuses
<1>2. /\ \A c \in Callers : call[c] = 0 /\ at[c].phase = "idle" /\ tx[c] = 0
      /\ \A k \in Ids : status[k] = "unused" /\ log[k].result = "none"
      /\ held = 0
  BY DEF Init
<1>3. CallInv
  BY <1>2 DEF CallInv
<1>4. ThreadInv /\ HeldInv
  BY <1>2 DEF ThreadInv, HeldInv, InStateful
<1>5. LostInv /\ BeginInv
  BY <1>2 DEF LostInv, BeginInv, Live
<1>. QED
  BY <1>1, <1>3, <1>4, <1>5 DEF BeansInv, OwnerInv

(* Every step keeps the invariant, kind by kind.                           *)
LEMMA BeansInductive == BeansInv /\ [Next]_vars => BeansInv' /\ StepKind
<1>. SUFFICES ASSUME TypeOK, CallInv, OwnerInv, [Next]_vars
              PROVE  TypeOK' /\ CallInv' /\ OwnerInv' /\ StepKind
  BY DEF BeansInv
<1>1. TypeOK' /\ StepKind
  BY StepTyped
<1>2. CASE \/ Rest
           \/ \E c \in Callers : Quiet(c) \/ Begun(c) \/ Dropped(c)
           \/ \E t \in Ids : TimedOut(t)
  BY <1>1, <1>2, KeptInductive
<1>3. ASSUME NEW c \in Callers, NEW m \in Methods, Invoked(c, m)
      PROVE  CallInv' /\ OwnerInv'
  BY <1>1, <1>3, InvokedInductive
<1>4. ASSUME NEW c \in Callers, Completed(c)
      PROVE  CallInv' /\ OwnerInv'
  BY <1>1, <1>4, CompletedInductive
<1>. QED
  BY <1>1, <1>2, <1>3, <1>4 DEF StepKind

(* In every run the variables keep their types, calls and transactions     *)
(* their owners.                                                           *)
THEOREM BeansInvariant == Spec => []BeansInv
<1>1. BeansInv /\ UNCHANGED vars => BeansInv'
  BY BeansInductive
<1>. QED
  BY BeansInit, BeansInductive, PTL DEF Spec

(* ManagedBeans' type invariant holds.                                     *)
THEOREM TypeCorrect == Spec => []TypeOK
<1>1. BeansInv => TypeOK
  BY DEF BeansInv
<1>. QED
  BY <1>1, BeansInvariant, PTL

(* A live transaction is on one thread or in the stateful bean, never on   *)
(* two threads and never in both; the only one nobody can end is the one a *)
(* removed stateful bean kept; threads out of a call carry none.           *)
THEOREM OneOwnerHolds == Spec => []OneOwner
<1>1. BeansInv => OneOwner
  <2>. SUFFICES ASSUME TypeOK, CallInv, ThreadInv, LostInv PROVE OneOwner
    BY DEF BeansInv, OwnerInv
  <2>1. ASSUME NEW c \in Callers, at[c].phase = "idle" PROVE tx[c] = 0
    BY <2>1 DEF CallInv, ThreadInv
  <2>2. ASSUME NEW t \in Ids, Live(t), {c \in Callers : tx[c] = t} = {}
        PROVE  held = t \/ (removed /\ log[t].m[1] = "stateful")
    BY <2>2 DEF LostInv
  <2>3. ASSUME NEW t \in Ids, Live(t), {c \in Callers : tx[c] = t} # {}
        PROVE  Cardinality({c \in Callers : tx[c] = t}) = 1 /\ held # t
    <3>1. PICK c \in Callers : tx[c] = t
      BY <2>3
    <3>2. t # 0
      BY DEF Ids
    <3>3. /\ {d \in Callers : tx[d] = t} = {c}
          /\ held # t
      BY <3>1, <3>2 DEF ThreadInv
    <3>4. Cardinality({c}) = 1
      BY FS_Singleton
    <3>. QED
      BY <3>3, <3>4
  <2>. QED
    BY <2>1, <2>2, <2>3 DEF OneOwner
<1>. QED
  BY <1>1, BeansInvariant, PTL

(* The transaction t has its outcome.                                      *)
Ended(t) == status[t] \in {"committed", "aborted"}

(* No step changes the status of a transaction that has ended.             *)
LEMMA EndedStays ==
  BeansInv /\ [Next]_vars => \A t \in Ids : Ended(t) => status'[t] = status[t]
<1>. SUFFICES ASSUME TypeOK, CallInv, ThreadInv, HeldInv, BeginInv, StepKind,
                     NEW t \in Ids, Ended(t)
              PROVE  status'[t] = status[t]
  BY BeansInductive DEF BeansInv, OwnerInv
<1>a. /\ status \in [Ids -> Statuses] /\ status[t] \notin {"unused", "active", "marked"}
      /\ \A c \in Callers : call[c] = 0 \/ call[c] \in Ids
      /\ calls \in Nat /\ t \in Nat
  BY Flat DEF Ids, Ended
<1>1. CASE Rest
  BY <1>1 DEF Rest
<1>2. ASSUME NEW c \in Callers, Quiet(c) PROVE status'[t] = status[t]
  BY <1>a, <1>2 DEF Quiet
<1>3. ASSUME NEW c \in Callers, Begun(c) PROVE status'[t] = status[t]
  <2>1. /\ at[c].phase = "body" /\ status' = [status EXCEPT ![call[c]] = "active"]
        /\ at[c].op \in 1..Len(Body(MethodOf(c))) /\ Body(MethodOf(c))[at[c].op] = Begin
    BY <1>3 DEF Begun
  <2>2. MethodOf(c) \in Methods
    BY <2>1 DEF CallInv
  <2>3. BeginsFrom(MethodOf(c), at[c].op)
    BY <2>1, <2>2, Flat, BeginsFacts
  <2>4. status[call[c]] = "unused"
    BY <2>1, <2>3 DEF BeginInv
  <2>. QED
    BY <1>a, <2>1, <2>4
<1>4. ASSUME NEW c \in Callers, Dropped(c) PROVE status'[t] = status[t]
  <2>1. t = tx[c] => status[t] = "aborted"
    BY <1>a DEF ThreadInv, Open, Ids
  <2>. QED
    BY <1>a, <1>4, <2>1 DEF Dropped
<1>5. ASSUME NEW c \in Callers, NEW m \in Methods, Invoked(c, m) PROVE status'[t] = status[t]
  <2>1. t # calls + 1
    BY <1>a DEF CallInv
  <2>. QED
    BY <1>a, <1>5, <2>1 DEF Invoked
<1>6. ASSUME NEW c \in Callers, Completed(c) PROVE status'[t] = status[t]
  <2>1. /\ t # tx[c] => status'[t] = status[t]
        /\ t = tx[c] => status'[t] = FinalStatus(MethodOf(c), at[c].phase, status[t])
    BY <1>6 DEF Completed
  <2>2. FinalStatus(MethodOf(c), at[c].phase, status[t]) = status[t]
    BY <1>a, FinalFacts
  <2>. QED
    BY <2>1, <2>2
<1>7. ASSUME NEW u \in Ids, TimedOut(u) PROVE status'[t] = status[t]
  BY <1>a, <1>7 DEF TimedOut
<1>. QED
  BY <1>1, <1>2, <1>3, <1>4, <1>5, <1>6, <1>7 DEF StepKind

(* A committed or rolled back transaction stays so, whatever handler,      *)
(* container or reaper comes late for it.                                  *)
THEOREM EndedForGoodHolds == Spec => EndedForGood
<1>1. BeansInv /\ [Next]_vars =>
        [\A t \in Ids : status[t] \in {"committed", "aborted"} => status'[t] = status[t]]_vars
  BY EndedStays DEF Ended
<1>. QED
  BY <1>1, BeansInvariant, PTL DEF Spec, EndedForGood

-----------------------------------------------------------------------------
(* What a method has done when it is at its i-th operation                 *)

Did(m, i, op) == \E j \in 1..Len(Body(m)) : j < i /\ Body(m)[j] = op

Began(m, i) == m[1] \in {"ejb", "cdi"} \/ Did(m, i, Begin)

Marked(m, i) ==
  Did(m, i, MarkRollback) \/ \E e \in Exceptions : MarkedBy(m, e) /\ Did(m, i, Caught(e))

Ops == {Persist, Store, Begin, MarkRollback, Commit, SetTimeout, Sleep}
         \union {Caught(e) : e \in Exceptions} \union {Thrown(e) : e \in Exceptions}

Late == <<"stateless", "setTimeoutCorrect">>
Early == <<"stateless", "setTimeoutWrong">>
Without == <<"stateless", "doWithoutTransaction">>

(* The methods by their bodies.                                            *)
LEMMA Bodies ==
  ASSUME NEW m \in Methods, m[1] # "stateful", m # Late
  PROVE  \/ m[1] \in {"ejb", "cdi"} /\ Body(m) = <<Persist>>
         \/ m[1] \in {"ejb", "cdi"} /\ \E e \in Exceptions : Body(m) = <<Persist, Caught(e)>>
         \/ m[1] = "cdi" /\ \E e \in Exceptions : Body(m) = <<Persist, Store, Thrown(e)>>
         \/ m[1] = "bmt" /\ Body(m) = <<Begin, Persist, Store, Caught("Runtime"), Commit>>
         \/ m[1] = "bmt" /\ Body(m) = <<Begin, Persist, Store, Caught("Runtime")>>
         \/ m[1] = "bmt" /\ Body(m) = <<Begin, Persist, Store, Caught("Runtime"),
                                        MarkRollback, Commit>>
         \/ m[1] \in {"stateless", "singleton"} /\ m[2] = "beginTransaction"
              /\ Body(m) = <<Begin, Persist, Store>>
         \/ m = Without /\ Body(m) = <<Persist, Store>>
         \/ m = Early /\ Body(m) = <<Begin, SetTimeout, Sleep, Persist, Store, Commit>>
<1>1. PICK b \in DOMAIN Bean : \E n \in DOMAIN Bean[b] : m = <<b, n>> /\ Body(m) = Bean[b][n]
  BY MethodCases
<1>2. PICK n \in DOMAIN Bean[b] : m = <<b, n>> /\ Body(m) = Bean[b][n]
  BY <1>1
<1>. USE DEF Exceptions
<1>3. CASE b = "ejb"
  BY <1>2, <1>3 DEF Bean, ExceptionWorkerEjbBean
<1>4. CASE b = "cdi"
  BY <1>2, <1>4 DEF Bean, ExceptionWorkerCdiBean
<1>5. CASE b = "bmt"
  BY <1>2, <1>5 DEF Bean, ExceptionWorkerBmtEjbBean
<1>6. CASE b = "stateless"
  BY <1>2, <1>6 DEF Bean, StatelessBmtBean, Late, Early, Without
<1>7. CASE b = "singleton"
  BY <1>2, <1>7 DEF Bean, SingletonBmtBean
<1>8. CASE b = "stateful"
  BY <1>2, <1>8
<1>. QED
  BY <1>3, <1>4, <1>5, <1>6, <1>7, <1>8 DEF Bean

(* One operation further.                                                  *)
LEMMA DidNext ==
  ASSUME NEW m \in Methods, NEW i \in 1..Len(Body(m)), NEW op
  PROVE  Did(m, i + 1, op) <=> Did(m, i, op) \/ Body(m)[i] = op
<1>1. Len(Body(m)) \in Nat
  BY BodyShape DEF ShapeOf, MaxBody
<1>2. \A j \in 1..Len(Body(m)) : j < i + 1 <=> j < i \/ j = i
  BY <1>1
<1>. QED
  BY <1>1, <1>2 DEF Did

(* What comes before each operation, in the methods other than those of    *)
(* the stateful bean and the one that sets its timeout before it begins.   *)
Ordered(m) ==
  /\ Len(Body(m)) \in 0..MaxBody
  /\ \A i \in 1..Len(Body(m)) : LET op == Body(m)[i] IN
       /\ op \in Ops
       /\ op = Begin => /\ ~Began(m, i) /\ ~Did(m, i, Persist) /\ ~Did(m, i, Commit)
                        /\ ~Did(m, i, SetTimeout) /\ ~Marked(m, i) /\ m # Without
                        /\ ~Guarded(m, op) \/ m = Early
       /\ op # Begin => Began(m, i) \/ (m = Without /\ (i = 1 <=> op = Persist))
       /\ op = Persist => ~Did(m, i, Persist) /\ (~Guarded(m, op) \/ m = Early)
       /\ ~Did(m, i, Commit)
       /\ op = Commit => /\ i = Len(Body(m))
                         /\ \/ m[1] = "bmt" /\ Marked(m, i) /\ Guarded(m, op)
                            \/ m = Early /\ ~Marked(m, i)
       /\ op = MarkRollback => m[1] = "bmt" /\ Marked(m, i)
       /\ op \in {SetTimeout, Sleep} => m = Early
       /\ op[1] = "thrown" => /\ m[1] = "cdi" /\ i = Len(Body(m)) /\ ~Guarded(m, op)
                              /\ Did(m, i, Persist)
       /\ op[1] = "caught" => m[1] \in {"ejb", "cdi", "bmt"}

(* The texts of these methods are in this order.                           *)
LEMMA Order ==
  ASSUME NEW m \in Methods, m[1] # "stateful", m # Late
  PROVE  Ordered(m)
<1>. DEFINE s == Body(m)
<1>. USE DEF Ordered, Did, Began, Marked, MarkedBy, Ops, Exceptions, Guarded, MaxBody,
             Persist, Store, Begin, MarkRollback, Commit, SetTimeout, Sleep, Do, Caught, Thrown,
             Early, Late, Without
<1>1. CASE m[1] \in {"ejb", "cdi"} /\ s = <<Persist>>
  BY <1>1
<1>2. CASE m[1] \in {"ejb", "cdi"} /\ \E e \in Exceptions : s = <<Persist, Caught(e)>>
  BY <1>2
<1>3. CASE m[1] = "cdi" /\ \E e \in Exceptions : s = <<Persist, Store, Thrown(e)>>
  BY <1>3
<1>4. CASE m[1] = "bmt" /\ s = <<Begin, Persist, Store, Caught("Runtime"), Commit>>
  BY <1>4
<1>5. CASE m[1] = "bmt" /\ s = <<Begin, Persist, Store, Caught("Runtime")>>
  BY <1>5
<1>6. CASE m[1] = "bmt" /\ s = <<Begin, Persist, Store, Caught("Runtime"), MarkRollback, Commit>>
  BY <1>6
<1>7. CASE m[1] \in {"stateless", "singleton"} /\ m[2] = "beginTransaction"
             /\ s = <<Begin, Persist, Store>>
  BY <1>7
<1>8. CASE m = Without /\ s = <<Persist, Store>>
  BY <1>8
<1>9. CASE m = Early /\ s = <<Begin, SetTimeout, Sleep, Persist, Store, Commit>>
  <2>1. /\ Len(s) = 6 /\ s[1] = Begin /\ s[2] = SetTimeout /\ s[3] = Sleep
        /\ s[4] = Persist /\ s[5] = Store /\ s[6] = Commit
        /\ m = Early /\ m[1] = "stateless" /\ m # Without
    BY <1>9
  <2>. HIDE DEF s, Early, Without
  <2>2. \A i \in 1..6 : s[i][1] \notin {"thrown", "caught"} /\ s[i] # MarkRollback
    BY <2>1
  <2>3. \A i \in 1..6 : ~Marked(m, i)
    BY <2>1, <2>2 DEF s
  <2>4. \A i \in 1..6 : ~Did(m, i, Commit)
    BY <2>1 DEF s
  <2>5. \A i \in 1..6 : i # 1 => Began(m, i)
    BY <2>1 DEF s
  <2>6. ~Did(m, 1, Begin) /\ ~Did(m, 1, Persist) /\ ~Did(m, 1, SetTimeout) /\ ~Did(m, 4, Persist)
    BY <2>1 DEF s
  <2>7. \A i \in 1..6 : s[i] \in Ops
    BY <2>1
  <2>8. Ordered(m)
    <3>1. \A i \in 1..6 : /\ s[i] = Begin <=> i = 1
                          /\ s[i] = Persist <=> i = 4
                          /\ s[i] = Commit <=> i = 6
      BY <2>1
    <3>. HIDE DEF Did, Began, Marked, MarkedBy, Ops, Exceptions, Guarded, Persist, Store, Begin,
                  MarkRollback, Commit, SetTimeout, Sleep, Caught, Thrown
    <3>2. ~Began(m, 1)
      BY <2>1, <2>6 DEF Began
    <3>. QED
      BY <2>1, <2>2, <2>3, <2>4, <2>5, <2>6, <2>7, <3>1, <3>2 DEF s
  <2>. QED
    BY <2>8
<1>. QED
  BY <1>1, <1>2, <1>3, <1>4, <1>5, <1>6, <1>7, <1>8, <1>9, Bodies

-----------------------------------------------------------------------------
(* The course of a call: how its position (phase p at operation i), the    *)
(* transaction x of its thread, the status s and the timeout of its own    *)
(* transaction k, the thread's timeout and the entity e belong together    *)

TxAfter(m, k, i) == IF Began(m, i) /\ ~Did(m, i, Commit) THEN k ELSE 0

StatusAfter(m, i) ==
  IF ~Began(m, i) THEN "unused"
  ELSE IF Did(m, i, Commit) THEN "committed"
  ELSE IF Marked(m, i) THEN "marked" ELSE "active"

(* No exception so far.  Only the early timeout method commits; without a  *)
(* transaction nothing is persisted.                                       *)
Onward(m, k, p, i, x, s) ==
  /\ p \in {"body", "returning"} /\ x = TxAfter(m, k, i) /\ s = StatusAfter(m, i)
  /\ p = "returning" => i > Len(Body(m))
  /\ Did(m, i, Commit) => m = Early
  /\ \A a \in Exceptions : ~Did(m, i, Thrown(a))
  /\ m = Without => p = "body" /\ i = 1

(* A commit has failed, a method has thrown at its end, or there was no    *)
(* transaction to persist in.                                              *)
Abrupt(m, k, p, i, x, s) ==
  \/ m[1] = "bmt" /\ p \in {"rollback", "Runtime"} /\ x = 0 /\ s = "aborted"
       /\ Did(m, i + 1, Commit)
  \/ m[1] = "cdi" /\ p \in Exceptions /\ x = k /\ s = "active"
       /\ i = Len(Body(m)) /\ Did(m, i + 1, Thrown(p))
  \/ m = Without /\ p = "Runtime" /\ i = 1 /\ x = 0 /\ s = "unused"

Course(m, k, p, i, x, s, own, next, e) ==
  /\ ~Did(m, i, SetTimeout) => next = "default"
  /\ Began(m, i) => own = "default"
  /\ e = IF Did(m, i, Persist) THEN k ELSE 0
  /\ Onward(m, k, p, i, x, s) \/ Abrupt(m, k, p, i, x, s)

(* The course of setTimeoutCorrect: its transaction has one second, which  *)
(* has passed when it persists; the handler ends it and the method returns.*)
LateCourse(k, p, i, x, s, own, next, e) ==
  /\ e = 0
  /\ \/ p = "body" /\ i \in {1, 2} /\ x = 0 /\ s = "unused" /\ (i = 2 => next = "short")
     \/ p = "body" /\ i = 3 /\ x = k /\ s \in {"active", "aborted"} /\ own = "short"
     \/ p = "body" /\ i = 4 /\ x = k /\ s = "aborted"
     \/ p = "rollback" /\ x = k /\ s = "aborted"
     \/ p = "body" /\ i = MaxBody + 1 /\ x = 0 /\ s = "aborted"
     \/ p = "returning" /\ x = 0 /\ s = "aborted"

CourseOf(c) ==
  LET m == MethodOf(c)
      k == call[c]
  IN  /\ m[1] # "stateful" /\ m # Late =>
           Course(m, k, at[c].phase, at[c].op, tx[c], status[k], limit[k], timeout[c],
                  log[k].entity)
      /\ m = Late =>
           LateCourse(k, at[c].phase, at[c].op, tx[c], status[k], limit[k], timeout[c],
                      log[k].entity)

(* A call that has ended has come to what its test asserts.                *)
Past(k) ==
  log[k].result # "none" /\ log[k].m[1] # "stateful" =>
    /\ log[k].entity \in {0, k}
    /\ log[k].entity = k => status[k] \in {"committed", "aborted"}
    /\ log[k].m \notin Ignored =>
         /\ log[k].entity = k /\ status[k] = "committed" <=> log[k].m \in EntityFound
         /\ log[k].result = "threw" <=> log[k].m \in CallThrows

CourseInv ==
  /\ \A c \in Callers : IF call[c] = 0 THEN timeout[c] = "default" ELSE CourseOf(c)
  /\ \A k \in Ids : Past(k) /\ (k > calls => log[k].entity = 0)

(* While a call is alone since ResultsBean was cleared, the record is that *)
(* of this call: the status at its beginning, the status at its end if the *)
(* method has returned, and the id it has stored, if any.                  *)
RecordOf(m) ==
  /\ results.invoke = InvokeStatus(m)
  /\ results.id \in {0, calls} /\ (m = Late => results.id = 0)
  /\ \A c \in Callers : call[c] # 0 =>
       results.exit = IF at[c].phase = "returning" THEN ExitStatus(m) ELSE <<>>
  /\ log[calls].result # "none" => results.exit = ExitStatus(m)

RecordInv ==
  alone =>
    IF results = Cleared
    THEN \A c \in Callers : call[c] = 0
    ELSE /\ calls \in Ids /\ results.invoke # <<>>
         /\ \A c \in Callers : call[c] \in {0, calls}
         /\ log[calls].m[1] # "stateful" => RecordOf(log[calls].m)

-----------------------------------------------------------------------------
(* What the steps of one call leave of the others                          *)

(* A step of c, the beginning and the end of its call included.            *)
Elsewhere(c) ==
  /\ \A d \in Callers \ {c} :
       call'[d] = call[d] /\ at'[d] = at[d] /\ tx'[d] = tx[d] /\ timeout'[d] = timeout[d]
  /\ \A k \in Ids \ {call[c], calls + 1} : log'[k] = log[k] /\ limit'[k] = limit[k]
  /\ \A t \in Ids \ {tx[c], call[c], calls + 1} : status'[t] = status[t]

(* Every step of a caller is such a step.                                  *)
LEMMA StepsElsewhere ==
  ASSUME BeansInv, NEW c \in Callers,
         SetUp(c) \/ (\E m \in Methods : Invoke(c, m)) \/ Step(c)
  PROVE  Elsewhere(c)
<1>a. /\ calls \in 0..MaxCalls /\ call \in [Callers -> 0..MaxCalls]
      /\ at \in [Callers -> Positions] /\ log \in [Ids -> Entries]
      /\ tx \in [Callers -> 0..MaxCalls]
      /\ timeout \in [Callers -> {"default", "short"}]
      /\ status \in [Ids -> Statuses] /\ limit \in [Ids -> {"default", "short"}]
  BY TypeParts DEF TypeOK, BeansInv
<1>. USE DEF calling, manager, bean, record
<1>1. CASE SetUp(c)
  BY <1>a, <1>1 DEF SetUp, Elsewhere
<1>2. ASSUME NEW m \in Methods, Invoke(c, m) PROVE Elsewhere(c)
  <2>1. /\ call' = [call EXCEPT ![c] = calls + 1]
        /\ log' = [log EXCEPT ![calls + 1].m = m]
        /\ at' = [at EXCEPT ![c] = [phase |-> "body", op |-> 1]]
        /\ timeout' = timeout
        /\ \E t : /\ tx' = [tx EXCEPT ![c] = t]
                  /\ \/ t = calls + 1 /\ status' = [status EXCEPT ![t] = "active"]
                        /\ limit' = [limit EXCEPT ![t] = timeout[c]]
                     \/ status' = status /\ limit' = limit
    BY <1>2 DEF Invoke
  <2>. QED
    BY <1>a, <2>1 DEF Elsewhere
<1>3. CASE UtxBegin(c)
  BY <1>a, <1>3 DEF UtxBegin, Continue, Fail, Elsewhere
<1>4. CASE UtxSetTransactionTimeout(c) \/ ThreadSleep(c) \/ AddStorageValue(c) \/ InterceptorExit(c)
  BY <1>a, <1>4
  DEF UtxSetTransactionTimeout, ThreadSleep, AddStorageValue, InterceptorExit, Continue, Elsewhere
<1>5. CASE EmPersist(c)
  BY <1>a, <1>5 DEF EmPersist, Continue, Fail, Elsewhere
<1>6. CASE CallThrower(c)
  BY <1>a, <1>6 DEF CallThrower, Continue, Fail, Elsewhere
<1>7. CASE UtxSetRollbackOnly(c)
  BY <1>a, <1>7 DEF UtxSetRollbackOnly, Continue, Fail, Elsewhere
<1>8. CASE UtxCommit(c)
  <2>1. Continue(c) \/ \E e \in Exceptions : Fail(c, e)
    BY <1>8 DEF UtxCommit, Exceptions
  <2>2. \A d \in Callers \ {c} : at'[d] = at[d]
    BY <1>a, <2>1 DEF Continue, Fail
  <2>. QED
    BY <1>a, <1>8, <2>2 DEF UtxCommit, Elsewhere
<1>9. CASE UtxRollback(c)
  BY <1>a, <1>9 DEF UtxRollback, Elsewhere
<1>10. CASE Complete(c)
  BY <1>a, <1>10 DEF Complete, Elsewhere
<1>. QED
  BY <1>1, <1>2, <1>3, <1>4, <1>5, <1>6, <1>7, <1>8, <1>9, <1>10 DEF Step

(* Two calls and their transactions are different ones.                    *)
LEMMA Distinct ==
  ASSUME BeansInv, NEW c \in Callers, NEW d \in Callers, c # d, call[d] # 0
  PROVE  /\ call[d] \in Ids /\ call[d] # calls + 1 /\ MethodOf(d) \in Methods
         /\ call[d] # call[c] /\ call[d] # tx[c]
<1>1. call[d] \in Ids /\ call[d] <= calls /\ MethodOf(d) \in Methods /\ calls \in Nat
  BY Flat, BeansAssumption DEF BeansInv, CallInv
<1>2. call[d] # call[c]
  BY DEF BeansInv, CallInv
<1>3. ASSUME call[d] = tx[c] PROVE FALSE
  <2>1. FromStateful(tx[c])
    BY <1>2, <1>3 DEF BeansInv, OwnerInv, ThreadInv
  <2>2. log[call[d]].result = "none"
    BY DEF BeansInv, CallInv
  <2>. QED
    BY <1>3, <2>1, <2>2 DEF FromStateful
<1>4. call[d] # calls + 1
  BY <1>1 DEF Ids
<1>. QED
  BY <1>1, <1>2, <1>3, <1>4

(* Every value of d's call stays.                                          *)
Stays(d) ==
  /\ call'[d] = call[d] /\ at'[d] = at[d] /\ tx'[d] = tx[d] /\ timeout'[d] = timeout[d]
  /\ log'[call[d]] = log[call[d]] /\ limit'[call[d]] = limit[call[d]]
  /\ status'[call[d]] = status[call[d]]

(* Then d goes on in its course.                                           *)
LEMMA CourseStays ==
  ASSUME NEW d \in Callers, Stays(d), CourseOf(d)
  PROVE  CourseOf(d)'
<1>. DEFINE k == call[d]
            m == log[k].m
<1>1. call'[d] = k /\ log'[k].m = m /\ log'[k].entity = log[k].entity
  BY DEF Stays
<1>2. MethodOf(d) = m /\ MethodOf(d)' = m
  BY <1>1 DEF MethodOf
<1>. HIDE DEF k, m
<1>3. /\ at'[d].phase = at[d].phase /\ at'[d].op = at[d].op /\ tx'[d] = tx[d]
      /\ status'[k] = status[k] /\ limit'[k] = limit[k] /\ timeout'[d] = timeout[d]
  BY DEF Stays, k
<1>4. call[d] = k
  BY DEF k
<1>. QED
  BY <1>1, <1>2, <1>3, <1>4 DEF CourseOf

(* The other threads, in a call or idle, are not disturbed.                *)
LEMMA OthersKept ==
  ASSUME BeansInv, CourseInv, NEW c \in Callers, Elsewhere(c), NEW d \in Callers \ {c}
  PROVE  IF call'[d] = 0 THEN timeout'[d] = "default" ELSE CourseOf(d)'
<1>1. CASE call[d] = 0
  BY <1>1 DEF CourseInv, Elsewhere
<1>2. CASE call[d] # 0
  <2>1. /\ call[d] \in Ids \ {call[c], calls + 1}
        /\ call[d] \in Ids \ {tx[c], call[c], calls + 1}
    BY <1>2, Distinct
  <2>2. Stays(d) /\ CourseOf(d)
    BY <1>2, <2>1 DEF Elsewhere, Stays, CourseInv
  <2>3. CourseOf(d)' /\ call'[d] # 0
    BY <1>2, <2>2, CourseStays DEF Stays
  <2>. QED
    BY <2>3
<1>. QED
  BY <1>1, <1>2

(* Nor are the calls that have ended, and those to come.                   *)
LEMMA PastKept ==
  ASSUME BeansInv, CourseInv, [Next]_vars, NEW k \in Ids, log'[k] = log[k],
         calls' \in {calls, calls + 1}
  PROVE  Past(k)' /\ (k > calls' => log'[k].entity = 0)
<1>1. Past(k) /\ (k > calls => log[k].entity = 0)
  BY DEF CourseInv
<1>2. status[k] \in {"committed", "aborted"} => status'[k] = status[k]
  BY EndedStays DEF Ended
<1>3. Past(k)'
  BY <1>1, <1>2 DEF Past
<1>4. calls \in Nat /\ k \in Nat
  BY Flat, BeansAssumption DEF BeansInv, Ids
<1>5. k > calls' => k > calls
  BY <1>4
<1>. QED
  BY <1>1, <1>3, <1>5

(* The reaper takes no transaction of a call but that of setTimeoutCorrect.*)
LEMMA TimeoutKept ==
  ASSUME BeansInv, CourseInv, [Next]_vars, NEW t \in Ids, Timeout(t)
  PROVE  CourseInv'
<1>. USE DEF calling, manager, bean, record
<1>1. /\ calls' = calls /\ call' = call /\ log' = log /\ at' = at /\ tx' = tx
      /\ timeout' = timeout /\ limit' = limit
      /\ status[t] \in {"active", "marked"} /\ status'[t] = "aborted"
      /\ \A k \in Ids \ {t} : status'[k] = status[k]
      /\ limit[t] = "short" \/ \A c \in Callers : tx[c] # t
  BY Flat DEF Timeout, BeansInv
<1>2. ASSUME NEW k \in Ids PROVE Past(k)' /\ (k > calls' => log'[k].entity = 0)
  <2>1. status[k] \in {"committed", "aborted"} => status'[k] = status[k]
    BY EndedStays DEF Ended
  <2>. QED
    BY <1>1, <2>1 DEF Past, CourseInv
<1>3. ASSUME NEW c \in Callers, call[c] # 0 PROVE CourseOf(c)'
  <2>. DEFINE k == call[c]
              m == MethodOf(c)
  <2>1. CourseOf(c) /\ k \in Ids /\ MethodOf(c)' = m
    BY <1>1, <1>3, Flat DEF CourseInv, BeansInv, MethodOf
  <2>2. CASE k # t \/ m[1] = "stateful"
    <3>1. CASE k # t
      BY <1>1, <2>1, <3>1, CourseStays DEF Stays
    <3>2. CASE m[1] = "stateful"
      BY <2>1, <3>2 DEF CourseOf, Late
    <3>. QED
      BY <2>2, <3>1, <3>2
  <2>3. CASE k = t /\ m = Late
    BY <1>1, <2>1, <2>3 DEF CourseOf, LateCourse
  <2>4. CASE k = t /\ m # Late /\ m[1] # "stateful"
    <3>1. Course(m, k, at[c].phase, at[c].op, tx[c], status[k], limit[k], timeout[c],
                 log[k].entity)
      BY <2>1, <2>4 DEF CourseOf
    <3>2. Began(m, at[c].op) /\ tx[c] = k
      BY <1>1, <2>4, <3>1 DEF Course, Onward, Abrupt, TxAfter, StatusAfter, Began
    <3>. QED
      BY <1>1, <2>4, <3>1, <3>2 DEF Course
  <2>. QED
    BY <2>2, <2>3, <2>4
<1>4. ASSUME NEW c \in Callers, call[c] = 0 PROVE timeout'[c] = "default"
  BY <1>1, <1>4 DEF CourseInv
<1>. QED
  BY <1>1, <1>2, <1>3, <1>4 DEF CourseInv

-----------------------------------------------------------------------------
(* The operations of a course                                              *)

(* In the middle of a body, with op next, no exception has been thrown.    *)
LEMMA InBody ==
  ASSUME NEW m \in Methods, m[1] # "stateful", m # Late,
         NEW k \in Nat \ {0}, NEW i \in 1..Len(Body(m)),
         NEW x, NEW s, NEW own, NEW next, NEW e, Course(m, k, "body", i, x, s, own, next, e)
  PROVE  /\ Ordered(m)
         /\ Onward(m, k, "body", i, x, s)
         /\ ~Began(m, i) => x = 0 /\ s = "unused"
         /\ Began(m, i) => x = k /\ own = "default"
         /\ Began(m, i) => s = IF Marked(m, i) THEN "marked" ELSE "active"
<1>1. Ordered(m)
  BY Order
<1>2. Onward(m, k, "body", i, x, s)
  BY DEF Course, Abrupt, Exceptions
<1>3. ~Did(m, i, Commit)
  BY <1>1 DEF Ordered
<1>. QED
  BY <1>1, <1>2, <1>3 DEF Course, Onward, TxAfter, StatusAfter

(* What the next operation makes of what has been done.                    *)
LEMMA DoneNext ==
  ASSUME NEW m \in Methods, NEW i \in 1..Len(Body(m))
  PROVE  LET op == Body(m)[i] IN
         /\ Began(m, i + 1) <=> Began(m, i) \/ op = Begin
         /\ Marked(m, i + 1) <=> \/ Marked(m, i)
                                 \/ op = MarkRollback
                                 \/ \E e \in Exceptions : op = Caught(e) /\ MarkedBy(m, e)
         /\ Did(m, i + 1, Commit) <=> Did(m, i, Commit) \/ op = Commit
         /\ Did(m, i + 1, Persist) <=> Did(m, i, Persist) \/ op = Persist
         /\ Did(m, i + 1, SetTimeout) <=> Did(m, i, SetTimeout) \/ op = SetTimeout
         /\ \A a \in Exceptions : Did(m, i + 1, Thrown(a)) <=> Did(m, i, Thrown(a)) \/ op = Thrown(a)
  BY DidNext DEF Began, Marked

(* The next operation has been done without an exception.                  *)
LEMMA CourseOn ==
  ASSUME NEW m \in Methods, m[1] # "stateful", m # Late,
         NEW k \in Nat \ {0}, NEW i \in 1..Len(Body(m)),
         NEW x, NEW s, NEW own, NEW next, NEW e, Course(m, k, "body", i, x, s, own, next, e),
         m # Without, NEW x1, NEW s1, NEW own1, NEW next1, NEW e1,
         LET op == Body(m)[i] IN
           /\ x1 = IF op = Begin THEN k ELSE IF op = Commit THEN 0 ELSE x
           /\ \/ op = Begin /\ s1 = "active"
              \/ op = MarkRollback /\ s1 = "marked"
              \/ op = Commit /\ s1 = "committed"
              \/ \E a \in Exceptions : /\ op = Caught(a)
                                       /\ s1 = IF MarkedBy(m, a) THEN "marked" ELSE s
              \/ op \in {Persist, Store, SetTimeout, Sleep} /\ s1 = s
           /\ own1 = IF op = Begin THEN next ELSE own
           /\ next1 = IF op = SetTimeout THEN "short" ELSE next
           /\ e1 = IF op = Persist THEN k ELSE e,
         Body(m)[i] = Commit => m = Early
  PROVE  Course(m, k, "body", i + 1, x1, s1, own1, next1, e1)
<1>. DEFINE op == Body(m)[i]
<1>1. /\ Ordered(m)
      /\ Onward(m, k, "body", i, x, s)
      /\ ~Began(m, i) => x = 0 /\ s = "unused"
      /\ Began(m, i) => x = k /\ own = "default"
      /\ Began(m, i) => s = IF Marked(m, i) THEN "marked" ELSE "active"
  BY InBody
<1>2. /\ op = Begin => ~Began(m, i) /\ ~Did(m, i, SetTimeout) /\ ~Marked(m, i)
      /\ op # Begin => Began(m, i)
      /\ ~Did(m, i, Commit)
      /\ op = MarkRollback => Marked(m, i)
  BY <1>1 DEF Ordered
<1>3. /\ Began(m, i + 1) <=> Began(m, i) \/ op = Begin
      /\ Marked(m, i + 1) <=> \/ Marked(m, i)
                              \/ op = MarkRollback
                              \/ \E a \in Exceptions : op = Caught(a) /\ MarkedBy(m, a)
      /\ Did(m, i + 1, Commit) <=> Did(m, i, Commit) \/ op = Commit
      /\ Did(m, i + 1, Persist) <=> Did(m, i, Persist) \/ op = Persist
      /\ Did(m, i + 1, SetTimeout) <=> Did(m, i, SetTimeout) \/ op = SetTimeout
      /\ \A a \in Exceptions : Did(m, i + 1, Thrown(a)) <=> Did(m, i, Thrown(a)) \/ op = Thrown(a)
  BY DoneNext
<1>4. /\ x1 = IF op = Begin THEN k ELSE IF op = Commit THEN 0 ELSE x
      /\ \/ op = Begin /\ s1 = "active"
         \/ op = MarkRollback /\ s1 = "marked"
         \/ op = Commit /\ s1 = "committed"
         \/ \E a \in Exceptions : /\ op = Caught(a)
                                  /\ s1 = IF MarkedBy(m, a) THEN "marked" ELSE s
         \/ op \in {Persist, Store, SetTimeout, Sleep} /\ s1 = s
      /\ own1 = IF op = Begin THEN next ELSE own
      /\ next1 = IF op = SetTimeout THEN "short" ELSE next
      /\ e1 = IF op = Persist THEN k ELSE e
      /\ op = Commit => m = Early
  OBVIOUS
<1>5. /\ ~Did(m, i, SetTimeout) => next = "default"
      /\ e = IF Did(m, i, Persist) THEN k ELSE 0
  BY DEF Course
<1>6. /\ op \in {Persist, Store, SetTimeout, Sleep} =>
           op \notin {Begin, MarkRollback, Commit} /\ \A a \in Exceptions : op # Caught(a)
      /\ \A a \in Exceptions : op = Caught(a) =>
           /\ op \notin {Begin, MarkRollback, Commit}
           /\ \A b \in Exceptions : op = Caught(b) => b = a
      /\ Begin # Commit /\ Begin # MarkRollback /\ Commit # MarkRollback
      /\ Begin # SetTimeout
      /\ op \in {Begin, MarkRollback, Commit} => \A a \in Exceptions : op # Caught(a)
      /\ \A a, b \in Exceptions : Thrown(a) # Caught(b)
      /\ \A a \in Exceptions :
           Thrown(a) \notin {Begin, MarkRollback, Commit, Persist, Store, SetTimeout, Sleep}
  <2>. HIDE DEF op
  <2>. QED
    BY DEF Persist, Store, Begin, MarkRollback, Commit, SetTimeout, Sleep, Do, Caught, Thrown
<1>. HIDE DEF op
<1>7. x1 = TxAfter(m, k, i + 1)
  BY <1>1, <1>2, <1>3, <1>4, <1>6 DEF TxAfter
<1>8. s1 = StatusAfter(m, i + 1)
  BY <1>1, <1>2, <1>3, <1>4, <1>6 DEF StatusAfter
<1>9. Did(m, i + 1, Commit) => m = Early
  BY <1>1, <1>2, <1>3, <1>4
<1>10. Began(m, i + 1) => own1 = "default"
  BY <1>1, <1>2, <1>3, <1>4, <1>5
<1>11. ~Did(m, i + 1, SetTimeout) => next1 = "default"
  BY <1>3, <1>4, <1>5
<1>12. e1 = IF Did(m, i + 1, Persist) THEN k ELSE 0
  BY <1>3, <1>4, <1>5
<1>13. \A a \in Exceptions : ~Did(m, i + 1, Thrown(a))
  BY <1>1, <1>3, <1>4, <1>6 DEF Onward
<1>. QED
  BY <1>7, <1>8, <1>9, <1>10, <1>11, <1>12, <1>13 DEF Course, Onward

(* One method never has a transaction.                                     *)
LEMMA NeverBegun ==
  /\ Len(Body(Without)) = 2
  /\ \A i : ~Began(Without, i)
<1>1. Body(Without) = <<Persist, Store>> /\ Without[1] = "stateless"
  BY DEF Without, Body, Bean, StatelessBmtBean
<1>2. Begin \notin {Persist, Store}
  BY DEF Begin, Persist, Store, Do
<1>. QED
  BY <1>1, <1>2 DEF Began, Did

(* The step has made these values of those of c's call.                    *)
LEMMA Arrives ==
  ASSUME NEW c \in Callers, NEW m, NEW k, m[1] # "stateful", m # Late,
         call'[c] = k, log'[k].m = m,
         Course(m, k, at'[c].phase, at'[c].op, tx'[c], status'[k], limit'[k], timeout'[c],
                log'[k].entity)
  PROVE  CourseOf(c)'
<1>1. MethodOf(c)' = m
  BY DEF MethodOf
<1>. QED
  BY <1>1 DEF CourseOf

(* A step within a method keeps it in its course.                          *)
LEMMA StepCourse ==
  ASSUME BeansInv, CourseInv, NEW c \in Callers, Step(c), ~Complete(c),
         MethodOf(c)[1] # "stateful", MethodOf(c) # Late
  PROVE  CourseOf(c)'
<1>. DEFINE m == MethodOf(c)
            k == call[c]
            i == at[c].op
            x == tx[c]
            s == status[k]
            own == limit[k]
            next == timeout[c]
            e == log[k].entity
            op == Body(m)[i]
<1>a. /\ call \in [Callers -> 0..MaxCalls]
      /\ at \in [Callers -> Positions] /\ log \in [Ids -> Entries]
      /\ tx \in [Callers -> 0..MaxCalls]
      /\ timeout \in [Callers -> {"default", "short"}]
      /\ status \in [Ids -> Statuses] /\ limit \in [Ids -> {"default", "short"}]
  BY TypeParts DEF TypeOK, BeansInv
<1>b. TypeOK /\ CallInv
  BY DEF BeansInv
<1>c. at[c].phase # "idle"
  BY DEF Step, UtxBegin, UtxSetTransactionTimeout, ThreadSleep, EmPersist, AddStorageValue,
         CallThrower, UtxSetRollbackOnly, UtxCommit, UtxRollback, InterceptorExit, Doing
<1>d. k \in Ids /\ k # 0 /\ k \in Nat \ {0} /\ m \in Methods /\ m = log[k].m
  BY <1>b, <1>c, Flat DEF CallInv, Ids, MethodOf
<1>e. Course(m, k, at[c].phase, i, x, s, own, next, e)
  BY <1>d DEF CourseInv, CourseOf
<1>f. /\ call'[c] = k /\ log'[k].m = m
  <2>1. call' = call
    BY DEF Step, UtxBegin, UtxSetTransactionTimeout, ThreadSleep, EmPersist, AddStorageValue,
           CallThrower, UtxSetRollbackOnly, UtxCommit, UtxRollback, InterceptorExit, calling
  <2>2. log' = log \/ log' = [log EXCEPT ![k].entity = tx[c]]
    BY DEF Step, UtxBegin, UtxSetTransactionTimeout, ThreadSleep, EmPersist, AddStorageValue,
           CallThrower, UtxSetRollbackOnly, UtxCommit, UtxRollback, InterceptorExit, calling
  <2>3. log'[k].m = log[k].m
    BY <1>a, <1>d, <2>2 DEF Entries
  <2>. QED
    BY <1>d, <2>1, <2>3
<1>g. ASSUME at[c].phase = "body", i \in 1..Len(Body(m))
      PROVE  /\ Course(m, k, "body", i, x, s, own, next, e)
             /\ Ordered(m)
             /\ Onward(m, k, "body", i, x, s)
             /\ ~Began(m, i) => x = 0 /\ s = "unused"
             /\ Began(m, i) => x = k /\ own = "default"
             /\ Began(m, i) => s = IF Marked(m, i) THEN "marked" ELSE "active"
  <2>1. Course(m, k, "body", i, x, s, own, next, e)
    BY <1>e, <1>g
  <2>2. m[1] # "stateful" /\ m # Late
    OBVIOUS
  <2>. HIDE DEF m, k, i, x, s, own, next, e
  <2>. QED
    BY <1>d, <1>g, <2>1, <2>2, InBody
<1>. DEFINE Arrived(p, i1, x1, s1, own1, next1, e1) ==
              /\ at'[c].phase = p /\ at'[c].op = i1 /\ tx'[c] = x1 /\ status'[k] = s1
              /\ limit'[k] = own1 /\ timeout'[c] = next1 /\ log'[k].entity = e1
<1>h. ASSUME NEW p, NEW i1, NEW x1, NEW s1, NEW own1, NEW next1, NEW e1,
             Arrived(p, i1, x1, s1, own1, next1, e1),
             Course(m, k, p, i1, x1, s1, own1, next1, e1)
      PROVE  CourseOf(c)'
  <2>1. m[1] # "stateful" /\ m # Late
    OBVIOUS
  <2>. HIDE DEF m, k, i, x, s, own, next, e
  <2>2. Course(m, k, at'[c].phase, at'[c].op, tx'[c], status'[k], limit'[k], timeout'[c],
               log'[k].entity)
    BY <1>h
  <2>. QED
    BY <1>f, <2>1, <2>2, Arrives
<1>i. ASSUME at[c].phase = "body", i \in 1..Len(Body(m)), m # Without,
             NEW x1, NEW s1, NEW own1, NEW next1, NEW e1,
             Arrived("body", i + 1, x1, s1, own1, next1, e1),
             x1 = IF op = Begin THEN k ELSE IF op = Commit THEN 0 ELSE x,
             \/ op = Begin /\ s1 = "active"
             \/ op = MarkRollback /\ s1 = "marked"
             \/ op = Commit /\ s1 = "committed"
             \/ \E a \in Exceptions : /\ op = Caught(a)
                                      /\ s1 = IF MarkedBy(m, a) THEN "marked" ELSE s
             \/ op \in {Persist, Store, SetTimeout, Sleep} /\ s1 = s,
             own1 = IF op = Begin THEN next ELSE own,
             next1 = IF op = SetTimeout THEN "short" ELSE next,
             e1 = IF op = Persist THEN k ELSE e,
             op = Commit => m = Early
      PROVE  CourseOf(c)'
  <2>1. Course(m, k, "body", i, x, s, own, next, e)
    BY <1>g, <1>i
  <2>2. m[1] # "stateful" /\ m # Late
    OBVIOUS
  <2>3. Course(m, k, "body", i + 1, x1, s1, own1, next1, e1)
    <3>. HIDE DEF m, k, i, x, s, own, next, e, Arrived
    <3>. QED
      BY <1>d, <1>i, <2>1, <2>2, CourseOn
  <2>. QED
    BY <1>h, <1>i, <2>3
<1>j. /\ Begin # Commit /\ Begin # SetTimeout /\ Begin # Persist /\ Commit # SetTimeout
      /\ Commit # Persist /\ SetTimeout # Persist /\ Store \notin {Begin, Commit, SetTimeout, Persist}
      /\ Sleep \notin {Begin, Commit, SetTimeout, Persist}
      /\ MarkRollback \notin {Begin, Commit, SetTimeout, Persist}
      /\ \A a \in Exceptions : Caught(a) \notin {Begin, Commit, SetTimeout, Persist}
  BY DEF Begin, Commit, SetTimeout, Persist, Store, Sleep, MarkRollback, Caught, Do
<1>k. ASSUME NEW o, Doing(c, o)
      PROVE  /\ i \in 1..Len(Body(m)) /\ at[c].phase = "body" /\ op = o /\ Ordered(m)
             /\ Continue(c) => /\ at'[c].phase = "body" /\ at'[c].op = i + 1
             /\ \A a \in Exceptions :
                  Fail(c, a) => /\ at'[c].op = i
                                /\ at'[c].phase = IF Guarded(m, o) THEN "rollback" ELSE a
  <2>1. i \in 1..Len(Body(m)) /\ at[c].phase = "body" /\ op = o
    BY <1>b, <1>k, DoingFacts
  <2>2. Continue(c) => /\ at'[c].phase = "body" /\ at'[c].op = i + 1
    BY <1>b, <1>k, Continued
  <2>3. ASSUME NEW a \in Exceptions, Fail(c, a)
        PROVE  at'[c].op = i /\ at'[c].phase = IF Guarded(m, o) THEN "rollback" ELSE a
    BY <1>a, <2>1, <2>3 DEF Fail, Positions
  <2>. QED
    BY <1>g, <2>1, <2>2, <2>3
<1>l. ASSUME NEW o, Doing(c, o), o \notin {Begin, Persist}
      PROVE  m # Without /\ Began(m, i)
  <2>1. Began(m, i) \/ (m = Without /\ i # 1)
    BY <1>k, <1>l DEF Ordered
  <2>2. m = Without => i = 1 /\ ~Began(m, i)
    BY <1>g, <1>k, <1>l, NeverBegun DEF Onward
  <2>. QED
    BY <2>1, <2>2
<1>. HIDE DEF Arrived
<1>. USE DEF calling, manager, bean, record
<1>1. CASE UtxBegin(c)
  <2>1. Doing(c, Begin)
    BY <1>1 DEF UtxBegin
  <2>2. x = 0 /\ m # Without
    BY <1>g, <1>k, <2>1 DEF Ordered
  <2>3. Continue(c) /\ tx' = [tx EXCEPT ![c] = k]
        /\ status' = [status EXCEPT ![k] = "active"] /\ limit' = [limit EXCEPT ![k] = next]
        /\ timeout' = timeout /\ log' = log
    BY <1>1, <2>2 DEF UtxBegin
  <2>4. Arrived("body", i + 1, k, "active", next, next, e)
    BY <1>a, <1>d, <1>k, <2>1, <2>3 DEF Arrived
  <2>. QED
    BY <1>i, <1>j, <1>k, <2>1, <2>2, <2>4
<1>2. CASE UtxSetTransactionTimeout(c)
  <2>1. Doing(c, SetTimeout) /\ Continue(c) /\ timeout' = [timeout EXCEPT ![c] = "short"]
        /\ tx' = tx /\ status' = status /\ limit' = limit /\ log' = log
    BY <1>2 DEF UtxSetTransactionTimeout
  <2>2. m # Without
    BY <1>j, <1>l, <2>1
  <2>3. Arrived("body", i + 1, x, s, own, "short", e)
    BY <1>a, <1>d, <1>k, <2>1 DEF Arrived
  <2>. QED
    BY <1>i, <1>j, <1>k, <2>1, <2>2, <2>3
<1>3. CASE ThreadSleep(c)
  <2>1. Doing(c, Sleep) /\ Continue(c) /\ timeout' = timeout
        /\ tx' = tx /\ status' = status /\ limit' = limit /\ log' = log
    BY <1>3 DEF ThreadSleep
  <2>2. m # Without
    BY <1>j, <1>l, <2>1
  <2>3. Arrived("body", i + 1, x, s, own, next, e)
    BY <1>a, <1>d, <1>k, <2>1 DEF Arrived
  <2>. QED
    BY <1>i, <1>j, <1>k, <2>1, <2>2, <2>3
<1>4. CASE EmPersist(c)
  <2>1. Doing(c, Persist) /\ timeout' = timeout /\ tx' = tx /\ status' = status /\ limit' = limit
    BY <1>4 DEF EmPersist
  <2>2. CASE Began(m, i)
    <3>1. x = k /\ s \in {"active", "marked"}
      BY <1>g, <1>k, <2>1, <2>2
    <3>2. Continue(c) /\ log' = [log EXCEPT ![k].entity = k]
      BY <1>4, <1>d, <3>1 DEF EmPersist, StatusOf
    <3>3. m # Without
      BY <2>2, NeverBegun
    <3>4. Arrived("body", i + 1, x, s, own, next, k)
      BY <1>a, <1>d, <1>k, <2>1, <3>2 DEF Arrived, Entries
    <3>. QED
      BY <1>i, <1>j, <1>k, <2>1, <3>3, <3>4
  <2>3. CASE ~Began(m, i)
    <3>1. x = 0 /\ s = "unused" /\ m = Without /\ i = 1
      BY <1>g, <1>j, <1>k, <2>1, <2>3 DEF Ordered
    <3>2. Fail(c, "Runtime") /\ log' = log
      BY <1>4, <3>1 DEF EmPersist, StatusOf
    <3>3. ~Guarded(m, Persist)
      BY <3>1 DEF Guarded, Without
    <3>4. at'[c].phase = "Runtime" /\ at'[c].op = i
      BY <1>k, <2>1, <3>2, <3>3 DEF Exceptions
    <3>5. Arrived("Runtime", i, x, s, own, next, e)
      BY <1>a, <1>d, <2>1, <3>2, <3>4 DEF Arrived
    <3>6. Course(m, k, "Runtime", i, x, s, own, next, e)
      BY <1>e, <3>1 DEF Course, Abrupt
    <3>. QED
      BY <1>h, <3>5, <3>6
  <2>. QED
    BY <2>2, <2>3
<1>5. CASE AddStorageValue(c)
  <2>1. Doing(c, Store) /\ Continue(c) /\ timeout' = timeout
        /\ tx' = tx /\ status' = status /\ limit' = limit /\ log' = log
    BY <1>5 DEF AddStorageValue
  <2>2. m # Without
    BY <1>j, <1>l, <2>1
  <2>3. Arrived("body", i + 1, x, s, own, next, e)
    BY <1>a, <1>d, <1>k, <2>1 DEF Arrived
  <2>. QED
    BY <1>i, <1>j, <1>k, <2>1, <2>2, <2>3
<1>6. CASE CallThrower(c)
  <2>1. PICK a \in Exceptions :
          /\ \/ Doing(c, Caught(a)) /\ Continue(c)
             \/ Doing(c, Thrown(a)) /\ Fail(c, a)
          /\ status' = [t \in Ids |-> IF t = tx[c] /\ status[t] = "active" /\ MarkedBy(m, a)
                                      THEN "marked" ELSE status[t]]
          /\ timeout' = timeout /\ tx' = tx /\ limit' = limit /\ log' = log
    BY <1>6 DEF CallThrower
  <2>2. CASE Doing(c, Caught(a)) /\ Continue(c)
    <3>1. m # Without /\ x = k /\ s \in {"active", "marked"}
      BY <1>g, <1>j, <1>k, <1>l, <2>2
    <3>2. status'[k] = IF MarkedBy(m, a) THEN "marked" ELSE s
      BY <1>d, <2>1, <3>1
    <3>3. Arrived("body", i + 1, x, IF MarkedBy(m, a) THEN "marked" ELSE s, own, next, e)
      BY <1>a, <1>d, <1>k, <2>1, <2>2, <3>2 DEF Arrived
    <3>. QED
      BY <1>i, <1>j, <1>k, <2>2, <3>1, <3>3
  <2>3. CASE Doing(c, Thrown(a)) /\ Fail(c, a)
    <3>1. /\ m[1] = "cdi" /\ i = Len(Body(m)) /\ ~Guarded(m, Thrown(a))
          /\ op = Thrown(a) /\ Ordered(m)
      BY <1>k, <2>3 DEF Ordered, Thrown
    <3>2. Began(m, i) /\ ~Marked(m, i)
      BY <1>k, <2>3, <3>1 DEF Began, Marked, MarkedBy, Ordered, Did
    <3>3. x = k /\ s = "active" /\ status'[k] = s
      BY <1>d, <1>g, <1>k, <2>1, <2>3, <3>1, <3>2 DEF MarkedBy
    <3>4. at'[c].phase = a /\ at'[c].op = i
      BY <1>k, <2>3, <3>1
    <3>5. Arrived(a, i, x, s, own, next, e)
      BY <1>a, <1>d, <2>1, <3>3, <3>4 DEF Arrived
    <3>6. Did(m, i + 1, Thrown(a))
      BY <1>d, <1>k, <2>3, DidNext
    <3>7. Course(m, k, a, i, x, s, own, next, e)
      BY <1>e, <3>1, <3>3, <3>6 DEF Course, Abrupt
    <3>. QED
      BY <1>h, <3>5, <3>7
  <2>. QED
    BY <2>1, <2>2, <2>3
<1>7. CASE UtxSetRollbackOnly(c)
  <2>1. Doing(c, MarkRollback) /\ timeout' = timeout /\ tx' = tx /\ limit' = limit /\ log' = log
    BY <1>7 DEF UtxSetRollbackOnly
  <2>2. m # Without /\ x = k /\ s = "marked"
    BY <1>g, <1>j, <1>k, <1>l, <2>1 DEF Ordered
  <2>3. Continue(c) /\ status' = [status EXCEPT ![k] = "marked"]
    BY <1>7, <1>d, <2>2 DEF UtxSetRollbackOnly, StatusOf
  <2>4. Arrived("body", i + 1, x, "marked", own, next, e)
    BY <1>a, <1>d, <1>k, <2>1, <2>3 DEF Arrived
  <2>. QED
    BY <1>i, <1>j, <1>k, <2>1, <2>2, <2>4
<1>8. CASE UtxCommit(c)
  <2>1. /\ Doing(c, Commit) /\ timeout' = timeout /\ limit' = limit /\ log' = log
        /\ status' = [t \in Ids |-> IF t # tx[c] THEN status[t]
                                    ELSE IF status[t] = "active" THEN "committed" ELSE "aborted"]
        /\ tx' = [tx EXCEPT ![c] = 0]
    BY <1>8 DEF UtxCommit
  <2>2. m # Without /\ x = k /\ x # 0
    BY <1>d, <1>g, <1>j, <1>k, <1>l, <2>1
  <2>3. CASE m[1] = "bmt"
    <3>1. s = "marked" /\ Guarded(m, Commit)
      BY <1>g, <1>j, <1>k, <1>l, <2>1, <2>3 DEF Ordered, Early
    <3>2. Fail(c, "Application")
      BY <1>8, <2>2, <3>1 DEF UtxCommit, StatusOf
    <3>3. at'[c].phase = "rollback" /\ at'[c].op = i
      BY <1>k, <2>1, <3>1, <3>2 DEF Exceptions
    <3>4. status'[k] = "aborted" /\ tx'[c] = 0
      BY <1>a, <1>d, <2>1, <2>2, <3>1
    <3>5. Arrived("rollback", i, 0, "aborted", own, next, e)
      BY <2>1, <3>3, <3>4 DEF Arrived
    <3>6. Did(m, i + 1, Commit)
      BY <1>d, <1>k, <2>1, DidNext
    <3>7. Course(m, k, "rollback", i, 0, "aborted", own, next, e)
      BY <1>e, <2>3, <3>6 DEF Course, Abrupt
    <3>. QED
      BY <1>h, <3>5, <3>7
  <2>4. CASE m[1] # "bmt"
    <3>1. s = "active" /\ m = Early
      BY <1>g, <1>j, <1>k, <1>l, <2>1, <2>4 DEF Ordered
    <3>2. Continue(c)
      BY <1>8, <2>2, <3>1 DEF UtxCommit, StatusOf
    <3>3. status'[k] = "committed" /\ tx'[c] = 0
      BY <1>a, <1>d, <2>1, <2>2, <3>1
    <3>4. Arrived("body", i + 1, 0, "committed", own, next, e)
      BY <1>k, <2>1, <3>2, <3>3 DEF Arrived
    <3>. QED
      BY <1>i, <1>j, <1>k, <2>1, <2>2, <3>1, <3>4
  <2>. QED
    BY <2>3, <2>4
<1>9. CASE UtxRollback(c)
  <2>1. at[c].phase = "rollback"
    BY <1>9 DEF UtxRollback
  <2>2. m[1] = "bmt" /\ x = 0 /\ s = "aborted" /\ Did(m, i + 1, Commit)
    BY <1>e, <2>1 DEF Course, Onward, Abrupt, Exceptions
  <2>3. /\ at' = [at EXCEPT ![c].phase = "Runtime"]
        /\ tx' = [tx EXCEPT ![c] = 0] /\ timeout' = timeout /\ limit' = limit /\ log' = log
        /\ status' = [t \in Ids |-> IF t = 0 THEN "aborted" ELSE status[t]]
    BY <1>9, <2>2 DEF UtxRollback
  <2>4. Arrived("Runtime", i, 0, "aborted", own, next, e)
    BY <1>a, <1>d, <2>2, <2>3 DEF Arrived, Positions
  <2>5. Course(m, k, "Runtime", i, 0, "aborted", own, next, e)
    BY <1>e, <2>2 DEF Course, Abrupt
  <2>. QED
    BY <1>h, <2>4, <2>5
<1>10. CASE InterceptorExit(c)
  <2>1. /\ at[c].phase = "body" /\ i > Len(Body(m)) /\ at' = [at EXCEPT ![c].phase = "returning"]
        /\ tx' = tx /\ timeout' = timeout /\ limit' = limit /\ log' = log /\ status' = status
    BY <1>10 DEF InterceptorExit
  <2>2. Arrived("returning", i, x, s, own, next, e)
    BY <1>a, <2>1 DEF Arrived, Positions
  <2>3. Onward(m, k, "body", i, x, s)
    BY <1>e, <2>1 DEF Course, Abrupt, Exceptions
  <2>4. m # Without
    BY <2>1, <2>3, NeverBegun DEF Onward
  <2>5. Course(m, k, "returning", i, x, s, own, next, e)
    BY <1>e, <2>1, <2>3, <2>4 DEF Course, Onward
  <2>. QED
    BY <1>h, <2>2, <2>5
<1>. QED
  BY <1>1, <1>2, <1>3, <1>4, <1>5, <1>6, <1>7, <1>8, <1>9, <1>10 DEF Step

(* The same for setTimeoutCorrect.                                         *)
LEMMA LateStep ==
  ASSUME BeansInv, CourseInv, NEW c \in Callers, Step(c), ~Complete(c), MethodOf(c) = Late
  PROVE  CourseOf(c)'
<1>. DEFINE k == call[c]
            i == at[c].op
            x == tx[c]
            s == status[k]
            own == limit[k]
            next == timeout[c]
            e == log[k].entity
<1>a. /\ call \in [Callers -> 0..MaxCalls]
      /\ at \in [Callers -> Positions] /\ log \in [Ids -> Entries]
      /\ tx \in [Callers -> 0..MaxCalls]
      /\ timeout \in [Callers -> {"default", "short"}]
      /\ status \in [Ids -> Statuses] /\ limit \in [Ids -> {"default", "short"}]
  BY TypeParts DEF TypeOK, BeansInv
<1>b. TypeOK /\ CallInv
  BY DEF BeansInv
<1>c. at[c].phase # "idle"
  BY DEF Step, UtxBegin, UtxSetTransactionTimeout, ThreadSleep, EmPersist, AddStorageValue,
         CallThrower, UtxSetRollbackOnly, UtxCommit, UtxRollback, InterceptorExit, Doing
<1>d. k \in Ids /\ k # 0 /\ Late \in Methods /\ log[k].m = Late
  BY <1>b, <1>c, Flat DEF CallInv, Ids, MethodOf
<1>e. LateCourse(k, at[c].phase, i, x, s, own, next, e)
  BY <1>d DEF CourseInv, CourseOf
<1>f. call'[c] = k /\ log'[k].m = Late
  <2>1. call' = call
    BY DEF Step, UtxBegin, UtxSetTransactionTimeout, ThreadSleep, EmPersist, AddStorageValue,
           CallThrower, UtxSetRollbackOnly, UtxCommit, UtxRollback, InterceptorExit, calling
  <2>2. log' = log \/ log' = [log EXCEPT ![k].entity = tx[c]]
    BY DEF Step, UtxBegin, UtxSetTransactionTimeout, ThreadSleep, EmPersist, AddStorageValue,
           CallThrower, UtxSetRollbackOnly, UtxCommit, UtxRollback, InterceptorExit, calling
  <2>3. log'[k].m = log[k].m
    BY <1>a, <1>d, <2>2 DEF Entries
  <2>. QED
    BY <1>d, <2>1, <2>3
<1>g. ASSUME LateCourse(k, at'[c].phase, at'[c].op, tx'[c], status'[k], limit'[k], timeout'[c],
                        log'[k].entity)
      PROVE  CourseOf(c)'
  <2>1. MethodOf(c)' = Late
    BY <1>f DEF MethodOf
  <2>. QED
    BY <1>f, <1>g, <2>1 DEF CourseOf
<1>h. /\ Len(Body(Late)) = 6
      /\ Body(Late)[1] = SetTimeout /\ Body(Late)[2] = Begin
      /\ Body(Late)[3] = Sleep /\ Body(Late)[4] = Persist
  BY DEF Late, Body, Bean, StatelessBmtBean
<1>i. \A o \in Ops \ {SetTimeout, Begin, Sleep, Persist} : ~Doing(c, o)
  <2>1. at[c].phase = "body" /\ i <= 6 => i \in 1..4
    BY <1>a, <1>e DEF LateCourse, MaxBody, Positions
  <2>2. i \in 1..4 => Body(Late)[i] \in {SetTimeout, Begin, Sleep, Persist}
    BY <1>h
  <2>. QED
    BY <1>h, <2>1, <2>2 DEF Doing
<1>j. /\ ~AddStorageValue(c) /\ ~CallThrower(c) /\ ~UtxSetRollbackOnly(c) /\ ~UtxCommit(c)
  <2>1. /\ {Store, MarkRollback, Commit} \subseteq Ops \ {SetTimeout, Begin, Sleep, Persist}
        /\ \A a \in Exceptions : Caught(a) \in Ops \ {SetTimeout, Begin, Sleep, Persist}
        /\ \A a \in Exceptions : Thrown(a) \in Ops \ {SetTimeout, Begin, Sleep, Persist}
    BY DEF Ops, Store, MarkRollback, Commit, SetTimeout, Begin, Sleep, Persist, Do, Caught, Thrown
  <2>. QED
    BY <1>i, <2>1 DEF AddStorageValue, CallThrower, UtxSetRollbackOnly, UtxCommit
<1>k. ASSUME NEW o, Doing(c, o)
      PROVE  /\ at[c].phase = "body" /\ i \in 1..6 /\ Body(Late)[i] = o
             /\ Continue(c) => /\ at'[c].phase = "body" /\ at'[c].op = i + 1
             /\ Fail(c, "Runtime") => at'[c].phase = "rollback"
  <2>1. at[c].phase = "body" /\ i \in 1..6 /\ Body(Late)[i] = o
    BY <1>b, <1>h, <1>k, DoingFacts
  <2>2. Continue(c) => /\ at'[c].phase = "body" /\ at'[c].op = i + 1
    BY <1>b, <1>k, Continued
  <2>3. Fail(c, "Runtime") => at'[c].phase = "rollback"
    BY <1>a DEF Fail, Guarded, Late, Positions
  <2>. QED
    BY <2>1, <2>2, <2>3
<1>l. /\ SetTimeout \notin {Begin, Sleep, Persist} /\ Begin \notin {Sleep, Persist}
      /\ Sleep # Persist
  BY DEF SetTimeout, Begin, Sleep, Persist, Do
<1>. USE DEF calling, manager, bean, record
<1>1. CASE UtxSetTransactionTimeout(c)
  <2>1. Doing(c, SetTimeout) /\ Continue(c) /\ timeout' = [timeout EXCEPT ![c] = "short"]
        /\ tx' = tx /\ status' = status /\ limit' = limit /\ log' = log
    BY <1>1 DEF UtxSetTransactionTimeout
  <2>2. at[c].phase = "body" /\ i = 1
    BY <1>e, <1>h, <1>k, <1>l, <2>1 DEF LateCourse, MaxBody
  <2>3. x = 0 /\ s = "unused" /\ e = 0
    BY <1>e, <2>2 DEF LateCourse, MaxBody
  <2>4. at'[c].phase = "body" /\ at'[c].op = 2 /\ timeout'[c] = "short"
    BY <1>a, <1>k, <2>1, <2>2
  <2>. QED
    BY <1>g, <2>1, <2>3, <2>4 DEF LateCourse
<1>2. CASE UtxBegin(c)
  <2>1. Doing(c, Begin)
    BY <1>2 DEF UtxBegin
  <2>2. at[c].phase = "body" /\ i = 2
    BY <1>e, <1>h, <1>k, <1>l, <2>1 DEF LateCourse, MaxBody
  <2>3. x = 0 /\ s = "unused" /\ e = 0 /\ next = "short"
    BY <1>e, <2>2 DEF LateCourse, MaxBody
  <2>4. Continue(c) /\ tx' = [tx EXCEPT ![c] = k]
        /\ status' = [status EXCEPT ![k] = "active"] /\ limit' = [limit EXCEPT ![k] = next]
        /\ log' = log
    BY <1>2, <2>3 DEF UtxBegin
  <2>5. at'[c].phase = "body" /\ at'[c].op = 3 /\ tx'[c] = k /\ status'[k] = "active"
        /\ limit'[k] = "short"
    BY <1>a, <1>d, <1>k, <2>1, <2>2, <2>3, <2>4
  <2>. QED
    BY <1>g, <2>3, <2>4, <2>5 DEF LateCourse
<1>3. CASE ThreadSleep(c)
  <2>1. Doing(c, Sleep) /\ Continue(c) /\ timeout' = timeout
        /\ tx' = tx /\ status' = status /\ limit' = limit /\ log' = log
        /\ (x # 0 /\ limit[x] = "short" => status[x] = "aborted")
    BY <1>3 DEF ThreadSleep
  <2>2. at[c].phase = "body" /\ i = 3
    BY <1>e, <1>h, <1>k, <1>l, <2>1 DEF LateCourse, MaxBody
  <2>3. x = k /\ own = "short" /\ e = 0
    BY <1>e, <2>2 DEF LateCourse, MaxBody
  <2>4. at'[c].phase = "body" /\ at'[c].op = 4 /\ s = "aborted"
    BY <1>d, <1>k, <2>1, <2>2, <2>3
  <2>. QED
    BY <1>g, <2>1, <2>3, <2>4 DEF LateCourse
<1>4. CASE EmPersist(c)
  <2>1. Doing(c, Persist) /\ timeout' = timeout /\ tx' = tx /\ status' = status /\ limit' = limit
    BY <1>4 DEF EmPersist
  <2>2. at[c].phase = "body" /\ i = 4
    BY <1>e, <1>h, <1>k, <1>l, <2>1 DEF LateCourse, MaxBody
  <2>3. x = k /\ s = "aborted" /\ e = 0
    BY <1>e, <2>2 DEF LateCourse, MaxBody
  <2>4. Fail(c, "Runtime") /\ log' = log
    BY <1>4, <1>d, <2>3 DEF EmPersist, StatusOf
  <2>5. at'[c].phase = "rollback"
    BY <1>k, <2>1, <2>4
  <2>. QED
    BY <1>g, <2>1, <2>3, <2>4, <2>5 DEF LateCourse
<1>5. CASE UtxRollback(c)
  <2>1. at[c].phase = "rollback"
    BY <1>5 DEF UtxRollback
  <2>2. x = k /\ s = "aborted" /\ e = 0
    BY <1>e, <2>1 DEF LateCourse
  <2>3. /\ at' = [at EXCEPT ![c] = [phase |-> "body", op |-> MaxBody + 1]]
        /\ tx' = [tx EXCEPT ![c] = 0] /\ log' = log
        /\ status' = [t \in Ids |-> IF t = k THEN "aborted" ELSE status[t]]
    BY <1>5, <1>d, <2>2 DEF UtxRollback
  <2>4. at'[c].phase = "body" /\ at'[c].op = MaxBody + 1 /\ tx'[c] = 0 /\ status'[k] = "aborted"
    BY <1>a, <1>d, <2>3
  <2>. QED
    BY <1>g, <2>2, <2>3, <2>4 DEF LateCourse
<1>6. CASE InterceptorExit(c)
  <2>1. /\ at[c].phase = "body" /\ i > 6 /\ at' = [at EXCEPT ![c].phase = "returning"]
        /\ tx' = tx /\ log' = log /\ status' = status
    BY <1>6, <1>h DEF InterceptorExit
  <2>2. x = 0 /\ s = "aborted" /\ e = 0
    BY <1>e, <2>1 DEF LateCourse
  <2>3. at'[c].phase = "returning"
    BY <1>a, <2>1 DEF Positions
  <2>. QED
    BY <1>g, <2>1, <2>2, <2>3 DEF LateCourse
<1>. QED
  BY <1>1, <1>2, <1>3, <1>4, <1>5, <1>6, <1>j DEF Step

-----------------------------------------------------------------------------
(* What the tests assert of each method, by what it has done               *)

(* With the whole body done.                                               *)
LEMMA Verdicts ==
  ASSUME NEW m \in Methods, m[1] # "stateful", m # Late, NEW i \in Nat, i > Len(Body(m))
  PROVE  /\ m[1] = "ejb" => /\ Did(m, i, Persist)
                            /\ Marked(m, i) <=> m \notin EntityFound
                            /\ m \notin CallThrows
         /\ m[1] = "cdi" /\ (\A a \in Exceptions : ~Did(m, i, Thrown(a))) =>
              /\ Did(m, i, Persist)
              /\ m \in EntityFound \union Ignored /\ m \notin CallThrows
         /\ m[1] = "bmt" /\ ~Did(m, i, Commit) => Marked(m, i) /\ Began(m, i)
         /\ m[1] \in {"stateless", "singleton"} /\ m # Early /\ m # Without =>
              /\ Began(m, i) /\ ~Did(m, i, Commit) /\ m \in CallThrows /\ m \notin EntityFound
         /\ m = Early => Began(m, i) /\ Did(m, i, Persist) /\ Did(m, i, Commit)
<1>1. PICK b \in DOMAIN Bean : \E n \in DOMAIN Bean[b] : m = <<b, n>> /\ Body(m) = Bean[b][n]
  BY MethodCases
<1>2. PICK n \in DOMAIN Bean[b] : m = <<b, n>> /\ Body(m) = Bean[b][n]
  BY <1>1
<1>. DEFINE s == Body(m)
<1>3. \A op : Did(m, i, op) <=> \E j \in 1..Len(s) : s[j] = op
  <2>1. Len(s) \in Nat
    BY BodyShape DEF ShapeOf, MaxBody
  <2>. QED
    BY <2>1 DEF Did
<1>4. CASE b = "ejb"
  <2>1. /\ m \in EntityFound <=> n \in {"doNotRollback", "doCommitApplicationException",
                                        "doCommitRuntimeException"}
        /\ m \notin CallThrows
    BY <1>2, <1>4 DEF EntityFound, CallThrows
  <2>2. /\ s[1] = Persist /\ Len(s) \in {1, 2}
        /\ n = "doNotRollback" => Len(s) = 1
        /\ n = "doCommitApplicationException" => s[2] = Caught("Application")
        /\ n = "doCommitRuntimeException" => s[2] = Caught("RuntimeNoRollback")
        /\ n = "doRollbackRuntimeException" => Len(s) = 2 /\ s[2] = Caught("Runtime")
        /\ n = "doRollbackApplicationException" =>
             Len(s) = 2 /\ s[2] = Caught("ApplicationRollback")
        /\ n \in DOMAIN ExceptionWorkerEjbBean
    BY <1>2, <1>4 DEF Bean, ExceptionWorkerEjbBean
  <2>3. n \in {"doNotRollback", "doCommitApplicationException", "doCommitRuntimeException",
               "doRollbackRuntimeException", "doRollbackApplicationException"}
    BY <2>2 DEF ExceptionWorkerEjbBean
  <2>4. Did(m, i, Persist)
    BY <1>3, <2>2
  <2>5. Marked(m, i) <=> Len(s) = 2 /\ s[2] \in {Caught("Runtime"), Caught("ApplicationRollback")}
    <3>. HIDE DEF s
    <3>1. \A op : Did(m, i, op) <=> op = s[1] \/ (Len(s) = 2 /\ op = s[2])
      BY <1>3, <2>2
    <3>2. s[1] # MarkRollback /\ (Len(s) = 2 => s[2] # MarkRollback)
      BY <2>2, <2>3 DEF Persist, MarkRollback, Caught, Do
    <3>3. \A e \in Exceptions : s[1] # Caught(e)
      BY <2>2 DEF Persist, Caught, Do
    <3>4. Marked(m, i) <=> \E e \in {"Runtime", "ApplicationRollback"} : Did(m, i, Caught(e))
      BY <1>2, <1>4, <3>1, <3>2 DEF Marked, MarkedBy, Exceptions
    <3>. QED
      BY <3>1, <3>3, <3>4 DEF Exceptions
  <2>. QED
    BY <1>2, <1>4, <2>1, <2>2, <2>3, <2>4, <2>5 DEF Caught, Early
<1>5. CASE b = "cdi"
  <2>1. /\ m \in EntityFound \union Ignored <=> n # "doRollbackRuntimeExceptionThrownToApp"
        /\ m \in CallThrows <=> n \in {"doRollbackRuntimeExceptionThrownToApp",
                                       "doRollbackApplicationExceptionThrowToApp"}
    BY <1>2, <1>5 DEF EntityFound, CallThrows, Ignored, Bean, ExceptionWorkerCdiBean
  <2>2. /\ s[1] = Persist /\ Len(s) \in Nat \ {0}
        /\ n = "doRollbackRuntimeExceptionThrownToApp" =>
             Len(s) = 3 /\ s[3] = Thrown("Runtime")
        /\ n = "doRollbackApplicationExceptionThrowToApp" =>
             Len(s) = 3 /\ s[3] = Thrown("ApplicationRollback")
    BY <1>2, <1>5 DEF Bean, ExceptionWorkerCdiBean
  <2>3. Did(m, i, Persist)
    BY <1>3, <2>2
  <2>4. n = "doRollbackRuntimeExceptionThrownToApp" => Did(m, i, Thrown("Runtime"))
    BY <1>3, <2>2
  <2>5. n = "doRollbackApplicationExceptionThrowToApp" => Did(m, i, Thrown("ApplicationRollback"))
    BY <1>3, <2>2
  <2>. QED
    BY <1>2, <1>5, <2>1, <2>3, <2>4, <2>5 DEF Exceptions, Early
<1>6. CASE b = "bmt"
  <2>1. /\ Len(s) \in Nat \ {0} /\ s[1] = Begin
        /\ Len(s) >= 4 /\ s[4] = Caught("Runtime")
    BY <1>2, <1>6 DEF Bean, ExceptionWorkerBmtEjbBean
  <2>2. Did(m, i, Begin) /\ Did(m, i, Caught("Runtime"))
    BY <1>3, <2>1
  <2>. QED
    BY <1>2, <1>6, <2>2 DEF Began, Marked, MarkedBy, Exceptions, Early
<1>7. CASE b \in {"stateless", "singleton"}
  <2>e. ASSUME m = Early
        PROVE  Began(m, i) /\ Did(m, i, Persist) /\ Did(m, i, Commit)
    <3>1. s = <<Begin, SetTimeout, Sleep, Persist, Store, Commit>>
      BY <2>e DEF Early, Bean, StatelessBmtBean, Body
    <3>2. s[1] = Begin /\ s[4] = Persist /\ s[6] = Commit /\ Len(s) = 6
      BY <3>1
    <3>. QED
      BY <1>3, <3>2 DEF Began
  <2>. SUFFICES ASSUME m # Early, m # Without
                PROVE  /\ Began(m, i) /\ ~Did(m, i, Commit)
                       /\ m \in CallThrows /\ m \notin EntityFound
    BY <1>2, <1>7, <2>e
  <2>1. n = "beginTransaction" /\ s = <<Begin, Persist, Store>>
    <3>1. CASE b = "stateless"
      BY <1>2, <3>1 DEF Bean, StatelessBmtBean, Late, Early, Without
    <3>2. CASE b = "singleton"
      BY <1>2, <3>2 DEF Bean, SingletonBmtBean
    <3>. QED
      BY <1>7, <3>1, <3>2
  <2>2. m \in CallThrows /\ m \notin EntityFound
    BY <1>2, <1>7, <2>1 DEF CallThrows, EntityFound
  <2>3. Commit \notin {Begin, Persist, Store}
    BY DEF Commit, Begin, Persist, Store, Do
  <2>4. Did(m, i, Begin) /\ ~Did(m, i, Commit)
    BY <1>3, <2>1, <2>3
  <2>. QED
    BY <2>2, <2>4 DEF Began
<1>8. CASE b = "stateful"
  BY <1>2, <1>8
<1>. QED
  BY <1>4, <1>5, <1>6, <1>7, <1>8 DEF Bean

(* With an exception thrown to the test, or outside these.                 *)
LEMMA OtherVerdicts ==
  ASSUME NEW m \in Methods
  PROVE  /\ m[1] = "cdi" => \A a \in Exceptions :
              Did(m, Len(Body(m)) + 1, Thrown(a)) =>
                /\ m \in CallThrows
                /\ m \in EntityFound <=> ~CdiRollsBack(m, a)
                /\ Did(m, Len(Body(m)), Persist)
         /\ m[1] = "bmt" => m \in CallThrows /\ m \notin EntityFound
         /\ Without \in CallThrows /\ Without \notin EntityFound
         /\ Early \notin CallThrows /\ Early \in EntityFound
         /\ Late \notin CallThrows /\ Late \notin EntityFound
         /\ Early[1] = "stateless" /\ Late[1] = "stateless" /\ Without[1] = "stateless"
         /\ {Early, Late, Without} \cap Ignored = {}
<1>1. m[1] = "bmt" => m \in CallThrows /\ m \notin EntityFound
  BY DEF CallThrows, EntityFound
<1>2. /\ Without \in CallThrows /\ Without \notin EntityFound
      /\ Early \notin CallThrows /\ Early \in EntityFound
      /\ Late \notin CallThrows /\ Late \notin EntityFound
      /\ Early[1] = "stateless" /\ Late[1] = "stateless" /\ Without[1] = "stateless"
      /\ {Early, Late, Without} \cap Ignored = {}
  BY DEF CallThrows, EntityFound, Without, Early, Late, Ignored
<1>3. ASSUME m[1] = "cdi", NEW a \in Exceptions, Did(m, Len(Body(m)) + 1, Thrown(a))
      PROVE  /\ m \in CallThrows
             /\ m \in EntityFound <=> ~CdiRollsBack(m, a)
             /\ Did(m, Len(Body(m)), Persist)
  <2>1. PICK b \in DOMAIN Bean : \E n \in DOMAIN Bean[b] : m = <<b, n>> /\ Body(m) = Bean[b][n]
    BY MethodCases
  <2>2. PICK n \in DOMAIN ExceptionWorkerCdiBean :
          m = <<"cdi", n>> /\ Body(m) = ExceptionWorkerCdiBean[n]
    BY <1>3, <2>1 DEF Bean
  <2>. DEFINE s == Body(m)
  <2>3. PICK j \in 1..Len(s) : s[j] = Thrown(a)
    BY <1>3 DEF Did
  <2>4. \/ n = "doRollbackRuntimeExceptionThrownToApp" /\ s = <<Persist, Store, Thrown("Runtime")>>
        \/ n = "doRollbackApplicationExceptionThrowToApp"
             /\ s = <<Persist, Store, Thrown("ApplicationRollback")>>
        \/ s = <<Persist>> \/ \E e \in Exceptions : s = <<Persist, Caught(e)>>
    BY <2>2 DEF ExceptionWorkerCdiBean, Exceptions
  <2>5. Thrown(a) \notin {Persist, Store} /\ \A e \in Exceptions : Thrown(a) # Caught(e)
    BY DEF Thrown, Persist, Store, Caught, Do
  <2>6. \/ n = "doRollbackRuntimeExceptionThrownToApp" /\ s = <<Persist, Store, Thrown("Runtime")>>
        \/ n = "doRollbackApplicationExceptionThrowToApp"
             /\ s = <<Persist, Store, Thrown("ApplicationRollback")>>
    <3>1. s # <<Persist>>
      BY <2>3, <2>5
    <3>2. ASSUME NEW e \in Exceptions, s = <<Persist, Caught(e)>> PROVE FALSE
      <4>1. Len(s) = 2 /\ s[1] = Persist /\ s[2] = Caught(e)
        BY <3>2
      <4>2. s[j] \in {Persist, Caught(e)}
        BY <2>3, <4>1
      <4>. QED
        BY <2>3, <2>5, <4>2
    <3>. QED
      BY <2>4, <3>1, <3>2
  <2>7. Len(s) = 3 /\ s[1] = Persist /\ s[2] = Store /\ Did(m, Len(s), Persist)
    BY <2>6 DEF Did
  <2>8. CASE n = "doRollbackRuntimeExceptionThrownToApp"
    <3>1. a = "Runtime"
      <4>1. s[3] = Thrown("Runtime")
        BY <2>6, <2>8
      <4>2. Thrown(a) = Thrown("Runtime")
        BY <2>3, <2>5, <2>7, <4>1
      <4>. QED
        BY <4>2 DEF Thrown
    <3>2. CdiRollsBack(m, a)
      BY <2>2, <2>8, <3>1 DEF CdiRollsBack, RuntimeExceptions
    <3>3. m \in CallThrows /\ m \notin EntityFound
      BY <2>2, <2>8 DEF CallThrows, EntityFound
    <3>. QED
      BY <2>7, <3>2, <3>3
  <2>9. CASE n = "doRollbackApplicationExceptionThrowToApp"
    <3>1. a = "ApplicationRollback"
      <4>1. s[3] = Thrown("ApplicationRollback")
        BY <2>6, <2>9
      <4>2. Thrown(a) = Thrown("ApplicationRollback")
        BY <2>3, <2>5, <2>7, <4>1
      <4>. QED
        BY <4>2 DEF Thrown
    <3>2. ~CdiRollsBack(m, a)
      BY <2>2, <2>9, <3>1 DEF CdiRollsBack, RuntimeExceptions
    <3>3. m \in CallThrows /\ m \in EntityFound
      BY <2>2, <2>9 DEF CallThrows, EntityFound
    <3>. QED
      BY <2>7, <3>2, <3>3
  <2>. QED
    BY <2>6, <2>8, <2>9
<1>. QED
  BY <1>1, <1>2, <1>3

(* A call that ends has come to what its test asserts.                     *)
LEMMA CompletePast ==
  ASSUME BeansInv, CourseInv, NEW c \in Callers, Complete(c), NEW k, k = call[c]
  PROVE  Past(k)' /\ k \in Ids /\ k <= calls
<1>. DEFINE m == MethodOf(c)
            i == at[c].op
            p == at[c].phase
            x == tx[c]
            s == status[k]
            e == log[k].entity
<1>a. /\ call \in [Callers -> 0..MaxCalls]
      /\ at \in [Callers -> Positions] /\ log \in [Ids -> Entries]
      /\ tx \in [Callers -> 0..MaxCalls] /\ status \in [Ids -> Statuses]
  BY TypeParts DEF TypeOK, BeansInv
<1>b. p \in Exceptions \union {"returning"} /\ p # "idle" /\ p # "body" /\ p # "rollback"
  BY DEF Complete, Exceptions
<1>c. k \in Ids /\ k # 0 /\ k <= calls /\ m \in Methods /\ m = log[k].m
  BY <1>b, Flat DEF BeansInv, CallInv, Ids, MethodOf
<1>d. /\ log'[k].m = m /\ log'[k].entity = e /\ log'[k].result = CallResult(m, p, StatusOf(x))
      /\ status'[k] = IF k = x THEN FinalStatus(m, p, StatusOf(x)) ELSE s
  <2>1. /\ log' = [log EXCEPT ![k].result = CallResult(m, p, StatusOf(x))]
        /\ status' = [t \in Ids |-> IF t = x THEN FinalStatus(m, p, StatusOf(x)) ELSE status[t]]
    BY DEF Complete
  <2>2. CallResult(m, p, StatusOf(x)) \in {"returned", "threw"}
    BY DEF CallResult
  <2>. QED
    BY <1>a, <1>c, <2>1, <2>2, Resulted
<1>e. SUFFICES ASSUME m[1] # "stateful"
      PROVE  LET r == CallResult(m, p, StatusOf(x))
                 s1 == IF k = x THEN FinalStatus(m, p, StatusOf(x)) ELSE s
             IN  /\ e \in {0, k}
                 /\ e = k => s1 \in {"committed", "aborted"}
                 /\ m \notin Ignored => /\ e = k /\ s1 = "committed" <=> m \in EntityFound
                                        /\ r = "threw" <=> m \in CallThrows
  <2>. DEFINE r == CallResult(m, p, StatusOf(x))
              s1 == IF k = x THEN FinalStatus(m, p, StatusOf(x)) ELSE s
  <2>. SUFFICES ASSUME m[1] # "stateful" =>
                         /\ e \in {0, k}
                         /\ e = k => s1 \in {"committed", "aborted"}
                         /\ m \notin Ignored => /\ e = k /\ s1 = "committed" <=> m \in EntityFound
                                                /\ r = "threw" <=> m \in CallThrows
                PROVE  Past(k)'
    BY <1>c
  <2>1. /\ log'[k].m = m /\ log'[k].entity = e /\ log'[k].result = r /\ status'[k] = s1
    BY <1>d
  <2>. HIDE DEF m, e, r, s1
  <2>. QED
    BY <2>1 DEF Past
<1>f. StatusOf(0) = "unused" /\ (x = k => StatusOf(x) = s)
  BY <1>c DEF StatusOf
<1>g. i \in Nat
  BY <1>a DEF Positions
<1>h. CASE m = Late
  <2>1. p = "returning" /\ x = 0 /\ s = "aborted" /\ e = 0
    BY <1>b, <1>c, <1>h DEF CourseInv, CourseOf, LateCourse, Exceptions
  <2>2. CallResult(m, p, StatusOf(x)) = "returned"
    BY <1>f, <1>h, <2>1, OtherVerdicts DEF CallResult, Exceptions
  <2>. QED
    BY <1>c, <1>h, <2>1, <2>2, OtherVerdicts
<1>i. CASE m # Late
  <2>1. Course(m, k, p, i, x, s, limit[k], timeout[c], e)
    BY <1>c, <1>e, <1>i DEF CourseInv, CourseOf
  <2>2. e = IF Did(m, i, Persist) THEN k ELSE 0
    BY <2>1 DEF Course
  <2>3. Ordered(m)
    BY <1>c, <1>e, <1>i, Order
  <2>4. m[1] \in {"ejb", "cdi", "bmt", "stateless", "singleton"}
    BY <1>c, <1>e, MethodCases DEF Bean
  <2>5. CASE Onward(m, k, p, i, x, s)
    <3>1. /\ p = "returning" /\ i > Len(Body(m)) /\ x = TxAfter(m, k, i) /\ s = StatusAfter(m, i)
          /\ Did(m, i, Commit) => m = Early
          /\ \A a \in Exceptions : ~Did(m, i, Thrown(a))
          /\ m # Without
      BY <1>b, <2>5 DEF Onward
    <3>2. CASE m[1] = "ejb"
      <4>1. Began(m, i) /\ ~Did(m, i, Commit) /\ Did(m, i, Persist)
        BY <1>c, <1>e, <1>g, <1>i, <3>1, <3>2, Verdicts, OtherVerdicts DEF Began
      <4>2. x = k /\ s = IF Marked(m, i) THEN "marked" ELSE "active"
        BY <3>1, <4>1 DEF TxAfter, StatusAfter
      <4>3. Marked(m, i) <=> m \notin EntityFound
        BY <1>c, <1>e, <1>g, <1>i, <3>1, <3>2, Verdicts
      <4>4. CallResult(m, p, s) = "returned" /\ m \notin CallThrows
        BY <1>c, <1>e, <1>g, <1>i, <3>1, <3>2, <4>2, Verdicts DEF CallResult, Exceptions
      <4>5. FinalStatus(m, p, s) = IF m \in EntityFound THEN "committed" ELSE "aborted"
        BY <3>2, <4>2, <4>3 DEF FinalStatus
      <4>. QED
        BY <1>c, <1>f, <2>2, <4>1, <4>2, <4>4, <4>5
    <3>3. CASE m[1] = "cdi"
      <4>1. Began(m, i) /\ ~Did(m, i, Commit) /\ Did(m, i, Persist)
        BY <1>c, <1>e, <1>g, <1>i, <3>1, <3>3, Verdicts, OtherVerdicts DEF Began
      <4>2. ~Marked(m, i)
        BY <2>3, <3>3 DEF Marked, MarkedBy, Ordered, Did
      <4>3. x = k /\ s = "active"
        BY <3>1, <4>1, <4>2 DEF TxAfter, StatusAfter
      <4>4. CallResult(m, p, s) = "returned"
        BY <3>1, <3>3, <4>3 DEF CallResult, Exceptions
      <4>5. FinalStatus(m, p, s) = "committed"
        BY <3>1, <3>3, <4>3 DEF FinalStatus, CdiRollsBack, RuntimeExceptions
      <4>6. m \in EntityFound \union Ignored /\ m \notin CallThrows
        BY <1>c, <1>e, <1>g, <1>i, <3>1, <3>3, Verdicts
      <4>. QED
        BY <1>c, <1>f, <2>2, <4>1, <4>3, <4>4, <4>5, <4>6
    <3>4. CASE m[1] = "bmt"
      <4>1. ~Did(m, i, Commit) /\ Marked(m, i) /\ Began(m, i)
        BY <1>c, <1>e, <1>g, <1>i, <3>1, <3>4, Verdicts, OtherVerdicts
      <4>2. x = k /\ s = "marked"
        BY <3>1, <4>1 DEF TxAfter, StatusAfter
      <4>3. CallResult(m, p, s) = "threw" /\ FinalStatus(m, p, s) = "aborted"
        BY <3>4, <4>2 DEF CallResult, FinalStatus
      <4>. QED
        BY <1>c, <1>f, <2>2, <3>4, <4>2, <4>3, OtherVerdicts
    <3>5. CASE m[1] \in {"stateless", "singleton"} /\ m # Early
      <4>1. Began(m, i) /\ ~Did(m, i, Commit) /\ m \in CallThrows /\ m \notin EntityFound
        BY <1>c, <1>e, <1>g, <1>i, <3>1, <3>5, Verdicts
      <4>2. x = k /\ s \in {"active", "marked"}
        BY <3>1, <4>1 DEF TxAfter, StatusAfter
      <4>3. CallResult(m, p, s) = "threw" /\ FinalStatus(m, p, s) = "aborted"
        BY <3>5, <4>2 DEF CallResult, FinalStatus
      <4>. QED
        BY <1>c, <1>f, <2>2, <4>1, <4>2, <4>3
    <3>6. CASE m = Early
      <4>1. Began(m, i) /\ Did(m, i, Commit) /\ Did(m, i, Persist)
        BY <1>c, <1>e, <1>g, <1>i, <3>1, <3>6, Verdicts
      <4>2. x = 0 /\ s = "committed"
        BY <3>1, <4>1 DEF TxAfter, StatusAfter
      <4>3. CallResult(m, p, StatusOf(x)) = "returned"
        BY <1>f, <3>1, <3>6, <4>2, OtherVerdicts DEF CallResult, Exceptions
      <4>. QED
        BY <1>c, <2>2, <3>6, <4>1, <4>2, <4>3, OtherVerdicts
    <3>. QED
      BY <2>4, <3>2, <3>3, <3>4, <3>5, <3>6
  <2>6. CASE Abrupt(m, k, p, i, x, s)
    <3>1. p \in Exceptions /\ CallResult(m, p, StatusOf(x)) = "threw"
      BY <1>b, <2>6 DEF Abrupt, CallResult, Exceptions
    <3>2. CASE m[1] = "bmt" /\ x = 0 /\ s = "aborted"
      BY <1>c, <2>2, <3>1, <3>2, OtherVerdicts
    <3>3. CASE m[1] = "cdi" /\ x = k /\ s = "active" /\ i = Len(Body(m)) /\ Did(m, i + 1, Thrown(p))
      <4>1. /\ m \in CallThrows
            /\ m \in EntityFound <=> ~CdiRollsBack(m, p)
            /\ Did(m, i, Persist)
        BY <1>c, <3>1, <3>3, OtherVerdicts
      <4>2. FinalStatus(m, p, s) = IF CdiRollsBack(m, p) THEN "aborted" ELSE "committed"
        BY <3>3 DEF FinalStatus
      <4>. QED
        BY <1>c, <1>f, <2>2, <3>1, <3>3, <4>1, <4>2
    <3>4. CASE m = Without /\ i = 1 /\ x = 0 /\ s = "unused"
      <4>1. ~Did(m, i, Persist)
        BY <3>4 DEF Did
      <4>. QED
        BY <1>c, <2>2, <3>1, <3>4, <4>1, OtherVerdicts
    <3>. QED
      BY <2>6, <3>2, <3>3, <3>4 DEF Abrupt
  <2>. QED
    BY <2>1, <2>5, <2>6 DEF Course
<1>. QED
  BY <1>h, <1>i

(* A call that begins is at the beginning of its course.                   *)
LEMMA InvokeCourse ==
  ASSUME BeansInv, CourseInv, NEW c \in Callers, NEW m \in Methods, Invoke(c, m),
         NEW k, k = calls + 1
  PROVE  /\ k \in Ids /\ calls' = k /\ call'[c] = k
         /\ \A j \in Ids \ {k} : log'[j] = log[j]
         /\ Past(k)'
         /\ CourseOf(c)'
<1>a. /\ call \in [Callers -> 0..MaxCalls]
      /\ at \in [Callers -> Positions] /\ log \in [Ids -> Entries]
      /\ tx \in [Callers -> 0..MaxCalls] /\ timeout \in [Callers -> {"default", "short"}]
      /\ status \in [Ids -> Statuses] /\ limit \in [Ids -> {"default", "short"}]
      /\ calls \in 0..MaxCalls
  BY TypeParts DEF TypeOK, BeansInv
<1>b. k \in Ids /\ k > calls /\ calls' = k
  BY <1>a, BeansAssumption DEF Invoke, Ids
<1>c. log[k].result = "none" /\ status[k] = "unused" /\ log[k].entity = 0
  BY <1>b DEF BeansInv, CallInv, CourseInv
<1>d. call[c] = 0 /\ timeout[c] = "default"
  BY DEF Invoke, BeansInv, CallInv, CourseInv
<1>e. /\ call' = [call EXCEPT ![c] = k]
      /\ log' = [log EXCEPT ![k].m = m]
      /\ at' = [at EXCEPT ![c] = [phase |-> "body", op |-> 1]]
      /\ timeout' = timeout
      /\ m[1] \in {"ejb", "cdi"} =>
           /\ tx' = [tx EXCEPT ![c] = k]
           /\ status' = [status EXCEPT ![k] = "active"]
           /\ limit' = [limit EXCEPT ![k] = timeout[c]]
      /\ m[1] \notin {"ejb", "cdi", "stateful"} =>
           tx' = [tx EXCEPT ![c] = 0] /\ status' = status /\ limit' = limit
  BY <1>b DEF Invoke
<1>f. /\ call'[c] = k /\ at'[c].phase = "body" /\ at'[c].op = 1 /\ timeout'[c] = "default"
      /\ m[1] \in {"ejb", "cdi"} =>
           tx'[c] = k /\ status'[k] = "active" /\ limit'[k] = "default"
      /\ m[1] \notin {"ejb", "cdi", "stateful"} => tx'[c] = 0 /\ status'[k] = "unused"
  BY <1>a, <1>b, <1>c, <1>d, <1>e
<1>g. /\ log'[k].m = m /\ log'[k].result = "none" /\ log'[k].entity = 0
      /\ \A j \in Ids \ {k} : log'[j] = log[j]
  BY <1>a, <1>b, <1>c, <1>e DEF Entries
<1>h. \A op : ~Did(m, 1, op)
  BY DEF Did
<1>i. Past(k)'
  BY <1>g DEF Past
<1>j. CourseOf(c)'
  <2>1. MethodOf(c)' = m
    BY <1>f, <1>g DEF MethodOf
  <2>2. CASE m[1] = "stateful"
    BY <2>1, <2>2 DEF CourseOf, Late
  <2>3. CASE m = Late
    <3>1. LateCourse(k, "body", 1, 0, "unused", limit'[k], "default", 0)
      BY DEF LateCourse
    <3>. QED
      BY <1>f, <1>g, <2>1, <2>3, <3>1 DEF CourseOf, Late
  <2>4. CASE m[1] # "stateful" /\ m # Late
    <3>1. ~Marked(m, 1) /\ (Began(m, 1) <=> m[1] \in {"ejb", "cdi"})
      BY <1>h DEF Marked, Began
    <3>2. Onward(m, k, "body", 1, tx'[c], status'[k])
      BY <1>f, <1>h, <2>4, <3>1 DEF Onward, TxAfter, StatusAfter
    <3>3. Course(m, k, "body", 1, tx'[c], status'[k], limit'[k], "default", 0)
      BY <1>f, <1>h, <2>4, <3>1, <3>2 DEF Course
    <3>. QED
      BY <1>f, <1>g, <2>4, <3>3, Arrives
  <2>. QED
    BY <2>2, <2>3, <2>4
<1>. QED
  BY <1>b, <1>f, <1>g, <1>i, <1>j

-----------------------------------------------------------------------------
(* The course as an invariant                                              *)

(* It holds before the first call.                                         *)
LEMMA CourseInit == Init => CourseInv
  BY DEF Init, CourseInv, Past

(* Every step keeps it.                                                    *)
LEMMA CourseInductive ==
  ASSUME BeansInv, CourseInv, [Next]_vars
  PROVE  CourseInv'
<1>a. calls \in Nat
  BY Flat, BeansAssumption DEF BeansInv
<1>1. CASE UNCHANGED vars
  <2>1. \A k \in Ids : Past(k)' /\ (k > calls' => log'[k].entity = 0)
    BY <1>1, PastKept DEF vars
  <2>2. \A c \in Callers : Stays(c)
    BY <1>1 DEF vars, Stays
  <2>3. \A c \in Callers : IF call'[c] = 0 THEN timeout'[c] = "default" ELSE CourseOf(c)'
    BY <1>1, <2>2, CourseStays DEF vars, CourseInv
  <2>. QED
    BY <2>1, <2>3 DEF CourseInv
<1>2. ASSUME NEW t \in Ids, Timeout(t) PROVE CourseInv'
  BY <1>2, TimeoutKept
<1>3. ASSUME NEW c \in Callers, SetUp(c) \/ (\E m \in Methods : Invoke(c, m)) \/ Step(c)
      PROVE  CourseInv'
  <2>1. Elsewhere(c)
    BY <1>3, StepsElsewhere
  <2>2. \A d \in Callers \ {c} : IF call'[d] = 0 THEN timeout'[d] = "default" ELSE CourseOf(d)'
    BY <2>1, OthersKept
  <2>. SUFFICES /\ IF call'[c] = 0 THEN timeout'[c] = "default" ELSE CourseOf(c)'
                /\ \A k \in Ids : Past(k)' /\ (k > calls' => log'[k].entity = 0)
    BY <2>2 DEF CourseInv
  <2>3. CASE SetUp(c)
    <3>1. /\ call' = call /\ calls' = calls /\ log' = log /\ timeout' = timeout
          /\ call[c] = 0
      BY <2>3 DEF SetUp, calling, BeansInv, CallInv
    <3>2. \A k \in Ids : Past(k)' /\ (k > calls' => log'[k].entity = 0)
      BY <3>1, PastKept
    <3>. QED
      BY <3>1, <3>2 DEF CourseInv
  <2>4. ASSUME NEW m \in Methods, Invoke(c, m)
        PROVE  /\ IF call'[c] = 0 THEN timeout'[c] = "default" ELSE CourseOf(c)'
               /\ \A k \in Ids : Past(k)' /\ (k > calls' => log'[k].entity = 0)
    <3>. DEFINE new == calls + 1
    <3>1. /\ new \in Ids /\ calls' = new /\ call'[c] = new
          /\ \A j \in Ids \ {new} : log'[j] = log[j]
          /\ CourseOf(c)'
      BY <2>4, InvokeCourse
    <3>2. ASSUME NEW k \in Ids PROVE Past(k)' /\ (k > calls' => log'[k].entity = 0)
      <4>1. CASE k = new
        BY <1>a, <2>4, <3>1, <4>1, InvokeCourse
      <4>2. CASE k # new
        BY <3>1, <4>2, PastKept
      <4>. QED
        BY <4>1, <4>2
    <3>. QED
      BY <1>a, <3>1, <3>2
  <2>5. CASE Complete(c)
    <3>1. /\ calls' = calls /\ \A j \in Ids \ {call[c]} : log'[j] = log[j]
          /\ call'[c] = 0 /\ timeout'[c] = "default"
      BY <2>5, TypeParts DEF Complete, Elsewhere, BeansInv, TypeOK
    <3>2. ASSUME NEW k \in Ids PROVE Past(k)' /\ (k > calls' => log'[k].entity = 0)
      <4>1. CASE k = call[c]
        <5>1. Past(k)' /\ k <= calls
          BY <2>5, <4>1, CompletePast
        <5>. QED
          BY <1>a, <3>1, <5>1 DEF Ids
      <4>2. CASE k # call[c]
        BY <3>1, <4>2, PastKept
      <4>. QED
        BY <4>1, <4>2
    <3>. QED
      BY <3>1, <3>2
  <2>6. CASE Step(c) /\ ~Complete(c)
    <3>1. /\ calls' = calls /\ call' = call
          /\ log' = log \/ log' = [log EXCEPT ![call[c]].entity = tx[c]]
          /\ at[c].phase # "idle"
      BY <2>6 DEF Step, UtxBegin, UtxSetTransactionTimeout, ThreadSleep, EmPersist, AddStorageValue,
            CallThrower, UtxSetRollbackOnly, UtxCommit, UtxRollback, InterceptorExit, calling, Doing
    <3>2. call[c] \in Ids /\ call[c] <= calls /\ log[call[c]].result = "none"
      BY <3>1, Flat DEF BeansInv, CallInv
    <3>3. /\ \A j \in Ids \ {call[c]} : log'[j] = log[j]
          /\ log'[call[c]].result = "none" /\ log'[call[c]].m = log[call[c]].m
      BY <3>1, <3>2, TypeParts DEF BeansInv, TypeOK, Entries
    <3>4. ASSUME NEW k \in Ids PROVE Past(k)' /\ (k > calls' => log'[k].entity = 0)
      <4>1. CASE k = call[c]
        BY <1>a, <3>1, <3>2, <3>3, <4>1 DEF Past, Ids
      <4>2. CASE k # call[c]
        BY <3>1, <3>3, <4>2, PastKept
      <4>. QED
        BY <4>1, <4>2
    <3>5. CourseOf(c)'
      <4>1. CASE MethodOf(c)[1] = "stateful"
        <5>1. MethodOf(c)'[1] = "stateful"
          BY <3>1, <3>3, <4>1 DEF MethodOf
        <5>. QED
          BY <5>1 DEF CourseOf, Late
      <4>2. CASE MethodOf(c) = Late
        BY <2>6, <4>2, LateStep
      <4>3. CASE MethodOf(c)[1] # "stateful" /\ MethodOf(c) # Late
        BY <2>6, <4>3, StepCourse
      <4>. QED
        BY <4>1, <4>2, <4>3
    <3>. QED
      BY <3>1, <3>2, <3>4, <3>5 DEF Ids
  <2>. QED
    BY <1>3, <2>3, <2>4, <2>5, <2>6
<1>. QED
  BY <1>1, <1>2, <1>3 DEF Next

(* In every run each call runs the course of its method.                   *)
THEOREM CourseInvariant == Spec => [](BeansInv /\ CourseInv)
<1>1. BeansInv /\ CourseInv /\ [Next]_vars => CourseInv'
  BY CourseInductive
<1>. QED
  BY <1>1, BeansInvariant, CourseInit, PTL DEF Spec

(* Through every interleaving of callers and of the transaction reaper,    *)
(* each method keeps or loses its entity, and returns or throws, as its    *)
(* test asserts.                                                           *)
THEOREM OutcomeAsTestedHolds == Spec => []OutcomeAsTested
<1>1. BeansInv /\ CourseInv => OutcomeAsTested
  <2>. SUFFICES ASSUME BeansInv, CourseInv, NEW k \in Ids, Tested(k)
                PROVE  /\ Persisted(k) <=> log[k].m \in EntityFound
                       /\ log[k].result = "threw" <=> log[k].m \in CallThrows
    BY DEF OutcomeAsTested
  <2>1. Past(k) /\ k # 0
    BY DEF CourseInv, Ids
  <2>. QED
    BY <2>1 DEF Past, Tested, Persisted
<1>. QED
  BY <1>1, CourseInvariant, PTL

-----------------------------------------------------------------------------
(* The record                                                              *)

(* The status with which a method returns is the one its test asserts at   *)
(* the exit.                                                               *)
LEMMA ExitVerdicts ==
  ASSUME NEW m \in Methods, m[1] # "stateful", m # Late, m # Without,
         NEW i \in Nat, i > Len(Body(m)), NEW k, k # 0,
         Did(m, i, Commit) => m = Early,
         \A a \in Exceptions : ~Did(m, i, Thrown(a))
  PROVE  ExitStatus(m) = <<IF TxAfter(m, k, i) = 0 THEN "unused" ELSE StatusAfter(m, i)>>
<1>1. PICK b \in DOMAIN Bean : \E n \in DOMAIN Bean[b] : m = <<b, n>> /\ Body(m) = Bean[b][n]
  BY MethodCases
<1>2. PICK n \in DOMAIN Bean[b] : m = <<b, n>> /\ Body(m) = Bean[b][n]
  BY <1>1
<1>. DEFINE s == Body(m)
<1>3. \A op : Did(m, i, op) <=> \E j \in 1..Len(s) : s[j] = op
  <2>1. Len(s) \in Nat
    BY BodyShape DEF ShapeOf, MaxBody
  <2>. QED
    BY <2>1 DEF Did
<1>4. CASE b = "ejb"
  <2>1. m # Early /\ Began(m, i) /\ ~Did(m, i, Commit) /\ (Marked(m, i) <=> m \notin EntityFound)
    BY <1>2, <1>4, Verdicts DEF Began, Early
  <2>2. n \in DOMAIN ExceptionWorkerEjbBean
    BY <1>2, <1>4 DEF Bean
  <2>3. ExitStatus(m) = IF m \in EntityFound THEN <<"active">> ELSE <<"marked">>
    BY <1>2, <1>4, <2>2 DEF ExitStatus, EntityFound, CallThrows, ExceptionWorkerEjbBean
  <2>. QED
    BY <2>1, <2>3 DEF TxAfter, StatusAfter
<1>5. CASE b = "cdi"
  <2>1. m # Early /\ Began(m, i) /\ ~Did(m, i, Commit) /\ m \notin CallThrows
    BY <1>2, <1>5, Verdicts DEF Began, Early
  <2>2. ~Marked(m, i)
    <3>1. Ordered(m)
      BY Order
    <3>. QED
      BY <1>2, <1>5, <3>1 DEF Marked, MarkedBy, Ordered, Did
  <2>3. ExitStatus(m) = <<"active">>
    BY <1>2, <1>5, <2>1 DEF ExitStatus
  <2>. QED
    BY <2>1, <2>2, <2>3 DEF TxAfter, StatusAfter
<1>6. CASE b = "bmt"
  <2>1. m # Early /\ ~Did(m, i, Commit) /\ Began(m, i) /\ Marked(m, i)
    BY <1>2, <1>6, Verdicts DEF Early
  <2>2. n \in DOMAIN ExceptionWorkerBmtEjbBean /\ s = ExceptionWorkerBmtEjbBean[n]
    BY <1>2, <1>6 DEF Bean
  <2>3. \/ n = "runtimeExceptionThrownAutomaticRollback"
        \/ s = <<Begin, Persist, Store, Caught("Runtime"), Commit>>
        \/ s = <<Begin, Persist, Store, Caught("Runtime"), MarkRollback, Commit>>
    BY <2>2 DEF ExceptionWorkerBmtEjbBean
  <2>4. /\ s # <<Begin, Persist, Store, Caught("Runtime"), Commit>>
        /\ s # <<Begin, Persist, Store, Caught("Runtime"), MarkRollback, Commit>>
    <3>1. s = <<Begin, Persist, Store, Caught("Runtime"), Commit>> => Len(s) = 5 /\ s[5] = Commit
      OBVIOUS
    <3>2. s = <<Begin, Persist, Store, Caught("Runtime"), MarkRollback, Commit>> =>
            Len(s) = 6 /\ s[6] = Commit
      OBVIOUS
    <3>. QED
      BY <1>3, <2>1, <3>1, <3>2
  <2>5. n = "runtimeExceptionThrownAutomaticRollback"
    BY <2>3, <2>4
  <2>6. ExitStatus(m) = <<"marked">>
    BY <1>2, <1>6, <2>5 DEF ExitStatus
  <2>. QED
    BY <2>1, <2>6 DEF TxAfter, StatusAfter
<1>7. CASE b \in {"stateless", "singleton"} /\ m = Early
  <2>1. Began(m, i) /\ Did(m, i, Commit)
    BY <1>7, Verdicts
  <2>2. ExitStatus(m) = <<"unused">>
    BY <1>7 DEF ExitStatus, Early, CallThrows
  <2>. QED
    BY <2>1, <2>2 DEF TxAfter
<1>8. CASE b \in {"stateless", "singleton"} /\ m # Early
  <2>1. Began(m, i) /\ ~Did(m, i, Commit)
    BY <1>2, <1>8, Verdicts
  <2>2. n = "beginTransaction" /\ s = <<Begin, Persist, Store>>
    <3>1. CASE b = "stateless"
      BY <1>2, <1>8, <3>1 DEF Bean, StatelessBmtBean, Late, Early, Without
    <3>2. CASE b = "singleton"
      BY <1>2, <3>2 DEF Bean, SingletonBmtBean
    <3>. QED
      BY <1>8, <3>1, <3>2
  <2>3. ~Marked(m, i)
    <3>1. \A op : Did(m, i, op) => op \in {Begin, Persist, Store}
      BY <1>3, <2>2
    <3>2. MarkRollback \notin {Begin, Persist, Store}
          /\ \A a \in Exceptions : Caught(a) \notin {Begin, Persist, Store}
      BY DEF MarkRollback, Begin, Persist, Store, Do, Caught
    <3>. QED
      BY <3>1, <3>2 DEF Marked
  <2>4. ExitStatus(m) = <<"active">>
    BY <1>2, <1>8, <2>2 DEF ExitStatus
  <2>. QED
    BY <2>1, <2>3, <2>4 DEF TxAfter, StatusAfter
<1>9. CASE b = "stateful"
  BY <1>2, <1>9
<1>. QED
  BY <1>4, <1>5, <1>6, <1>7, <1>8, <1>9 DEF Bean

(* A method that throws has no status at the exit.                         *)
LEMMA AbruptVerdicts ==
  ASSUME NEW m \in Methods, NEW k, NEW p \in Exceptions, NEW i \in 1..MaxBody + 1, NEW x, NEW s,
         Abrupt(m, k, p, i, x, s)
  PROVE  ExitStatus(m) = <<>>
<1>1. CASE m[1] = "bmt" /\ Did(m, i + 1, Commit)
  <2>1. m # <<"bmt", "runtimeExceptionThrownAutomaticRollback">>
    <3>. SUFFICES ASSUME m = <<"bmt", "runtimeExceptionThrownAutomaticRollback">> PROVE FALSE
      OBVIOUS
    <3>1. Body(m) = <<Begin, Persist, Store, Caught("Runtime")>>
      BY DEF Body, Bean, ExceptionWorkerBmtEjbBean
    <3>2. Commit \notin {Begin, Persist, Store, Caught("Runtime")}
      BY DEF Commit, Begin, Persist, Store, Caught, Do
    <3>. QED
      BY <1>1, <3>1, <3>2 DEF Did
  <2>2. m \in CallThrows
    BY <1>1 DEF CallThrows
  <2>. QED
    BY <1>1, <2>1, <2>2 DEF ExitStatus
<1>2. CASE m[1] = "cdi" /\ i = Len(Body(m)) /\ Did(m, i + 1, Thrown(p))
  <2>1. m \in CallThrows
    BY <1>2, OtherVerdicts
  <2>. QED
    BY <1>2, <2>1 DEF ExitStatus
<1>3. CASE m = Without
  BY <1>3, OtherVerdicts DEF ExitStatus, Without
<1>. QED
  BY <1>1, <1>2, <1>3 DEF Abrupt

(* What a step within a method does to the record.                         *)
Recorded(c) ==
  \/ results' = results /\ at'[c].phase # "returning"
  \/ /\ MethodOf(c) # Late /\ results' = [results EXCEPT !.id = call[c]]
     /\ at'[c].phase # "returning"
  \/ /\ results' = [results EXCEPT !.exit = Append(@, StatusOf(tx[c]))]
     /\ at'[c].phase = "returning"
     /\ MethodOf(c)[1] # "stateful" => ExitStatus(MethodOf(c)) = <<StatusOf(tx[c])>>

(* Each of them does one of these to it, and keeps the call going.         *)
LEMMA StepRecorded ==
  ASSUME BeansInv, CourseInv, NEW c \in Callers, Step(c), ~Complete(c)
  PROVE  /\ call[c] \in Ids /\ at[c].phase # "returning"
         /\ calls' = calls /\ call' = call /\ alone' = alone
         /\ log'[call[c]].m = log[call[c]].m /\ log'[call[c]].result = "none"
         /\ Recorded(c)
<1>. DEFINE m == MethodOf(c)
            k == call[c]
            i == at[c].op
<1>a. /\ call \in [Callers -> 0..MaxCalls]
      /\ at \in [Callers -> Positions] /\ log \in [Ids -> Entries]
      /\ tx \in [Callers -> 0..MaxCalls] /\ status \in [Ids -> Statuses]
  BY TypeParts DEF TypeOK, BeansInv
<1>b. TypeOK /\ CallInv
  BY DEF BeansInv
<1>c. /\ at[c].phase \in {"body", "rollback"}
      /\ calls' = calls /\ call' = call /\ alone' = alone
      /\ log' = log \/ log' = [log EXCEPT ![k].entity = tx[c]]
  BY DEF Step, UtxBegin, UtxSetTransactionTimeout, ThreadSleep, EmPersist, AddStorageValue,
     CallThrower, UtxSetRollbackOnly, UtxCommit, UtxRollback, InterceptorExit, Doing,
     calling, record
<1>d. k \in Ids /\ k # 0 /\ m \in Methods /\ m = log[k].m /\ log[k].result = "none"
  BY <1>b, <1>c, Flat DEF CallInv, Ids, MethodOf
<1>e. log'[k].m = log[k].m /\ log'[k].result = "none"
  BY <1>a, <1>c, <1>d DEF Entries
<1>f. CourseOf(c)
  BY <1>d DEF CourseInv
<1>g. ASSUME Continue(c), at[c].phase = "body" PROVE at'[c].phase # "returning"
  BY <1>a, <1>g DEF Continue, Positions
<1>h. ASSUME NEW a \in Exceptions, Fail(c, a) PROVE at'[c].phase # "returning"
  <2>1. at'[c].phase \in {"rollback", a}
    BY <1>a, <1>h DEF Fail, Positions
  <2>. QED
    BY <2>1 DEF Exceptions
<1>1. CASE InterceptorExit(c)
  <2>1. /\ at[c].phase = "body" /\ i > Len(Body(m)) /\ at' = [at EXCEPT ![c].phase = "returning"]
        /\ results' = [results EXCEPT !.exit = Append(@, StatusOf(tx[c]))]
    BY <1>1 DEF InterceptorExit
  <2>2. at'[c].phase = "returning"
    BY <1>a, <2>1 DEF Positions
  <2>3. i \in Nat
    BY <1>a DEF Positions
  <2>4. ASSUME m[1] # "stateful", m # Late PROVE ExitStatus(m) = <<StatusOf(tx[c])>>
    <3>1. Onward(m, k, "body", i, tx[c], status[k])
      BY <1>f, <2>1, <2>4 DEF CourseOf, Course, Abrupt, Exceptions
    <3>2. ASSUME m = Without PROVE FALSE
      <4>1. i = 1 /\ Len(Body(m)) = 2
        BY <3>1, <3>2, NeverBegun DEF Onward
      <4>. QED
        BY <2>1, <4>1
    <3>3. /\ tx[c] = TxAfter(m, k, i) /\ status[k] = StatusAfter(m, i)
          /\ Did(m, i, Commit) => m = Early
          /\ \A a \in Exceptions : ~Did(m, i, Thrown(a))
      BY <3>1 DEF Onward
    <3>4. ExitStatus(m) = <<IF TxAfter(m, k, i) = 0 THEN "unused" ELSE StatusAfter(m, i)>>
      BY <1>d, <2>1, <2>3, <2>4, <3>2, <3>3, ExitVerdicts
    <3>5. tx[c] \in {0, k}
      BY <3>3 DEF TxAfter
    <3>. QED
      BY <1>d, <3>3, <3>4, <3>5 DEF StatusOf
  <2>5. ASSUME m = Late PROVE ExitStatus(m) = <<StatusOf(tx[c])>>
    <3>1. Len(Body(Late)) = 6
      BY DEF Late, Body, Bean, StatelessBmtBean
    <3>2. tx[c] = 0
      BY <1>f, <2>1, <2>5, <3>1 DEF CourseOf, LateCourse
    <3>. QED
      BY <2>5, <3>2 DEF StatusOf, ExitStatus, CallThrows, Late
  <2>. QED
    BY <1>c, <1>d, <1>e, <2>1, <2>2, <2>4, <2>5 DEF Recorded
<1>2. CASE AddStorageValue(c)
  <2>1. /\ Doing(c, Store) /\ Continue(c) /\ results' = [results EXCEPT !.id = k]
    BY <1>2 DEF AddStorageValue
  <2>2. at[c].phase = "body" /\ i \in 1..Len(Body(m)) /\ Body(m)[i] = Store
    BY <1>b, <2>1, DoingFacts
  <2>3. ASSUME m = Late PROVE FALSE
    <3>1. /\ Len(Body(Late)) = 6
          /\ Body(Late)[1] = SetTimeout /\ Body(Late)[2] = Begin
          /\ Body(Late)[3] = Sleep /\ Body(Late)[4] = Persist
      BY DEF Late, Body, Bean, StatelessBmtBean
    <3>2. i \in 1..4
      BY <1>f, <2>2, <2>3, <3>1 DEF CourseOf, LateCourse, MaxBody
    <3>3. Store \notin {SetTimeout, Begin, Sleep, Persist}
      BY DEF Store, SetTimeout, Begin, Sleep, Persist, Do
    <3>. QED
      BY <2>2, <2>3, <3>1, <3>2, <3>3
  <2>. QED
    BY <1>c, <1>d, <1>e, <1>g, <2>1, <2>2, <2>3 DEF Recorded
<1>3. CASE ~InterceptorExit(c) /\ ~AddStorageValue(c)
  <2>1. results' = results
    BY <1>3 DEF Step, UtxBegin, UtxSetTransactionTimeout, ThreadSleep, EmPersist,
       CallThrower, UtxSetRollbackOnly, UtxCommit, UtxRollback, record
  <2>2. at'[c].phase # "returning"
    <3>1. CASE UtxRollback(c)
      <4>1. at' = [at EXCEPT ![c] = IF tx[c] = 0 THEN [at[c] EXCEPT !.phase = "Runtime"]
                                    ELSE [phase |-> "body", op |-> MaxBody + 1]]
        BY <3>1 DEF UtxRollback
      <4>. QED
        BY <1>a, <4>1 DEF Positions
    <3>2. CASE ~UtxRollback(c)
      <4>1. /\ at[c].phase = "body"
            /\ Continue(c) \/ \E a \in Exceptions : Fail(c, a)
        BY <1>3, <3>2 DEF Step, UtxBegin, UtxSetTransactionTimeout, ThreadSleep, EmPersist,
           CallThrower, UtxSetRollbackOnly, UtxCommit, Doing, Exceptions
      <4>. QED
        BY <1>g, <1>h, <4>1
    <3>. QED
      BY <3>1, <3>2
  <2>. QED
    BY <1>c, <1>d, <1>e, <2>1, <2>2 DEF Recorded
<1>. QED
  BY <1>1, <1>2, <1>3

(* The end of a method leaves the record alone.                            *)
LEMMA CompleteRecorded ==
  ASSUME BeansInv, CourseInv, NEW c \in Callers, Complete(c)
  PROVE  /\ call[c] \in Ids /\ call'[c] = 0
         /\ calls' = calls /\ alone' = alone /\ results' = results
         /\ log'[call[c]].m = log[call[c]].m
         /\ MethodOf(c)[1] # "stateful" /\ at[c].phase # "returning" =>
              ExitStatus(MethodOf(c)) = <<>>
<1>. DEFINE m == MethodOf(c)
            k == call[c]
            i == at[c].op
            p == at[c].phase
<1>a. /\ call \in [Callers -> 0..MaxCalls]
      /\ at \in [Callers -> Positions] /\ log \in [Ids -> Entries]
  BY TypeParts DEF TypeOK, BeansInv
<1>b. /\ p \in Exceptions \union {"returning"} /\ p \notin {"idle", "body", "rollback"}
      /\ call' = [call EXCEPT ![c] = 0] /\ calls' = calls /\ alone' = alone /\ results' = results
      /\ log' = [log EXCEPT ![k].result = CallResult(m, p, StatusOf(tx[c]))]
  BY DEF Complete, Exceptions, record
<1>c. k \in Ids /\ k # 0 /\ m \in Methods
  BY <1>b, Flat DEF BeansInv, CallInv, Ids
<1>d. log'[k].m = log[k].m
  BY <1>a, <1>b, <1>c DEF Entries
<1>e. ASSUME m[1] # "stateful", p # "returning" PROVE ExitStatus(m) = <<>>
  <2>1. CourseOf(c)
    BY <1>c DEF CourseInv
  <2>2. m # Late
    BY <1>b, <1>e, <2>1 DEF CourseOf, LateCourse
  <2>3. Abrupt(m, k, p, i, tx[c], status[k])
    BY <1>b, <1>e, <2>1, <2>2 DEF CourseOf, Course, Onward
  <2>4. p \in Exceptions /\ i \in 1..MaxBody + 1
    BY <1>a, <1>b, <1>e DEF Positions
  <2>. QED
    BY <1>c, <2>3, <2>4, AbruptVerdicts
<1>. QED
  BY <1>a, <1>b, <1>c, <1>d, <1>e

(* A call that begins alone on a cleared record writes its first status.   *)
LEMMA InvokeRecorded ==
  ASSUME BeansInv, RecordInv, NEW c \in Callers, NEW m \in Methods, Invoke(c, m), alone'
  PROVE  RecordInv'
<1>. DEFINE k == calls + 1
            t == IF m[1] \in {"ejb", "cdi"} THEN k ELSE IF m[1] = "stateful" THEN held ELSE 0
            first == IF t = 0 THEN "unused" ELSE status'[t]
<1>a. /\ call \in [Callers -> 0..MaxCalls] /\ at \in [Callers -> Positions]
      /\ log \in [Ids -> Entries] /\ status \in [Ids -> Statuses] /\ calls \in 0..MaxCalls
  BY TypeParts DEF TypeOK, BeansInv
<1>b. /\ calls' = k /\ k \in Ids
      /\ call' = [call EXCEPT ![c] = k] /\ log' = [log EXCEPT ![k].m = m]
      /\ at' = [at EXCEPT ![c] = [phase |-> "body", op |-> 1]]
      /\ m[1] \in {"ejb", "cdi"} => status' = [status EXCEPT ![k] = "active"]
      /\ results' = [results EXCEPT !.invoke = Append(@, first)]
      /\ alone /\ results = Cleared
  <2>1. calls' = k /\ calls < MaxCalls
    BY DEF Invoke
  <2>2. k \in Ids
    BY <1>a, <2>1, BeansAssumption DEF Ids
  <2>3. alone /\ results = Cleared
    BY DEF Invoke
  <2>4. /\ call' = [call EXCEPT ![c] = k] /\ log' = [log EXCEPT ![k].m = m]
        /\ at' = [at EXCEPT ![c] = [phase |-> "body", op |-> 1]]
        /\ m[1] \in {"ejb", "cdi"} => status' = [status EXCEPT ![k] = "active"]
    BY <2>1 DEF Invoke
  <2>5. results' = [results EXCEPT !.invoke = Append(@, first)]
    BY <2>1 DEF Invoke
  <2>. QED
    BY <2>1, <2>2, <2>3, <2>4, <2>5
<1>c. /\ \A d \in Callers : call[d] = 0
      /\ log[k].result = "none"
  BY <1>a, <1>b DEF RecordInv, BeansInv, CallInv, Ids
<1>d. /\ \A d \in Callers : call'[d] \in {0, k}
      /\ call'[c] = k /\ at'[c].phase = "body"
      /\ \A d \in Callers \ {c} : call'[d] = 0
      /\ log'[k].m = m /\ log'[k].result = "none"
  BY <1>a, <1>b, <1>c DEF Entries
<1>e. results'.invoke = <<first>> /\ results'.exit = <<>> /\ results'.id = 0
  BY <1>b DEF Cleared
<1>f. m[1] # "stateful" => results'.invoke = InvokeStatus(m)
  <2>1. m[1] \in {"ejb", "cdi"} => first = "active"
    <3>1. k \in Ids /\ k # 0
      BY <1>b DEF Ids
    <3>. HIDE DEF k
    <3>. QED
      BY <1>a, <1>b, <3>1
  <2>2. m[1] \notin {"ejb", "cdi", "stateful"} => first = "unused"
    OBVIOUS
  <2>. QED
    BY <1>e, <2>1, <2>2 DEF InvokeStatus
<1>g. results'.invoke # <<>> /\ results' # Cleared
  <2>1. Len(results'.invoke) = 1
    BY <1>e
  <2>2. results'.invoke # <<>>
    BY <2>1
  <2>. QED
    BY <2>2 DEF Cleared
<1>. HIDE DEF k
<1>. QED
  BY <1>b, <1>d, <1>e, <1>f, <1>g DEF RecordInv, RecordOf

(* A step within a method that is alone keeps the record.                  *)
LEMMA StepRecordKept ==
  ASSUME BeansInv, CourseInv, RecordInv, NEW c \in Callers, Step(c), alone',
         NEW k, k = call[c], NEW m, m = log[k].m
  PROVE  RecordInv'
<1>a. /\ k \in Ids /\ k # 0 /\ calls' = calls /\ alone
      /\ log'[k].m = m
  <2>1. k \in Ids /\ calls' = calls /\ alone' = alone /\ log'[k].m = m
    BY StepRecorded, CompleteRecorded
  <2>2. alone
    BY <2>1, Zenon
  <2>3. k # 0
    BY <2>1 DEF Ids
  <2>. QED
    BY <2>1, <2>2, <2>3
<1>b. /\ results # Cleared /\ calls = k /\ results.invoke # <<>>
      /\ \A d \in Callers : call[d] \in {0, k}
      /\ m[1] # "stateful" => RecordOf(m)
  BY <1>a DEF RecordInv
<1>c. \A d \in Callers \ {c} : call[d] = 0
  BY <1>a, <1>b DEF BeansInv, CallInv
<1>d. MethodOf(c) = m
  BY DEF MethodOf
<1>e. results \in Records
  BY TypeParts DEF BeansInv
<1>f. \A d \in Callers \ {c} : call'[d] = call[d]
  BY StepsElsewhere DEF Elsewhere
<1>1. CASE Complete(c)
  <2>1. /\ call'[c] = 0 /\ results' = results
        /\ m[1] # "stateful" /\ at[c].phase # "returning" => ExitStatus(m) = <<>>
    BY <1>1, <1>d, CompleteRecorded
  <2>2. \A d \in Callers : call'[d] = 0
    BY <1>c, <1>f, <2>1
  <2>3. m[1] # "stateful" => results.exit = ExitStatus(m)
    BY <1>a, <1>b, <2>1 DEF RecordOf
  <2>4. ASSUME m[1] # "stateful" PROVE RecordOf(m)'
    <3>1. /\ results'.invoke = InvokeStatus(m) /\ results'.id \in {0, calls'}
          /\ m = Late => results'.id = 0
          /\ results'.exit = ExitStatus(m)
      BY <1>a, <1>b, <2>1, <2>3, <2>4 DEF RecordOf
    <3>. QED
      BY <2>2, <3>1 DEF RecordOf
  <2>. QED
    BY <1>a, <1>b, <2>1, <2>2, <2>4 DEF RecordInv
<1>2. CASE ~Complete(c)
  <2>1. /\ call' = call /\ at[c].phase # "returning"
        /\ log'[k].result = "none"
        /\ Recorded(c)
    BY <1>2, StepRecorded
  <2>2. /\ results'.invoke = results.invoke
        /\ \/ results'.exit = results.exit /\ at'[c].phase # "returning"
           \/ /\ results'.exit = Append(results.exit, StatusOf(tx[c])) /\ at'[c].phase = "returning"
              /\ m[1] # "stateful" => ExitStatus(m) = <<StatusOf(tx[c])>>
        /\ results'.id = results.id \/ (m # Late /\ results'.id = k)
    BY <1>d, <1>e, <2>1 DEF Recorded, Records
  <2>3. results'.invoke # <<>> /\ results' # Cleared
    <3>1. results'.invoke # <<>>
      BY <1>b, <2>2
    <3>. QED
      BY <3>1 DEF Cleared
  <2>4. ASSUME m[1] # "stateful" PROVE RecordOf(m)'
    <3>1. /\ results.invoke = InvokeStatus(m) /\ results.id \in {0, k}
          /\ m = Late => results.id = 0
          /\ results.exit = <<>>
      BY <1>a, <1>b, <2>1, <2>4 DEF RecordOf
    <3>2. results'.exit = IF at'[c].phase = "returning" THEN ExitStatus(m) ELSE <<>>
      <4>1. Append(<<>>, StatusOf(tx[c])) = <<StatusOf(tx[c])>>
        OBVIOUS
      <4>. QED
        BY <2>2, <2>4, <3>1, <4>1
    <3>3. /\ results'.invoke = InvokeStatus(m) /\ results'.id \in {0, k}
          /\ m = Late => results'.id = 0
      BY <2>2, <3>1
    <3>. QED
      BY <1>a, <1>b, <1>c, <2>1, <3>2, <3>3 DEF RecordOf
  <2>. QED
    BY <1>a, <1>b, <2>1, <2>3, <2>4 DEF RecordInv
<1>. QED
  BY <1>1, <1>2

(* Every step keeps what is known of the record.                           *)
LEMMA RecordInductive ==
  ASSUME BeansInv, CourseInv, RecordInv, [Next]_vars
  PROVE  RecordInv'
<1>. SUFFICES ASSUME alone' PROVE RecordInv'
  BY DEF RecordInv
<1>1. ASSUME results' = results, alone' = alone, calls' = calls, call' = call, log' = log,
             at' = at
      PROVE  RecordInv'
  BY <1>1 DEF RecordInv, RecordOf
<1>2. CASE UNCHANGED vars
  BY <1>1, <1>2 DEF vars
<1>3. ASSUME NEW t \in Ids, Timeout(t) PROVE RecordInv'
  BY <1>1, <1>3 DEF Timeout, calling, record
<1>4. ASSUME NEW c \in Callers, SetUp(c) PROVE RecordInv'
  BY <1>4 DEF SetUp, calling, RecordInv
<1>5. ASSUME NEW c \in Callers, NEW m \in Methods, Invoke(c, m) PROVE RecordInv'
  BY <1>5, InvokeRecorded
<1>6. ASSUME NEW c \in Callers, Step(c) PROVE RecordInv'
  <2>. DEFINE k == call[c]
              m == log[k].m
  <2>. QED
    BY <1>6, StepRecordKept
<1>. QED
  BY <1>2, <1>3, <1>4, <1>5, <1>6 DEF Next

(* When a caller clears the record with nobody in a bean and one call is   *)
(* all that follows, ResultsBean holds what the test of the method asserts.*)
THEOREM ResultsAsTestedHolds == Spec => []ResultsAsTested
<1>1. Init => RecordInv
  BY DEF Init, RecordInv
<1>2. BeansInv /\ CourseInv /\ RecordInv /\ [Next]_vars => RecordInv'
  BY RecordInductive
<1>3. BeansInv /\ CourseInv /\ RecordInv => ResultsAsTested
  BY DEF RecordInv, RecordOf, ResultsAsTested, Tested, Late
<1>. QED
  BY <1>1, <1>2, <1>3, CourseInvariant, PTL DEF Spec

-----------------------------------------------------------------------------
(* The transactions that span calls of the stateful bean                   *)

Opening == <<"stateful", "beginTransaction">>
Closing == <<"stateful", "commitTransaction">>

(* A call that opens a transaction comes with none of its own, and leaves  *)
(* with its entity in it or not at all; one that closes a transaction      *)
(* closes that of another call.                                            *)
Spans(m, k, p, i, x, e) ==
  /\ m = Opening =>
       \/ i = 1 /\ p \in {"body", "Application"} /\ x # k /\ e = 0
       \/ i = 2 /\ p \in {"body", "Runtime"} /\ x = k /\ e = 0
       \/ i \in {3, 4} /\ p \in {"body", "returning"} /\ x = k /\ e = k
  /\ m = Closing =>
       /\ x # k
       /\ \/ i = 1 /\ p \in {"body", "Application", "Runtime"}
          \/ i = 2 /\ p \in {"body", "returning"} /\ x = 0

(* The transaction t is kept in the bean, or on a thread that has found it *)
(* there.                                                                  *)
Handed(t) == held = t \/ \E c \in Callers : tx[c] = t /\ t # call[c]

SpanInv ==
  /\ \A c \in Callers : call[c] # 0 =>
       Spans(MethodOf(c), call[c], at[c].phase, at[c].op, tx[c], log[call[c]].entity)
  /\ \A t \in Ids : Handed(t) => log[t].m = Opening /\ log[t].entity = t
  /\ \A k \in Ids : log[k].m = Opening => log[k].entity \in {0, k}

IsCommitted(k) == log[k].m = Opening /\ log[k].entity = k /\ status[k] = "committed"

(* The call has committed, and has returned or is on its way out.          *)
HasCommitted(k) ==
  /\ log[k].m = Closing
  /\ log[k].result = "returned" \/ \E c \in Callers : call[c] = k /\ at[c].op = 2

Committed == {k \in Ids : IsCommitted(k)}
Committers == {k \in Ids : HasCommitted(k)}

CountInv == Cardinality(Committed) = Cardinality(Committers)

(* The methods of the stateful bean.                                       *)
LEMMA StatefulBodies ==
  /\ Opening[1] = "stateful" /\ Closing[1] = "stateful" /\ Opening # Closing
  /\ Len(Body(Opening)) = 3 /\ Body(Opening)[1] = Begin
  /\ Body(Opening)[2] = Persist /\ Body(Opening)[3] = Store
  /\ Len(Body(Closing)) = 1 /\ Body(Closing)[1] = Commit
  /\ \A m \in Methods : m[1] = "stateful" =>
       m \in {Opening, Closing} \/ (m = <<"stateful", "remove">> /\ Len(Body(m)) = 0)
<1>1. \A m \in Methods : m[1] = "stateful" =>
        m \in {Opening, Closing} \/ (m = <<"stateful", "remove">> /\ Len(Body(m)) = 0)
  BY DEF Methods, Bean, StatefulBmtBean, Opening, Closing, Body
<1>. QED
  BY <1>1 DEF Opening, Closing, Body, Bean, StatefulBmtBean

(* A step within a method keeps what it is to the bean's transaction.      *)
LEMMA SpanStep ==
  ASSUME BeansInv, SpanInv, NEW c \in Callers, Step(c), ~Complete(c),
         NEW k, k = call[c], NEW m, m = MethodOf(c)
  PROVE  /\ k \in Ids /\ calls' = calls /\ call' = call /\ held' = held
         /\ log'[k].m = m /\ log'[k].result = "none" /\ log[k].result = "none" /\ m = log[k].m
         /\ Spans(m, k, at'[c].phase, at'[c].op, tx'[c], log'[k].entity)
         /\ tx'[c] \in {0, k, tx[c]}
<1>. DEFINE i == at[c].op
            p == at[c].phase
            x == tx[c]
            e == log[k].entity
<1>a. /\ call \in [Callers -> 0..MaxCalls]
      /\ at \in [Callers -> Positions] /\ log \in [Ids -> Entries]
      /\ tx \in [Callers -> 0..MaxCalls] /\ status \in [Ids -> Statuses]
  BY TypeParts DEF TypeOK, BeansInv
<1>b. TypeOK /\ CallInv
  BY DEF BeansInv
<1>c. /\ p \in {"body", "rollback"}
      /\ calls' = calls /\ call' = call /\ held' = held
      /\ log' = log \/ log' = [log EXCEPT ![k].entity = x]
      /\ \/ tx' = tx \/ tx' = [tx EXCEPT ![c] = k] \/ tx' = [tx EXCEPT ![c] = 0]
  BY DEF Step, UtxBegin, UtxSetTransactionTimeout, ThreadSleep, EmPersist, AddStorageValue,
     CallThrower, UtxSetRollbackOnly, UtxCommit, UtxRollback, InterceptorExit, Doing,
     calling, bean, manager
<1>d. k \in Ids /\ k # 0 /\ m \in Methods /\ m = log[k].m /\ log[k].result = "none"
  BY <1>b, <1>c, Flat DEF CallInv, Ids, MethodOf
<1>e. /\ log'[k].m = m /\ log'[k].result = "none" /\ log'[k].entity \in {e, x}
      /\ log' = log => log'[k].entity = e
      /\ tx'[c] \in {0, k, x}
      /\ tx' = tx => tx'[c] = x
  BY <1>a, <1>c, <1>d DEF Entries
<1>f. Spans(m, k, p, i, x, e)
  BY <1>d DEF SpanInv
<1>g. ASSUME NEW o, Doing(c, o)
      PROVE  /\ p = "body" /\ i \in 1..Len(Body(m)) /\ Body(m)[i] = o
             /\ Continue(c) => at'[c].phase = "body" /\ at'[c].op = i + 1
             /\ \A a \in Exceptions : Fail(c, a) =>
                  at'[c].op = i /\ (m[1] = "stateful" => at'[c].phase = a)
  <2>1. p = "body" /\ i \in 1..Len(Body(m)) /\ Body(m)[i] = o
    BY <1>b, <1>g, DoingFacts
  <2>2. Continue(c) => at'[c].phase = "body" /\ at'[c].op = i + 1
    BY <1>b, <1>g, Continued
  <2>3. m[1] = "stateful" => \A op : ~Guarded(m, op)
    BY DEF Guarded
  <2>4. ASSUME NEW a \in Exceptions, Fail(c, a)
        PROVE  at'[c].op = i /\ (m[1] = "stateful" => at'[c].phase = a)
    BY <1>a, <2>3, <2>4 DEF Fail, Positions
  <2>. QED
    BY <2>1, <2>2, <2>4
<1>1. CASE m = Opening
  <2>1. \/ i = 1 /\ p = "body" /\ x # k /\ e = 0
        \/ i = 2 /\ p = "body" /\ x = k /\ e = 0
        \/ i \in {3, 4} /\ p = "body" /\ x = k /\ e = k
    BY <1>1, <1>c, <1>f DEF Spans
  <2>2. /\ \A o : Doing(c, o) => o \in {Begin, Persist, Store} /\ i \in 1..3 /\ Body(m)[i] = o
        /\ Begin # Persist /\ Begin # Store /\ Persist # Store
        /\ {SetTimeout, Sleep, MarkRollback, Commit} \cap {Begin, Persist, Store} = {}
        /\ \A a \in Exceptions : Caught(a) \notin {Begin, Persist, Store}
                               /\ Thrown(a) \notin {Begin, Persist, Store}
    <3>1. ASSUME NEW o, Doing(c, o)
          PROVE  o \in {Begin, Persist, Store} /\ i \in 1..3 /\ Body(m)[i] = o
      BY <1>1, <1>g, <3>1, StatefulBodies
    <3>2. /\ Begin # Persist /\ Begin # Store /\ Persist # Store
          /\ {SetTimeout, Sleep, MarkRollback, Commit} \cap {Begin, Persist, Store} = {}
          /\ \A a \in Exceptions : Caught(a) \notin {Begin, Persist, Store}
                                 /\ Thrown(a) \notin {Begin, Persist, Store}
      BY DEF SetTimeout, Sleep, MarkRollback, Commit, Begin, Persist, Store, Do, Caught, Thrown
    <3>. QED
      BY <3>1, <3>2
  <2>3. UtxBegin(c) \/ EmPersist(c) \/ AddStorageValue(c) \/ InterceptorExit(c)
    BY <2>1, <2>2 DEF Step, UtxSetTransactionTimeout, ThreadSleep, CallThrower,
       UtxSetRollbackOnly, UtxCommit, UtxRollback
  <2>. SUFFICES Spans(m, k, at'[c].phase, at'[c].op, tx'[c], log'[k].entity)
    BY <1>c, <1>d, <1>e
  <2>4. CASE UtxBegin(c)
    <3>1. Doing(c, Begin) /\ log' = log
      BY <2>4 DEF UtxBegin, calling
    <3>2. i = 1
      BY <1>1, <2>2, <3>1, StatefulBodies
    <3>3. CASE x = 0
      <4>1. Continue(c) /\ tx' = [tx EXCEPT ![c] = k]
        BY <2>4, <3>3 DEF UtxBegin
      <4>. QED
        BY <1>1, <1>a, <1>e, <1>g, <2>1, <3>1, <3>2, <4>1, StatefulBodies DEF Spans
    <3>4. CASE x # 0
      <4>1. Fail(c, "Application") /\ tx' = tx
        BY <2>4, <3>4 DEF UtxBegin
      <4>. QED
        BY <1>1, <1>e, <1>g, <2>1, <3>1, <3>2, <4>1, StatefulBodies DEF Spans, Exceptions
    <3>. QED
      BY <3>3, <3>4
  <2>5. CASE EmPersist(c)
    <3>1. Doing(c, Persist) /\ tx' = tx
      BY <2>5 DEF EmPersist, manager
    <3>2. i = 2 /\ x = k /\ e = 0
      BY <1>1, <2>1, <2>2, <3>1, StatefulBodies
    <3>3. CASE Continue(c) /\ log' = [log EXCEPT ![k].entity = x]
      <4>1. log'[k].entity = k
        BY <1>a, <1>d, <3>2, <3>3 DEF Entries
      <4>. QED
        BY <1>1, <1>e, <1>g, <3>1, <3>2, <3>3, <4>1, StatefulBodies DEF Spans
    <3>4. CASE Fail(c, "Runtime") /\ log' = log
      BY <1>1, <1>e, <1>g, <3>1, <3>2, <3>4, StatefulBodies DEF Spans, Exceptions
    <3>. QED
      BY <2>5, <3>3, <3>4 DEF EmPersist
  <2>6. CASE AddStorageValue(c)
    <3>1. Doing(c, Store) /\ Continue(c) /\ tx' = tx /\ log' = log
      BY <2>6 DEF AddStorageValue, calling, manager
    <3>2. i = 3 /\ x = k /\ e = k
      BY <1>1, <2>1, <2>2, <3>1, StatefulBodies
    <3>. QED
      BY <1>1, <1>e, <1>g, <3>1, <3>2, StatefulBodies DEF Spans
  <2>7. CASE InterceptorExit(c)
    <3>1. /\ i > Len(Body(m)) /\ at' = [at EXCEPT ![c].phase = "returning"]
          /\ tx' = tx /\ log' = log
      BY <2>7 DEF InterceptorExit, calling, manager
    <3>2. i = 4 /\ x = k /\ e = k
      BY <1>1, <2>1, <3>1, StatefulBodies
    <3>3. at'[c].phase = "returning" /\ at'[c].op = 4
      BY <1>a, <3>1, <3>2 DEF Positions
    <3>. QED
      BY <1>1, <1>e, <3>1, <3>2, <3>3, StatefulBodies DEF Spans
  <2>. QED
    BY <2>3, <2>4, <2>5, <2>6, <2>7
<1>2. CASE m = Closing
  <2>1. /\ x # k
        /\ \/ i = 1 /\ p = "body"
           \/ i = 2 /\ p = "body" /\ x = 0
    BY <1>2, <1>c, <1>f, StatefulBodies DEF Spans
  <2>2. /\ \A o : Doing(c, o) => o = Commit /\ i = 1
        /\ Commit \notin {SetTimeout, Sleep, MarkRollback, Begin, Persist, Store}
        /\ \A a \in Exceptions : Caught(a) # Commit /\ Thrown(a) # Commit
    <3>1. ASSUME NEW o, Doing(c, o) PROVE o = Commit /\ i = 1
      BY <1>2, <1>g, <3>1, StatefulBodies
    <3>2. /\ Commit \notin {SetTimeout, Sleep, MarkRollback, Begin, Persist, Store}
          /\ \A a \in Exceptions : Caught(a) # Commit /\ Thrown(a) # Commit
      BY DEF SetTimeout, Sleep, MarkRollback, Commit, Begin, Persist, Store, Do, Caught, Thrown
    <3>. QED
      BY <3>1, <3>2
  <2>3. UtxCommit(c) \/ InterceptorExit(c)
    BY <2>1, <2>2 DEF Step, UtxBegin, UtxSetTransactionTimeout, ThreadSleep, EmPersist,
       AddStorageValue, CallThrower, UtxSetRollbackOnly, UtxRollback
  <2>. SUFFICES Spans(m, k, at'[c].phase, at'[c].op, tx'[c], log'[k].entity)
    BY <1>c, <1>d, <1>e
  <2>4. CASE UtxCommit(c)
    <3>1. /\ Doing(c, Commit) /\ tx'[c] = 0
          /\ Continue(c) \/ Fail(c, "Runtime") \/ Fail(c, "Application")
      BY <1>a, <2>4 DEF UtxCommit
    <3>. QED
      BY <1>2, <1>d, <1>g, <2>2, <3>1, StatefulBodies DEF Spans, Exceptions
  <2>5. CASE InterceptorExit(c)
    <3>1. i > Len(Body(m)) /\ at' = [at EXCEPT ![c].phase = "returning"] /\ tx' = tx
      BY <2>5 DEF InterceptorExit, manager
    <3>2. i = 2 /\ x = 0
      BY <1>2, <2>1, <3>1, StatefulBodies
    <3>3. at'[c].phase = "returning" /\ at'[c].op = 2
      BY <1>a, <3>1, <3>2 DEF Positions
    <3>. QED
      BY <1>2, <1>e, <2>1, <3>1, <3>2, <3>3, StatefulBodies DEF Spans
  <2>. QED
    BY <2>3, <2>4, <2>5
<1>3. CASE m \notin {Opening, Closing}
  BY <1>3, <1>c, <1>d, <1>e DEF Spans
<1>. QED
  BY <1>1, <1>2, <1>3

(* The call of a transaction that has been handed on is over.              *)
LEMMA HandedOver ==
  ASSUME BeansInv, NEW t \in Ids, Handed(t)
  PROVE  /\ log[t].result # "none" /\ \A c \in Callers : t # call[c]
         /\ t # calls + 1
<1>1. FromStateful(t)
  <2>1. t # 0
    BY DEF Ids
  <2>2. CASE held = t
    BY <2>1, <2>2 DEF BeansInv, OwnerInv, HeldInv
  <2>3. ASSUME NEW c \in Callers, tx[c] = t, t # call[c] PROVE FromStateful(t)
    BY <2>1, <2>3 DEF BeansInv, OwnerInv, ThreadInv
  <2>. QED
    BY <2>2, <2>3 DEF Handed
<1>2. log[t].result # "none"
  BY <1>1 DEF FromStateful
<1>3. \A c \in Callers : t # call[c]
  <2>1. t # 0
    BY DEF Ids
  <2>. QED
    BY <1>2, <2>1 DEF BeansInv, CallInv
<1>4. t # calls + 1
  <2>1. calls \in Nat
    BY Flat, BeansAssumption DEF BeansInv
  <2>2. t = calls + 1 => t > calls
    BY <2>1
  <2>. QED
    BY <1>2, <2>2 DEF BeansInv, CallInv
<1>. QED
  BY <1>2, <1>3, <1>4

(* Every step of a caller keeps what is known of the others' calls and of  *)
(* the transactions handed on.                                             *)
LEMMA SpanElsewhere ==
  ASSUME BeansInv, SpanInv, NEW c \in Callers, Elsewhere(c)
  PROVE  /\ \A d \in Callers \ {c} : call'[d] # 0 =>
              Spans(MethodOf(d), call[d], at[d].phase, at[d].op, tx[d], log[call[d]].entity)'
         /\ \A t \in Ids : Handed(t) => log'[t].m = Opening /\ log'[t].entity = t
<1>1. ASSUME NEW d \in Callers \ {c}, call'[d] # 0
      PROVE  Spans(MethodOf(d), call[d], at[d].phase, at[d].op, tx[d], log[call[d]].entity)'
  <2>1. call'[d] = call[d] /\ at'[d] = at[d] /\ tx'[d] = tx[d]
    BY DEF Elsewhere
  <2>2. log'[call[d]] = log[call[d]]
    BY <1>1, <2>1, Distinct DEF Elsewhere
  <2>3. /\ MethodOf(d)' = MethodOf(d)
        /\ log'[call'[d]].entity = log[call[d]].entity
    BY <2>1, <2>2 DEF MethodOf
  <2>4. Spans(MethodOf(d), call[d], at[d].phase, at[d].op, tx[d], log[call[d]].entity)
    BY <1>1, <2>1 DEF SpanInv
  <2>. QED
    BY <2>1, <2>3, <2>4 DEF Spans
<1>2. ASSUME NEW t \in Ids, Handed(t) PROVE log'[t].m = Opening /\ log'[t].entity = t
  <2>1. log'[t] = log[t]
    BY <1>2, HandedOver DEF Elsewhere
  <2>. QED
    BY <1>2, <2>1 DEF SpanInv
<1>. QED
  BY <1>1, <1>2

(* Every step keeps the calls of the stateful bean in their spans.         *)
LEMMA SpanInductive ==
  ASSUME BeansInv, CourseInv, SpanInv, [Next]_vars
  PROVE  SpanInv'
<1>a. /\ call \in [Callers -> 0..MaxCalls]
      /\ at \in [Callers -> Positions] /\ log \in [Ids -> Entries]
      /\ tx \in [Callers -> 0..MaxCalls] /\ calls \in Nat /\ 0 \notin Ids
  BY TypeParts, BeansAssumption DEF TypeOK, BeansInv, Ids
<1>b. ASSUME call' = call, at' = at, tx' = tx, log' = log, held' = held PROVE SpanInv'
  BY <1>b DEF SpanInv, Spans, Handed, MethodOf
<1>1. CASE UNCHANGED vars
  BY <1>1, <1>b DEF vars
<1>2. ASSUME NEW t \in Ids, Timeout(t) PROVE SpanInv'
  BY <1>2, <1>b DEF Timeout, calling, bean
<1>3. ASSUME NEW c \in Callers, SetUp(c) PROVE SpanInv'
  <2>1. tx[c] = 0 /\ tx' = [tx EXCEPT ![c] = 0]
    BY <1>3 DEF SetUp, BeansInv, CallInv, OwnerInv, ThreadInv
  <2>2. tx' = tx
    BY <1>a, <2>1
  <2>. QED
    BY <1>3, <1>b, <2>2 DEF SetUp, calling, bean
<1>4. ASSUME NEW c \in Callers, NEW m \in Methods, Invoke(c, m) PROVE SpanInv'
  <2>. DEFINE k == calls + 1
  <2>1. Elsewhere(c)
    BY <1>4, StepsElsewhere
  <2>2. /\ k \in Ids /\ call'[c] = k /\ \A j \in Ids \ {k} : log'[j] = log[j]
    BY <1>4, InvokeCourse
  <2>3. log[k].entity = 0 /\ k > calls
    BY <1>a, <2>2 DEF CourseInv
  <2>4. log' = [log EXCEPT ![k].m = m] /\ at' = [at EXCEPT ![c] = [phase |-> "body", op |-> 1]]
    BY <1>4 DEF Invoke
  <2>5. log'[k].m = m /\ log'[k].entity = 0 /\ at'[c].phase = "body" /\ at'[c].op = 1
    BY <1>a, <2>2, <2>3, <2>4 DEF Entries
  <2>6. /\ held' \in {0, held} /\ tx'[c] \in {0, k, held}
        /\ m[1] = "stateful" => tx'[c] = held
    <3>1. tx' = [tx EXCEPT ![c] = IF m[1] \in {"ejb", "cdi"} THEN k
                                 ELSE IF m[1] = "stateful" THEN held ELSE 0]
      BY <1>4 DEF Invoke
    <3>. QED
      BY <1>4, <1>a, <3>1 DEF Invoke
  <2>7. held # k
    <3>1. held = k => Handed(k)
      BY DEF Handed
    <3>. QED
      BY <2>2, <3>1, HandedOver
  <2>. HIDE DEF k
  <2>8. Spans(m, k, "body", 1, tx'[c], 0)
    BY <2>6, <2>7, StatefulBodies DEF Spans
  <2>9. Spans(MethodOf(c), call[c], at[c].phase, at[c].op, tx[c], log[call[c]].entity)'
    <3>1. MethodOf(c)' = m
      BY <2>2, <2>5 DEF MethodOf
    <3>. QED
      BY <2>2, <2>5, <2>8, <3>1 DEF Spans
  <2>10. ASSUME NEW t \in Ids, Handed(t)' PROVE Handed(t)
    BY <1>a, <2>1, <2>2, <2>6, <2>10 DEF Handed, Elsewhere
  <2>11. \A j \in Ids : log'[j].m = Opening => log'[j].entity \in {0, j}
    BY <2>2, <2>5 DEF SpanInv
  <2>. QED
    BY <2>1, <2>9, <2>10, <2>11, SpanElsewhere DEF SpanInv
<1>5. ASSUME NEW c \in Callers, Step(c), ~Complete(c) PROVE SpanInv'
  <2>. DEFINE k == call[c]
              m == MethodOf(c)
  <2>1. Elsewhere(c)
    BY <1>5, StepsElsewhere
  <2>2. /\ k \in Ids /\ calls' = calls /\ call' = call /\ held' = held
        /\ log'[k].m = m /\ m = log[k].m
        /\ Spans(m, k, at'[c].phase, at'[c].op, tx'[c], log'[k].entity)
        /\ tx'[c] \in {0, k, tx[c]}
    BY <1>5, SpanStep
  <2>3. Spans(MethodOf(c), call[c], at[c].phase, at[c].op, tx[c], log[call[c]].entity)'
    <3>1. MethodOf(c)' = m /\ call'[c] = k
      BY <2>2 DEF MethodOf
    <3>. QED
      BY <2>2, <3>1 DEF Spans
  <2>4. ASSUME NEW t \in Ids, Handed(t)' PROVE Handed(t)
    BY <1>a, <2>1, <2>2, <2>4 DEF Handed, Elsewhere
  <2>5. \A j \in Ids \ {k, calls + 1} : log'[j] = log[j]
    BY <2>1 DEF Elsewhere
  <2>6. calls + 1 \in Ids => log'[calls + 1] = log[calls + 1]
    <3>1. log' = log \/ log' = [log EXCEPT ![k].entity = tx[c]]
      BY <1>5 DEF Step, UtxBegin, UtxSetTransactionTimeout, ThreadSleep, EmPersist,
         AddStorageValue, CallThrower, UtxSetRollbackOnly, UtxCommit, UtxRollback,
         InterceptorExit, calling
    <3>2. k <= calls
      BY <1>a, <2>2 DEF BeansInv, CallInv
    <3>3. calls + 1 # k
      BY <1>a, <2>2, <3>2 DEF Ids
    <3>. QED
      BY <1>a, <3>1, <3>3
  <2>7. log'[k].m = Opening => log'[k].entity \in {0, k}
    BY <2>2, StatefulBodies DEF Spans
  <2>8. \A j \in Ids : log'[j].m = Opening => log'[j].entity \in {0, j}
    BY <2>5, <2>6, <2>7 DEF SpanInv
  <2>. QED
    BY <2>1, <2>3, <2>4, <2>8, SpanElsewhere DEF SpanInv
<1>6. ASSUME NEW c \in Callers, Complete(c) PROVE SpanInv'
  <2>. DEFINE k == call[c]
              m == MethodOf(c)
              p == at[c].phase
  <2>s. Step(c)
    BY <1>6 DEF Step
  <2>1. Elsewhere(c)
    BY <2>s, StepsElsewhere
  <2>2. /\ k \in Ids /\ call'[c] = 0 /\ m = log[k].m
        /\ log' = [log EXCEPT ![k].result = CallResult(m, p, StatusOf(tx[c]))]
        /\ tx'[c] = 0 /\ p # "body"
    BY <1>6, <1>a, CompleteRecorded DEF Complete, MethodOf, Exceptions
  <2>3. \A j \in Ids : log'[j].m = log[j].m /\ log'[j].entity = log[j].entity
    BY <1>a, <2>2 DEF Entries
  <2>4. \/ held' = held
        \/ held' = tx[c] /\ m[1] = "stateful" /\ m # <<"stateful", "remove">> /\ p # "Runtime"
    BY <1>6 DEF Complete
  <2>5. ASSUME NEW t \in Ids, Handed(t)'
        PROVE  log'[t].m = Opening /\ log'[t].entity = t
    <3>1. CASE Handed(t)
      BY <2>1, <3>1, SpanElsewhere
    <3>2. CASE ~Handed(t)
      <4>1. held' = t /\ held # t
        BY <1>a, <2>1, <2>2, <2>5, <3>2 DEF Handed, Elsewhere
      <4>2. t = k /\ tx[c] = k
        BY <2>4, <3>2, <4>1 DEF Handed
      <4>3. m \in {Opening, Closing}
        <5>1. m \in Methods
          BY <1>a, <2>2 DEF BeansInv, CallInv
        <5>. QED
          BY <2>4, <4>1, <5>1, StatefulBodies
      <4>4. Spans(m, k, p, at[c].op, k, log[k].entity)
        BY <1>a, <2>2, <4>2 DEF SpanInv
      <4>5. m = Opening /\ log[k].entity = k
        BY <2>2, <2>4, <4>1, <4>3, <4>4 DEF Spans
      <4>. QED
        BY <2>2, <2>3, <4>2, <4>5
    <3>. QED
      BY <3>1, <3>2
  <2>6. \A j \in Ids : log'[j].m = Opening => log'[j].entity \in {0, j}
    BY <2>3 DEF SpanInv
  <2>. QED
    BY <2>1, <2>2, <2>5, <2>6, SpanElsewhere DEF SpanInv
<1>. QED
  BY <1>1, <1>2, <1>3, <1>4, <1>5, <1>6 DEF Next

-----------------------------------------------------------------------------
(* One commit for each entity                                              *)

Committing(c) == /\ UtxCommit(c) /\ MethodOf(c) = Closing
                 /\ tx[c] # 0 /\ status[tx[c]] = "active"

(* A step of a caller commits nothing but the transaction of its thread,   *)
(* by a commit or where a method of a container-managed bean ends.         *)
LEMMA StatusCommits ==
  ASSUME BeansInv, NEW c \in Callers, Step(c), NEW t \in Ids,
         status[t] # "committed", status'[t] = "committed"
  PROVE  /\ t = tx[c] /\ t # 0
         /\ \/ UtxCommit(c) /\ Doing(c, Commit) /\ status[t] = "active"
            \/ Complete(c) /\ MethodOf(c)[1] \in {"ejb", "cdi"}
<1>. SUFFICES /\ t = tx[c]
              /\ \/ UtxCommit(c) /\ status[t] = "active"
                 \/ Complete(c) /\ MethodOf(c)[1] \in {"ejb", "cdi"}
  BY DEF Ids, UtxCommit
<1>a. call \in [Callers -> 0..MaxCalls] /\ status \in [Ids -> Statuses]
  BY Flat DEF BeansInv
<1>. USE DEF manager
<1>1. CASE UtxBegin(c)
  BY <1>a, <1>1 DEF UtxBegin
<1>2. CASE UtxSetTransactionTimeout(c) \/ ThreadSleep(c) \/ EmPersist(c) \/ AddStorageValue(c)
           \/ InterceptorExit(c)
  BY <1>2 DEF UtxSetTransactionTimeout, ThreadSleep, EmPersist, AddStorageValue, InterceptorExit
<1>3. CASE CallThrower(c)
  BY <1>3 DEF CallThrower
<1>4. CASE UtxSetRollbackOnly(c)
  BY <1>a, <1>4 DEF UtxSetRollbackOnly
<1>5. CASE UtxCommit(c)
  BY <1>5 DEF UtxCommit
<1>6. CASE UtxRollback(c)
  BY <1>6 DEF UtxRollback
<1>7. CASE Complete(c)
  <2>1. status'[t] = IF t = tx[c] THEN FinalStatus(MethodOf(c), at[c].phase, StatusOf(tx[c]))
                     ELSE status[t]
    BY <1>7 DEF Complete
  <2>2. t = tx[c] /\ StatusOf(tx[c]) = status[t]
    BY <2>1 DEF StatusOf, Ids
  <2>3. FinalStatus(MethodOf(c), at[c].phase, status[t]) = "committed"
    BY <2>1, <2>2
  <2>4. MethodOf(c)[1] \in {"ejb", "cdi"}
    BY <2>3 DEF FinalStatus
  <2>. QED
    BY <1>7, <2>2, <2>4
<1>. QED
  BY <1>1, <1>2, <1>3, <1>4, <1>5, <1>6, <1>7 DEF Step

(* While its call is going on no opened transaction is committed.          *)
LEMMA NotWhileOpening ==
  ASSUME BeansInv, SpanInv, NEW c \in Callers, call[c] # 0
  PROVE  ~IsCommitted(call[c])
<1>. DEFINE k == call[c]
<1>1. CASE log[k].m = Opening
  <2>1. Spans(Opening, k, at[c].phase, at[c].op, tx[c], log[k].entity)
    BY <1>1 DEF SpanInv, MethodOf
  <2>2. log[k].entity = k => tx[c] = k
    BY <2>1 DEF Spans
  <2>3. tx[c] = k => status[k] # "committed"
    BY DEF BeansInv, OwnerInv, ThreadInv, Open
  <2>. QED
    BY <2>2, <2>3 DEF IsCommitted
<1>2. CASE log[k].m # Opening
  BY <1>2 DEF IsCommitted
<1>. QED
  BY <1>1, <1>2

(* A step of a caller that does not close the bean's transaction leaves    *)
(* the committed transactions as they are.                                 *)
LEMMA CommittedKept ==
  ASSUME BeansInv, CourseInv, SpanInv, BeansInv', SpanInv', [Next]_vars,
         NEW c \in Callers, Step(c), ~Committing(c), NEW j \in Ids
  PROVE  IsCommitted(j)' <=> IsCommitted(j)
<1>a. /\ call[c] \in Ids /\ call[c] # 0 /\ call[c] <= calls
      /\ MethodOf(c) \in Methods /\ MethodOf(c) = log[call[c]].m
      /\ \A i \in Ids : log'[i].m = log[i].m
      /\ \A i \in Ids \ {call[c]} : log'[i].entity = log[i].entity
      /\ Complete(c) => log'[call[c]].entity = log[call[c]].entity
      /\ ~Complete(c) => call'[c] = call[c]
  <2>1. /\ log \in [Ids -> Entries]
        /\ \/ log' = log \/ log' = [log EXCEPT ![call[c]].entity = tx[c]]
           \/ log' = [log EXCEPT ![call[c]].result =
                        CallResult(MethodOf(c), at[c].phase, StatusOf(tx[c]))]
        /\ Complete(c) => log' = [log EXCEPT ![call[c]].result =
                        CallResult(MethodOf(c), at[c].phase, StatusOf(tx[c]))]
    BY TypeParts DEF BeansInv, TypeOK, Step, UtxBegin, UtxSetTransactionTimeout, ThreadSleep,
       EmPersist, AddStorageValue, CallThrower, UtxSetRollbackOnly, UtxCommit, UtxRollback,
       InterceptorExit, Complete, calling
  <2>2. call[c] \in Ids /\ (~Complete(c) => call'[c] = call[c])
    BY SpanStep, CompleteRecorded
  <2>3. call[c] # 0 /\ call[c] <= calls /\ MethodOf(c) \in Methods /\ MethodOf(c) = log[call[c]].m
    BY <2>2 DEF Ids, BeansInv, CallInv, MethodOf
  <2>4. \A i \in Ids : log'[i].m = log[i].m
    BY <2>1, <2>2 DEF Entries
  <2>5. \A i \in Ids \ {call[c]} : log'[i].entity = log[i].entity
    BY <2>1, <2>2 DEF Entries
  <2>6. Complete(c) => log'[call[c]].entity = log[call[c]].entity
    BY <2>1, <2>2 DEF Entries
  <2>. QED
    BY <2>2, <2>3, <2>4, <2>5, <2>6
<1>b. status[j] = "committed" => status'[j] = "committed"
  BY EndedStays DEF Ended
<1>1. CASE j # call[c]
  <2>1. ASSUME status[j] # "committed", status'[j] = "committed", log[j].m = Opening PROVE FALSE
    <3>1. j = tx[c] /\ j # 0
      BY <2>1, StatusCommits
    <3>2. InStateful(c)
      BY <1>1, <3>1 DEF BeansInv, OwnerInv, ThreadInv
    <3>3. UtxCommit(c) /\ Doing(c, Commit) /\ status[j] = "active"
      BY <2>1, <3>2, StatusCommits DEF InStateful
    <3>4. MethodOf(c) = Closing
      <4>1. at[c].op \in 1..Len(Body(MethodOf(c))) /\ Body(MethodOf(c))[at[c].op] = Commit
        BY <3>3, DoingFacts DEF BeansInv
      <4>2. Commit \notin {Begin, Persist, Store}
        BY DEF Commit, Begin, Persist, Store, Do
      <4>3. MethodOf(c) # Opening
        BY <4>1, <4>2, StatefulBodies
      <4>4. MethodOf(c) \in {Opening, Closing} \/ Len(Body(MethodOf(c))) = 0
        BY <1>a, <3>2, StatefulBodies DEF InStateful
      <4>. QED
        BY <4>1, <4>3, <4>4
    <3>. QED
      BY <3>1, <3>3, <3>4 DEF Committing
  <2>. QED
    BY <1>1, <1>a, <1>b, <2>1 DEF IsCommitted
<1>2. CASE j = call[c]
  <2>1. ~IsCommitted(j)
    BY <1>2, <1>a, NotWhileOpening
  <2>2. ASSUME IsCommitted(j)' PROVE FALSE
    <3>1. log'[j].m = Opening /\ log'[j].entity = j /\ status'[j] = "committed"
      BY <2>2 DEF IsCommitted
    <3>2. MethodOf(c) = Opening
      BY <1>2, <1>a, <3>1
    <3>3. CASE Complete(c)
      <4>1. status[j] # "committed"
        BY <1>2, <1>a, <2>1, <3>1, <3>2, <3>3 DEF IsCommitted
      <4>. QED
        BY <3>1, <3>2, <3>3, <4>1, StatusCommits, StatefulBodies DEF UtxCommit, Complete, Doing,
           Exceptions
    <3>4. CASE ~Complete(c)
      <4>1. Spans(Opening, j, at'[c].phase, at'[c].op, tx'[c], j)
        BY <1>2, <3>1, <3>2, <3>4, SpanStep
      <4>2. tx'[c] = j /\ j # 0
        BY <1>2, <1>a, <4>1 DEF Spans
      <4>3. status'[j] # "committed"
        BY <4>2 DEF BeansInv, OwnerInv, ThreadInv, Open
      <4>. QED
        BY <3>1, <4>3
    <3>. QED
      BY <3>3, <3>4
  <2>. QED
    BY <2>1, <2>2
<1>. QED
  BY <1>1, <1>2

(* Nor does such a step change which calls have committed.                 *)
LEMMA CommittersKept ==
  ASSUME BeansInv, CourseInv, SpanInv, NEW c \in Callers, Step(c), ~Committing(c), NEW j \in Ids
  PROVE  HasCommitted(j)' <=> HasCommitted(j)
<1>. DEFINE k == call[c]
<1>a. /\ call \in [Callers -> 0..MaxCalls] /\ at \in [Callers -> Positions]
      /\ log \in [Ids -> Entries]
  BY TypeParts DEF BeansInv, TypeOK
<1>b. Elsewhere(c)
  BY StepsElsewhere
<1>c. /\ k \in Ids /\ k # 0 /\ log[k].result = "none" /\ MethodOf(c) = log[k].m
      /\ \A d \in Callers : call[d] = k => d = c
      /\ call'[c] \in {0, k} /\ (~Complete(c) => call'[c] = k)
  <2>1. k \in Ids /\ call'[c] \in {0, k} /\ (~Complete(c) => call'[c] = k)
    BY SpanStep, CompleteRecorded
  <2>. QED
    BY <2>1 DEF BeansInv, CallInv, Ids, MethodOf
<1>d. \A d \in Callers \ {c} : call'[d] = call[d] /\ at'[d] = at[d]
  BY <1>b DEF Elsewhere
<1>1. CASE j # k
  <2>1. log'[j] = log[j]
    <3>1. \/ log' = log \/ log' = [log EXCEPT ![k].entity = tx[c]]
          \/ log' = [log EXCEPT ![k].result =
                       CallResult(MethodOf(c), at[c].phase, StatusOf(tx[c]))]
      BY DEF Step, UtxBegin, UtxSetTransactionTimeout, ThreadSleep,
         EmPersist, AddStorageValue, CallThrower, UtxSetRollbackOnly, UtxCommit, UtxRollback,
         InterceptorExit, Complete, calling
    <3>. QED
      BY <1>1, <1>a, <3>1
  <2>2. 0 \notin Ids
    BY DEF Ids
  <2>3. (\E d \in Callers : call'[d] = j /\ at'[d].op = 2)
          <=> \E d \in Callers : call[d] = j /\ at[d].op = 2
    BY <1>1, <1>c, <1>d, <2>2
  <2>. QED
    BY <2>1, <2>3 DEF HasCommitted
<1>2. CASE j = k /\ ~Complete(c)
  <2>1. log'[k].m = log[k].m /\ log'[k].result = "none"
    BY <1>2, <1>c, SpanStep
  <2>2. ASSUME log[k].m = Closing PROVE at'[c].op = 2 <=> at[c].op = 2
    <3>1. Spans(Closing, k, at[c].phase, at[c].op, tx[c], log[k].entity)
      BY <1>c, <2>2 DEF SpanInv
    <3>2. Spans(Closing, k, at'[c].phase, at'[c].op, tx'[c], log'[k].entity)
      BY <1>2, <1>c, <2>2, SpanStep
    <3>3. \A o : Doing(c, o) => o = Commit /\ at[c].op = 1
      BY <1>c, <2>2, StatefulBodies, DoingFacts DEF BeansInv
    <3>4. /\ Commit \notin {SetTimeout, Sleep, MarkRollback, Begin, Persist, Store}
          /\ \A a \in Exceptions : Caught(a) # Commit /\ Thrown(a) # Commit
      BY DEF SetTimeout, Sleep, MarkRollback, Commit, Begin, Persist, Store, Do, Caught, Thrown
    <3>5. UtxCommit(c) \/ InterceptorExit(c)
      <4>1. at[c].phase # "rollback"
        BY <1>2, <3>1, StatefulBodies DEF Spans, Exceptions
      <4>. QED
        BY <1>2, <3>3, <3>4, <4>1 DEF Step, UtxBegin, UtxSetTransactionTimeout, ThreadSleep,
           EmPersist, AddStorageValue, CallThrower, UtxSetRollbackOnly, UtxRollback
    <3>6. CASE InterceptorExit(c)
      <4>1. at' = [at EXCEPT ![c].phase = "returning"]
        BY <3>6 DEF InterceptorExit
      <4>. QED
        BY <1>a, <4>1 DEF Positions
    <3>7. CASE UtxCommit(c)
      <4>1. Fail(c, "Runtime") \/ Fail(c, "Application")
        BY <1>c, <2>2, <3>7 DEF UtxCommit, Committing, StatusOf
      <4>. QED
        BY <1>a, <4>1 DEF Fail, Positions
    <3>. QED
      BY <3>5, <3>6, <3>7
  <2>3. call'[c] = k /\ \A d \in Callers : call'[d] = k => d = c
    BY <1>2, <1>c, <1>d
  <2>. QED
    BY <1>2, <1>c, <2>1, <2>2, <2>3 DEF HasCommitted
<1>3. CASE j = k /\ Complete(c)
  <2>1. /\ log'[k].m = log[k].m /\ call'[c] = 0
        /\ log'[k].result = CallResult(MethodOf(c), at[c].phase, StatusOf(tx[c]))
        /\ at[c].phase \in Exceptions \union {"returning"} /\ at[c].phase # "body"
    <3>1. log' = [log EXCEPT ![k].result = CallResult(MethodOf(c), at[c].phase, StatusOf(tx[c]))]
      BY <1>3 DEF Complete
    <3>2. /\ log'[k].m = log[k].m
          /\ log'[k].result = CallResult(MethodOf(c), at[c].phase, StatusOf(tx[c]))
      BY <1>a, <1>c, <3>1 DEF Entries
    <3>. QED
      BY <1>3, <3>2, CompleteRecorded DEF Complete, Exceptions
  <2>2. ASSUME log[k].m = Closing PROVE log'[k].result = "returned" <=> at[c].op = 2
    <3>1. Spans(Closing, k, at[c].phase, at[c].op, tx[c], log[k].entity)
      BY <1>c, <2>2 DEF SpanInv
    <3>2. at[c].op = 2 <=> at[c].phase = "returning"
      BY <2>1, <3>1, StatefulBodies DEF Spans, Exceptions
    <3>3. log'[k].result = "returned" <=> at[c].phase = "returning"
      BY <1>c, <2>1, <2>2, StatefulBodies DEF CallResult, Exceptions
    <3>. QED
      BY <3>2, <3>3
  <2>3. \A d \in Callers : call'[d] # k
    BY <1>c, <1>d, <2>1
  <2>. QED
    BY <1>3, <1>c, <2>1, <2>2, <2>3 DEF HasCommitted
<1>. QED
  BY <1>1, <1>2, <1>3

(* A call that begins is in neither set.                                   *)
LEMMA InvokeNeither ==
  ASSUME BeansInv, CourseInv, NEW c \in Callers, NEW m \in Methods, Invoke(c, m), NEW j \in Ids
  PROVE  (IsCommitted(j)' <=> IsCommitted(j)) /\ (HasCommitted(j)' <=> HasCommitted(j))
<1>. DEFINE k == calls + 1
<1>a. /\ call \in [Callers -> 0..MaxCalls] /\ at \in [Callers -> Positions]
      /\ log \in [Ids -> Entries] /\ calls \in Nat /\ 0 \notin Ids
  BY TypeParts, BeansAssumption DEF BeansInv, TypeOK, Ids
<1>b. /\ k \in Ids /\ call'[c] = k /\ call[c] = 0
      /\ \A i \in Ids \ {k} : log'[i] = log[i]
      /\ Elsewhere(c)
  BY InvokeCourse, StepsElsewhere DEF Invoke, BeansInv, CallInv
<1>c. /\ log[k].entity = 0 /\ log[k].result = "none"
      /\ \A d \in Callers : call[d] # k
  <2>1. k > calls
    BY <1>a
  <2>2. log[k].entity = 0 /\ log[k].result = "none"
    BY <1>b, <2>1 DEF CourseInv, BeansInv, CallInv
  <2>3. ASSUME NEW d \in Callers, call[d] = k PROVE FALSE
    <3>1. k # 0 /\ k <= calls
      BY <1>a, <1>b, <2>3 DEF BeansInv, CallInv
    <3>. QED
      BY <1>a, <3>1
  <2>. QED
    BY <2>2, <2>3
<1>d. /\ log'[k].entity = 0 /\ log'[k].result = "none" /\ at'[c].op = 1
  <2>1. log' = [log EXCEPT ![k].m = m] /\ at' = [at EXCEPT ![c] = [phase |-> "body", op |-> 1]]
    BY DEF Invoke
  <2>. QED
    BY <1>a, <1>b, <1>c, <2>1 DEF Entries
<1>e. \A d \in Callers \ {c} : call'[d] = call[d] /\ at'[d] = at[d]
  BY <1>b DEF Elsewhere
<1>. HIDE DEF k
<1>1. CASE j = k
  <2>1. k # 0
    BY <1>a, <1>b
  <2>2. ~IsCommitted(j) /\ ~IsCommitted(j)'
    BY <1>1, <1>c, <1>d, <2>1 DEF IsCommitted
  <2>3. ~HasCommitted(j)
    BY <1>1, <1>c DEF HasCommitted
  <2>4. ~HasCommitted(j)'
    BY <1>1, <1>c, <1>d, <1>e DEF HasCommitted
  <2>. QED
    BY <2>2, <2>3, <2>4
<1>2. CASE j # k
  <2>1. log'[j] = log[j]
    BY <1>2, <1>b
  <2>2. status'[j] = status[j]
    <3>1. status' = IF m[1] \in {"ejb", "cdi"} THEN [status EXCEPT ![k] = "active"] ELSE status
      BY DEF Invoke, k
    <3>. QED
      BY <1>2, <3>1, Flat DEF BeansInv
  <2>3. (\E d \in Callers : call'[d] = j /\ at'[d].op = 2)
          <=> \E d \in Callers : call[d] = j /\ at[d].op = 2
    BY <1>2, <1>a, <1>b, <1>e
  <2>. QED
    BY <2>1, <2>2, <2>3 DEF IsCommitted, HasCommitted
<1>. QED
  BY <1>1, <1>2

(* One more transaction is committed, by one more call, or nothing changes *)
(* in these sets.                                                          *)
LEMMA OneForOne ==
  ASSUME BeansInv, CourseInv, SpanInv, BeansInv', SpanInv', [Next]_vars
  PROVE  \/ Committed' = Committed /\ Committers' = Committers
         \/ \E t \in Ids \ Committed, k \in Ids \ Committers :
              Committed' = Committed \union {t} /\ Committers' = Committers \union {k}
<1>a. ASSUME \A j \in Ids : /\ IsCommitted(j)' <=> IsCommitted(j)
                            /\ HasCommitted(j)' <=> HasCommitted(j)
      PROVE  Committed' = Committed /\ Committers' = Committers
  BY <1>a DEF Committed, Committers
<1>b. ASSUME log' = log, call' = call, at' = at,
             \A j \in Ids : status'[j] = status[j] \/ "committed" \notin {status[j], status'[j]}
      PROVE  \A j \in Ids : /\ IsCommitted(j)' <=> IsCommitted(j)
                            /\ HasCommitted(j)' <=> HasCommitted(j)
  BY <1>b DEF IsCommitted, HasCommitted
<1>1. CASE UNCHANGED vars
  BY <1>1, <1>a, <1>b DEF vars
<1>2. ASSUME NEW t \in Ids, Timeout(t) PROVE Committed' = Committed /\ Committers' = Committers
  BY <1>2, <1>a, <1>b, Flat DEF Timeout, calling, BeansInv
<1>3. ASSUME NEW c \in Callers, SetUp(c) PROVE Committed' = Committed /\ Committers' = Committers
  <2>1. tx[c] = 0 /\ 0 \notin Ids
    BY <1>3 DEF SetUp, BeansInv, CallInv, OwnerInv, ThreadInv, Ids
  <2>. QED
    BY <1>3, <1>a, <1>b, <2>1 DEF SetUp, calling
<1>4. ASSUME NEW c \in Callers, NEW m \in Methods, Invoke(c, m)
      PROVE  Committed' = Committed /\ Committers' = Committers
  BY <1>4, <1>a, InvokeNeither
<1>5. ASSUME NEW c \in Callers, Step(c), ~Committing(c)
      PROVE  Committed' = Committed /\ Committers' = Committers
  BY <1>5, <1>a, CommittedKept, CommittersKept
<1>6. ASSUME NEW c \in Callers, Committing(c), NEW t, t = tx[c], NEW k, k = call[c]
      PROVE  /\ t \in Ids \ Committed /\ k \in Ids \ Committers
             /\ Committed' = Committed \union {t} /\ Committers' = Committers \union {k}
  <2>1. /\ at[c].phase = "body" /\ at[c].op = 1 /\ k \in Ids /\ k # 0
        /\ log[k].m = Closing /\ log[k].result = "none"
        /\ \A d \in Callers : call[d] = k => d = c
    <3>1. Doing(c, Commit) /\ MethodOf(c) = Closing
      BY <1>6 DEF Committing, UtxCommit
    <3>2. at[c].phase = "body" /\ at[c].op = 1 /\ k \in Ids
      BY <1>6, <3>1, StatefulBodies, DoingFacts DEF BeansInv
    <3>. QED
      BY <1>6, <3>1, <3>2 DEF BeansInv, CallInv, MethodOf, Ids
  <2>2. t \in Ids /\ status[t] = "active" /\ t # k
    <3>1. t \in Ids /\ status[t] = "active"
      BY <1>6, Flat DEF Committing, BeansInv
    <3>2. Spans(Closing, k, at[c].phase, at[c].op, t, log[k].entity)
      BY <1>6, <2>1 DEF SpanInv, Committing
    <3>. QED
      BY <1>6, <2>1, <3>1, <3>2, StatefulBodies DEF Spans
  <2>3. log[t].m = Opening /\ log[t].entity = t
    BY <1>6, <2>2 DEF SpanInv, Handed
  <2>4. /\ log' = log /\ call' = call
        /\ at' = [at EXCEPT ![c].op = 2]
        /\ status'[t] = "committed" /\ \A j \in Ids \ {t} : status'[j] = status[j]
    <3>1. Continue(c)
      BY <1>6, <2>2 DEF Committing, UtxCommit, StatusOf
    <3>2. at' = [at EXCEPT ![c].op = 2]
      BY <1>6, <2>1, <3>1, StatefulBodies DEF Continue, MethodOf, Committing, Doing, UtxCommit
    <3>. QED
      BY <1>6, <2>2, <3>2 DEF Committing, UtxCommit, calling
  <2>5. at'[c].op = 2 /\ \A d \in Callers \ {c} : at'[d] = at[d]
    BY <2>4, TypeParts DEF BeansInv, TypeOK, Positions
  <2>6. /\ ~IsCommitted(t) /\ IsCommitted(t)'
        /\ \A j \in Ids \ {t} : IsCommitted(j)' <=> IsCommitted(j)
    BY <2>2, <2>3, <2>4 DEF IsCommitted
  <2>7. /\ ~HasCommitted(k) /\ HasCommitted(k)'
        /\ \A j \in Ids \ {k} : HasCommitted(j)' <=> HasCommitted(j)
    BY <1>6, <2>1, <2>4, <2>5 DEF HasCommitted
  <2>8. t \in Ids \ Committed /\ Committed' = Committed \union {t}
    BY <2>2, <2>6 DEF Committed
  <2>9. k \in Ids \ Committers /\ Committers' = Committers \union {k}
    BY <2>1, <2>7 DEF Committers
  <2>. QED
    BY <2>8, <2>9
<1>7. ASSUME NEW c \in Callers, Committing(c)
      PROVE  \E t \in Ids \ Committed, k \in Ids \ Committers :
               Committed' = Committed \union {t} /\ Committers' = Committers \union {k}
  BY <1>6, <1>7
<1>. QED
  BY <1>1, <1>2, <1>3, <1>4, <1>5, <1>7 DEF Next

(* Every step keeps the two sets of one size.                              *)
LEMMA CountInductive ==
  ASSUME BeansInv, CourseInv, SpanInv, CountInv, BeansInv', SpanInv', [Next]_vars
  PROVE  CountInv'
<1>1. IsFiniteSet(Committed) /\ IsFiniteSet(Committers)
  <2>1. IsFiniteSet(Ids)
    BY FS_Interval, BeansAssumption DEF Ids
  <2>2. Committed \subseteq Ids /\ Committers \subseteq Ids
    BY DEF Committed, Committers
  <2>. QED
    BY <2>1, <2>2, FS_Subset
<1>2. CASE Committed' = Committed /\ Committers' = Committers
  BY <1>2 DEF CountInv
<1>3. ASSUME NEW t \in Ids \ Committed, NEW k \in Ids \ Committers,
             Committed' = Committed \union {t}, Committers' = Committers \union {k}
      PROVE  CountInv'
  <2>1. /\ Cardinality(Committed \union {t}) = Cardinality(Committed) + 1
        /\ Cardinality(Committers \union {k}) = Cardinality(Committers) + 1
    BY <1>1, FS_AddElement
  <2>. QED
    BY <1>3, <2>1 DEF CountInv
<1>. QED
  BY <1>2, <1>3, OneForOne

(* In every run the calls of the stateful bean keep to their spans, and    *)
(* each entity committed in one is matched by the call that committed it.  *)
THEOREM SpanInvariant == Spec => [](SpanInv /\ CountInv)
<1>1. Init => SpanInv /\ CountInv
  <2>. SUFFICES ASSUME Init PROVE SpanInv /\ CountInv
    OBVIOUS
  <2>1. /\ \A c \in Callers : call[c] = 0 /\ tx[c] = 0
        /\ \A k \in Ids : log[k].m = <<"none", "none">> /\ log[k].entity = 0 /\ k # 0
        /\ held = 0
    BY DEF Init, Ids
  <2>2. SpanInv
    BY <2>1 DEF SpanInv, Handed, Opening
  <2>3. Committed = {} /\ Committers = {}
    BY <2>1 DEF Committed, Committers, IsCommitted, HasCommitted, Opening, Closing
  <2>. QED
    BY <2>2, <2>3 DEF CountInv
<1>2. BeansInv /\ CourseInv /\ SpanInv /\ [Next]_vars => SpanInv'
  BY SpanInductive
<1>3. BeansInv /\ CourseInv /\ SpanInv /\ CountInv /\ BeansInv' /\ SpanInv' /\ [Next]_vars
        => CountInv'
  BY CountInductive
<1>. QED
  BY <1>1, <1>2, <1>3, CourseInvariant, PTL DEF Spec

(* The stateful bean's transactions span calls of several threads, and     *)
(* still its entities are committed by exactly the commitTransaction calls *)
(* that return, one each.                                                  *)
THEOREM CommitsAcrossCallsHolds == Spec => []CommitsAcrossCalls
<1>1. SpanInv /\ CountInv => CommitsAcrossCalls
  <2>. SUFFICES ASSUME SpanInv, CountInv, StatefulIdle
                PROVE  Cardinality({k \in StatefulCalls("beginTransaction") : Persisted(k)})
                         = Cardinality({k \in StatefulCalls("commitTransaction") :
                                          log[k].result = "returned"})
    BY DEF CommitsAcrossCalls
  <2>1. {k \in StatefulCalls("beginTransaction") : Persisted(k)} = Committed
    <3>1. \A k \in Ids : log[k].m = Opening => (Persisted(k) <=> IsCommitted(k))
      BY DEF SpanInv, Persisted, IsCommitted, Ids
    <3>. QED
      BY <3>1 DEF StatefulCalls, Committed, IsCommitted, Opening
  <2>2. {k \in StatefulCalls("commitTransaction") : log[k].result = "returned"} = Committers
    <3>1. \A c \in Callers, k \in Ids : log[k].m = Closing => call[c] # k
      BY StatefulBodies DEF StatefulIdle, MethodOf, Ids
    <3>. QED
      BY <3>1 DEF StatefulCalls, Committers, HasCommitted, Closing
  <2>. QED
    BY <2>1, <2>2 DEF CountInv
<1>. QED
  BY <1>1, SpanInvariant, PTL

=============================================================================
