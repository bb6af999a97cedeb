------------------------- MODULE ContainerCallsProofs -------------------------
(***************************************************************************)
(* Proofs about ContainerCalls for any threads, any pool and any number of *)
(* tests and faults: the types of the variables, that transactions are     *)
(* confined to the thread that began them and are never used once ended    *)
(* (Confined), and that an entity, an identifier and the listeners tell of *)
(* a transaction what has become of it (ReportsAgree).                     *)
(***************************************************************************)
EXTENDS ContainerCalls, SequenceTheorems, TLAPS

-----------------------------------------------------------------------------
(* The methods                                                             *)

(* The attributes of methods that end a transaction with an operation of   *)
(* their own; of the others only the owner of a transaction ends it.       *)
Ending == {"TEST", "CATCH", "BEAN"}

(* A method calls methods that exist, and commits only if it is one whose  *)
(* transactions are not the container's: then once, what it has begun      *)
(* first.  One method alone is called asynchronously.                      *)
GoodMethod(m, names) ==
  /\ Len(m.body) \in Nat /\ DOMAIN m.body = 1..Len(m.body)
  /\ \A i \in DOMAIN m.body :
       /\ m.body[i][1] = "commit" =>
            /\ m.attribute \in Ending \ {"CATCH"} /\ i > 1 /\ m.body[1][1] = "begin"
            /\ \A j \in DOMAIN m.body : m.body[j][1] = "commit" => j = i
       /\ m.body[i][1] \in {"call", "async"} => m.body[i][2] \in names
       /\ m.body[i][1] = "async" => m.body[i][2] = "beingCalled"
       /\ m.body[i][1] = "register" => m.body[i][2] = "listener"
  /\ m.attribute = "CATCH" => 1 \in DOMAIN m.body /\ m.body[1][1] = "begin"

Class(c, names) == \A m \in DOMAIN c : GoodMethod(c[m], names)

(* What the bodies of the methods are: the facts about the data of the     *)
(* module that the invariant rests on, and nothing more of it.             *)
LEMMA MethodFacts ==
  /\ \A m \in DOMAIN Methods : GoodMethod(Methods[m], DOMAIN Methods)
  /\ DOMAIN Tests \subseteq DOMAIN Methods
<1>. DEFINE N == DOMAIN Methods
            Called == UNION {DOMAIN c : c \in Beans}
<1>a. /\ N = UNION {DOMAIN c : c \in TestCases \union Beans}
      /\ DOMAIN Tests = UNION {DOMAIN c : c \in TestCases}
      /\ \A m \in N : \E c \in TestCases \union Beans : m \in DOMAIN c /\ Methods[m] = c[m]
  BY DEF Methods, Tests, Together
<1>b. {"required", "never", "mandatory", "requiresNew", "cdiRequired", "cdiNever",
       "cdiMandatory", "cdiRequiresNew", "childNever", "childMandatory",
       "createTableWithRethrow", "createTableAndCatch", "createTableInNewTxn",
       "callRethrower", "callCatch", "callRequiresNew", "synchronize",
       "synchronizeRegistry", "doWorkSynchro", "remove", "doWorkBmt", "removeBmt",
       "callAsync", "beingCalled"} \subseteq N
  <2>1. \A c \in Beans : DOMAIN c \subseteq N
    BY <1>a
  <2>2. {"required", "never", "mandatory", "requiresNew"} \subseteq N
    BY <2>1 DEF Beans, TransactionAttributeEjbBean
  <2>3. {"cdiRequired", "cdiNever", "cdiMandatory", "cdiRequiresNew"} \subseteq N
    BY <2>1 DEF Beans, TransactionAttributeCdiBean
  <2>4. {"childNever", "childMandatory"} \subseteq N
    BY <2>1 DEF Beans, TransactionAttributeEjbChildBean
  <2>5. {"createTableWithRethrow", "createTableAndCatch", "createTableInNewTxn"} \subseteq N
    BY <2>1 DEF Beans, TableCreator
  <2>6. {"callRethrower", "callCatch", "callRequiresNew"} \subseteq N
    BY <2>1 DEF Beans, CallerBean
  <2>7. {"synchronize", "synchronizeRegistry"} \subseteq N
    BY <2>1 DEF Beans, BeanSynchronization, BeanSynchronizationRegistry
  <2>8. {"doWorkSynchro", "remove", "doWorkBmt", "removeBmt"} \subseteq N
    BY <2>1 DEF Beans, StatefulSynchronizationAnnotationsBean,
                StatefulBmtSynchronizationAnnotationsBean
  <2>9. {"callAsync", "beingCalled"} \subseteq N
    BY <2>1 DEF Beans, AsynchronousCallerBean, AsynchronouslyCalledBean
  <2>. QED
    BY <2>2, <2>3, <2>4, <2>5, <2>6, <2>7, <2>8, <2>9
<1>. HIDE DEF N
<1>. USE DEF Class, GoodMethod, Method, Ending, Do, Call, CallAndCatch, Store
<1>1. /\ Class(TransactionAttributeEjbBean, N) /\ Class(TransactionAttributeCdiBean, N)
      /\ Class(TransactionAttributeEjbChildBean, N)
  BY DEF TransactionAttributeEjbBean, TransactionAttributeCdiBean, TransactionAttributeEjbChildBean
<1>2. Class(TableCreator, N)
  BY DEF TableCreator
<1>3. Class(CallerBean, N)
  <2>1. ASSUME NEW op, op[1] = "call", op[2] \in N
        PROVE  GoodMethod(Method("REQUIRED", <<op>> \o <<Do("persist"), Store("id")>>), N)
    <3>. DEFINE p == Do("persist")
                q == Store("id")
                b == <<op>> \o <<p, q>>
    <3>1. p[1] = "persist" /\ q[1] = "store"
      OBVIOUS
    <3>. HIDE DEF p, q
    <3>2. /\ DOMAIN b = 1..3 /\ b[1] = op /\ b[2] = p /\ b[3] = q
      <4>. DEFINE S == {op, p, q}
                  s1 == <<op>>
                  s2 == <<p, q>>
      <4>1. s1 \in Seq(S) /\ s2 \in Seq(S) /\ Len(s1) = 1 /\ Len(s2) = 2
            /\ s1[1] = op /\ s2[1] = p /\ s2[2] = q
        OBVIOUS
      <4>2. b = s1 \o s2
        OBVIOUS
      <4>. HIDE DEF S, s1, s2, b
      <4>3. /\ s1 \o s2 \in Seq(S)
            /\ Len(s1 \o s2) = Len(s1) + Len(s2)
            /\ \A i \in 1..Len(s1) + Len(s2) :
                 (s1 \o s2)[i] = IF i <= Len(s1) THEN s1[i] ELSE s2[i - Len(s1)]
        BY <4>1, ConcatProperties
      <4>4. Len(b) = 3 /\ b \in Seq(S)
            /\ \A i \in 1..3 : b[i] = IF i <= 1 THEN s1[i] ELSE s2[i - 1]
        BY <4>1, <4>2, <4>3
      <4>. QED
        BY <4>1, <4>4
    <3>3. \A i \in DOMAIN b : b[i][1] \notin {"commit", "async", "register"}
                              /\ (b[i][1] = "call" => b[i][2] \in N)
      BY <2>1, <3>1, <3>2
    <3>. HIDE DEF b
    <3>4. GoodMethod(Method("REQUIRED", b), N)
      BY <3>3
    <3>. QED
      BY <3>4 DEF b, p, q
  <2>. DEFINE Saving(op) == Method("REQUIRED", <<op>> \o <<Do("persist"), Store("id")>>)
  <2>2. ASSUME NEW m \in N
        PROVE  GoodMethod(Saving(CallAndCatch(m)), N) /\ GoodMethod(Saving(Call(m)), N)
    <3>1. /\ CallAndCatch(m)[1] = "call" /\ CallAndCatch(m)[2] \in N
          /\ Call(m)[1] = "call" /\ Call(m)[2] \in N
      OBVIOUS
    <3>. QED
      BY <2>1, <3>1
  <2>3. CallerBean = [callRethrower   |-> Saving(CallAndCatch("createTableWithRethrow")),
                      callCatch       |-> Saving(CallAndCatch("createTableAndCatch")),
                      callRequiresNew |-> Saving(Call("createTableInNewTxn"))]
    BY DEF CallerBean
  <2>. HIDE DEF GoodMethod, Method, Do, Call, CallAndCatch, Store, Saving
  <2>. QED
    BY <1>b, <2>2, <2>3
<1>4. /\ Class(BeanSynchronization, N) /\ Class(BeanSynchronizationRegistry, N)
      /\ Class(StatefulSynchronizationAnnotationsBean, N)
      /\ Class(StatefulBmtSynchronizationAnnotationsBean, N)
  BY DEF BeanSynchronization, BeanSynchronizationRegistry, StatefulSynchronizationAnnotationsBean,
         StatefulBmtSynchronizationAnnotationsBean
<1>5. Class(AsynchronousCallerBean, N) /\ Class(AsynchronouslyCalledBean, N)
  <2>1. Class(AsynchronousCallerBean, N)
    BY <1>b DEF AsynchronousCallerBean
  <2>2. Class(AsynchronouslyCalledBean, N)
    BY DEF AsynchronouslyCalledBean
  <2>. QED
    BY <2>1, <2>2
<1>6. ASSUME NEW m \in N
      PROVE  /\ GoodMethod(TestCalls(m), N) /\ GoodMethod(TestStarted(m), N)
             /\ GoodMethod(TestStartedRollback(m), N)
  <2>1. GoodMethod(TestCalls(m), N)
    BY DEF TestCalls
  <2>2. GoodMethod(TestStarted(m), N)
    BY DEF TestStarted
  <2>3. GoodMethod(TestStartedRollback(m), N)
    BY DEF TestStartedRollback
  <2>. QED
    BY <2>1, <2>2, <2>3
<1>7. /\ GoodMethod(Method("TEST", <<Do("begin"), Call("childNever"), Do("commit")>>), N)
      /\ GoodMethod(Method("TEST", <<Call("doWorkSynchro"), Do("check"), Call("remove")>>), N)
      /\ GoodMethod(Method("TEST", <<Call("doWorkBmt"), Do("check"), Call("removeBmt")>>), N)
  BY <1>b
<1>. HIDE DEF GoodMethod, Method, Ending, Do, Call, CallAndCatch, Store
<1>8. Class(TransactionAttributesEjbTestCase, N)
  BY <1>b, <1>6, <1>7 DEF TransactionAttributesEjbTestCase
<1>9. Class(TransactionAttributesCdiTestCase, N)
  BY <1>b, <1>6 DEF TransactionAttributesCdiTestCase
<1>10. Class(OnDatasourceConnectionFailTestCase, N) /\ Class(AsynchronousCallTestCase, N)
  BY <1>b, <1>6 DEF OnDatasourceConnectionFailTestCase, AsynchronousCallTestCase
<1>11. Class(SynchronizationTests, N)
  BY <1>b, <1>6, <1>7 DEF SynchronizationTests
<1>12. \A c \in TestCases \union Beans : Class(c, N)
  BY <1>1, <1>2, <1>3, <1>4, <1>5, <1>8, <1>9, <1>10, <1>11 DEF TestCases, Beans
<1>13. \A m \in N : GoodMethod(Methods[m], N)
  BY <1>a, <1>12 DEF Class
<1>. QED
  BY <1>a, <1>13 DEF N

-----------------------------------------------------------------------------
(* The invariant                                                           *)

Frames == [method : DOMAIN Methods, pc : Nat \ {0}, step : Steps, outer : Nat, owner : BOOLEAN]
Txs == [status : Statuses, by : {"container", "bean", "test"}, aborted : BOOLEAN,
        entity : BOOLEAN, listeners : SUBSET {"listener", "session"}]

(* TypeOK in the form the steps need: a method is one of Methods, and what *)
(* is on a stack, or waits for the pool, is a call of one.                 *)
Typed ==
  /\ test \in DOMAIN Tests \union {"none"} /\ thread \in Threads \union {"none"}
  /\ n \in 0..MaxTests /\ faults \in 0..MaxFaults /\ disturbed \in BOOLEAN
  /\ txs \in Seq(Txs)
  /\ current \in [Workers -> 0..Len(txs)]
  /\ raised \in [Workers -> Exceptions]
  /\ stack \in [Workers -> Seq(Frames)]
  /\ \A w \in Workers : \A k \in DOMAIN stack[w] : stack[w][k].outer \in 0..Len(txs)
  /\ jobs \in Seq((DOMAIN Methods) \X Nat)
  /\ "id" \in DOMAIN results /\ results.id \in 0..Len(txs)

Alive(i) == i # 0 => txs[i].status \in Live

(* A call that ends the transaction it works in.                           *)
Ends(f) == f.owner \/ Methods[f.method].attribute \in Ending

(* The transaction of the k-th call of a thread: the callee has put it     *)
(* aside.                                                                  *)
Working(w, k) == IF k = Len(stack[w]) THEN current[w] ELSE stack[w][k + 1].outer

(* The k-th call of a thread: what its caller has put aside lives, unless  *)
(* it is the thread's own transaction; only the innermost call is anywhere *)
(* but in its body; one that ends its transaction has not taken it over    *)
(* from any caller.                                                        *)
CallInv(w, k) ==
  /\ stack[w][k].outer # current[w] => Alive(stack[w][k].outer)
  /\ k < Len(stack[w]) => stack[w][k].step = "body"
  /\ stack[w][k].step \in {"before", "complete", "after"} => Ends(stack[w][k])
  /\ stack[w][k].step \in {"body", "before", "complete", "after"} /\ Ends(stack[w][k]) =>
       \A j \in 1..k : stack[w][j].outer # 0 => stack[w][j].outer # Working(w, k)

(* A thread's own transaction lives until its completion.                  *)
ThreadInv(w) ==
  /\ (stack[w] # <<>> /\ Top(w).step = "after") \/ Alive(current[w])
  /\ \A k \in DOMAIN stack[w] : CallInv(w, k)

(* A test that has calls on its thread is the one that runs.               *)
RunsThere(w) == w \in Threads /\ stack[w] # <<>> => thread = w

Apart(v, w) == InUse(v) \cap InUse(w) = {}

CallsInv ==
  /\ \A w \in Workers : ThreadInv(w) /\ RunsThere(w)
  /\ \A v, w \in Workers : v # w => Apart(v, w)


-----------------------------------------------------------------------------
(* Stacks                                                                  *)

(* The calls of a thread, the last of them f, after a step that left the   *)
(* first k as they were; the other threads are where they were.            *)
Stacked(w, k, f) ==
  /\ stack' \in [Workers -> Seq(Frames)]
  /\ Len(stack'[w]) = k + 1 /\ stack'[w][k + 1] = f
  /\ \A i \in 1..k : stack'[w][i] = stack[w][i]
  /\ \A v \in Workers \ {w} : stack'[v] = stack[v]

(* A stack whose innermost frame is replaced, frame by frame.              *)
LEMMA AppendFront ==
  ASSUME NEW S, NEW s \in Seq(S), s # <<>>, NEW f \in S
  PROVE  /\ Append(Front(s), f) \in Seq(S) /\ Len(Append(Front(s), f)) = Len(s)
         /\ Append(Front(s), f)[Len(s)] = f
         /\ \A i \in 1..Len(s) - 1 : Append(Front(s), f)[i] = s[i]
         /\ Len(s) \in Nat \ {0} /\ Front(s) \in Seq(S) /\ Len(Front(s)) = Len(s) - 1
         /\ \A i \in 1..Len(s) - 1 : Front(s)[i] = s[i]
<1>1. Len(s) \in Nat /\ Len(s) > 0
  BY EmptySeq, LenProperties
<1>2. Front(s) = SubSeq(s, 1, Len(s) - 1)
  BY DEF Front
<1>3. /\ Front(s) \in Seq(S) /\ Len(Front(s)) = Len(s) - 1
      /\ \A i \in 1..Len(s) - 1 : Front(s)[i] = s[i]
  <2>. DEFINE m == Len(s) - 1
              u == SubSeq(s, 1, m)
  <2>1. m \in Nat /\ m <= Len(s)
    BY <1>1
  <2>2. \A i \in 1..m : s[i] \in S
    BY <1>1
  <2>3. /\ SubSeq(s, 1, m) \in Seq(S)
        /\ Len(SubSeq(s, 1, m)) = IF 1 <= m THEN m - 1 + 1 ELSE 0
        /\ \A i \in 1..m - 1 + 1 : SubSeq(s, 1, m)[i] = s[1 + i - 1]
    <3>. HIDE DEF m
    <3>1. m \in Int /\ 1 \in Int
      BY <2>1
    <3>. QED
      BY <2>2, <3>1, SubSeqProperties
  <2>4. u \in Seq(S) /\ Len(u) = m /\ \A i \in 1..m : u[i] = s[i]
    <3>. HIDE DEF m
    <3>. QED
      BY <2>1, <2>3
  <2>5. Front(s) = u
    BY <1>2
  <2>. HIDE DEF u
  <2>. QED
    BY <2>4, <2>5
<1>4. /\ Append(Front(s), f) \in Seq(S) /\ Len(Append(Front(s), f)) = Len(Front(s)) + 1
      /\ \A i \in 1..Len(Front(s)) : Append(Front(s), f)[i] = Front(s)[i]
      /\ Append(Front(s), f)[Len(Front(s)) + 1] = f
  BY <1>3, AppendProperties
<1>. QED
  BY <1>1, <1>3, <1>4

(* A step inside the innermost call.                                       *)
LEMMA Replacing ==
  ASSUME stack \in [Workers -> Seq(Frames)], NEW w \in Workers, stack[w] # <<>>,
         NEW f \in Frames, stack' = ReplaceTop(w, f)
  PROVE  Stacked(w, Len(stack[w]) - 1, f)
<1>1. stack' = [stack EXCEPT ![w] = Append(Front(stack[w]), f)]
  BY DEF ReplaceTop
<1>2. stack[w] \in Seq(Frames)
  OBVIOUS
<1>. DEFINE s == Append(Front(stack[w]), f)
<1>3. /\ s \in Seq(Frames) /\ Len(s) = Len(stack[w]) /\ s[Len(stack[w])] = f
      /\ \A i \in 1..Len(stack[w]) - 1 : s[i] = stack[w][i]
      /\ Len(stack[w]) \in Nat \ {0}
  BY <1>2, AppendFront
<1>. HIDE DEF s
<1>4. stack' = [stack EXCEPT ![w] = s]
  BY <1>1 DEF s
<1>. QED
  BY <1>3, <1>4 DEF Stacked

(* A call of another method.                                               *)
LEMMA Pushing ==
  ASSUME stack \in [Workers -> Seq(Frames)], NEW w \in Workers, NEW f \in Frames,
         stack' = [stack EXCEPT ![w] = Append(@, f)]
  PROVE  Stacked(w, Len(stack[w]), f)
<1>1. stack[w] \in Seq(Frames)
  OBVIOUS
<1>. DEFINE s == Append(stack[w], f)
<1>2. /\ s \in Seq(Frames) /\ Len(s) = Len(stack[w]) + 1 /\ s[Len(stack[w]) + 1] = f
      /\ \A i \in 1..Len(stack[w]) : s[i] = stack[w][i]
  BY <1>1, AppendProperties
<1>3. stack' = [stack EXCEPT ![w] = s]
  OBVIOUS
<1>. HIDE DEF s
<1>. QED
  BY <1>2, <1>3 DEF Stacked

(* The return to the caller, whose frame becomes f.                        *)
LEMMA Popping ==
  ASSUME stack \in [Workers -> Seq(Frames)], NEW w \in Workers, stack[w] # <<>>,
         Front(stack[w]) # <<>>, NEW f \in Frames,
         stack' = [stack EXCEPT ![w] = Append(Front(Front(stack[w])), f)]
  PROVE  /\ Len(stack[w]) >= 2 /\ Last(Front(stack[w])) = stack[w][Len(stack[w]) - 1]
         /\ Stacked(w, Len(stack[w]) - 2, f)
<1>1. stack[w] \in Seq(Frames)
  OBVIOUS
<1>. DEFINE c == Front(stack[w])
            s == Append(Front(c), f)
<1>2. /\ c \in Seq(Frames) /\ Len(c) = Len(stack[w]) - 1 /\ Len(stack[w]) \in Nat \ {0}
      /\ \A i \in 1..Len(stack[w]) - 1 : c[i] = stack[w][i]
  BY <1>1, AppendFront
<1>3. c # <<>>
  OBVIOUS
<1>4. stack' = [stack EXCEPT ![w] = s]
  OBVIOUS
<1>5. Last(Front(stack[w])) = c[Len(c)]
  BY DEF Last
<1>. HIDE DEF c
<1>6. /\ s \in Seq(Frames) /\ Len(s) = Len(c) /\ s[Len(c)] = f
      /\ \A i \in 1..Len(c) - 1 : s[i] = c[i]
      /\ Len(c) \in Nat \ {0}
  BY <1>2, <1>3, AppendFront
<1>. HIDE DEF s
<1>7. Len(stack[w]) >= 2 /\ c[Len(c)] = stack[w][Len(stack[w]) - 1]
  BY <1>2, <1>6
<1>8. /\ stack' \in [Workers -> Seq(Frames)] /\ stack'[w] = s
      /\ \A v \in Workers \ {w} : stack'[v] = stack[v]
  BY <1>4, <1>6
<1>9. \A i \in 1..Len(stack[w]) - 2 : s[i] = stack[w][i]
  BY <1>2, <1>6
<1>10. Len(s) = Len(stack[w]) - 2 + 1 /\ s[Len(stack[w]) - 2 + 1] = f
  BY <1>2, <1>6
<1>11. Stacked(w, Len(stack[w]) - 2, f)
  BY <1>8, <1>9, <1>10 DEF Stacked
<1>. QED
  BY <1>5, <1>7, <1>11

(* The innermost call of a thread.                                         *)
LEMMA TopFacts ==
  ASSUME stack \in [Workers -> Seq(Frames)], NEW w \in Workers, stack[w] # <<>>
  PROVE  /\ Len(stack[w]) \in Nat \ {0} /\ DOMAIN stack[w] = 1..Len(stack[w])
         /\ Top(w) = stack[w][Len(stack[w])] /\ Top(w) \in Frames
<1>1. stack[w] \in Seq(Frames)
  OBVIOUS
<1>2. /\ Len(stack[w]) \in Nat /\ Len(stack[w]) > 0 /\ DOMAIN stack[w] = 1..Len(stack[w])
      /\ \A i \in 1..Len(stack[w]) : stack[w][i] \in Frames
  BY <1>1, EmptySeq, LenProperties, ElementOfSeq
<1>. QED
  BY <1>2 DEF Top, Last

-----------------------------------------------------------------------------
(* The steps by their kind                                                 *)

(* Thread w moves; it alone may give its own transaction another status.   *)
Moves(w) ==
  /\ Len(txs') >= Len(txs)
  /\ \A i \in 1..Len(txs) : i # current[w] => txs'[i].status = txs[i].status
  /\ \A v \in Workers \ {w} : current'[v] = current[v] /\ stack'[v] = stack[v]

SameStatuses ==
  /\ Len(txs') >= Len(txs)
  /\ \A i \in 1..Len(txs) : txs'[i].status = txs[i].status

Inside(f, t) == f.method = t.method /\ f.outer = t.outer

(* A transaction, if it is one, is alive after the step.                   *)
LivesOn(i) == i # 0 => txs'[i].status \in Live

(* The innermost call goes on in the transaction it has.                   *)
GoesOn(w, f) ==
  /\ Moves(w) /\ stack[w] # <<>> /\ Stacked(w, Len(stack[w]) - 1, f) /\ Inside(f, Top(w))
  /\ current'[w] = current[w]
  /\ current[w] # 0 /\ txs[current[w]].status \in Live => txs'[current[w]].status \in Live
  /\ Top(w).step # "after" /\ f.step # "after"
  /\ f.step \in {"before", "complete"} => Ends(f)
  /\ f.step \in {"body", "before", "complete"} /\ Ends(f) =>
       Ends(Top(w)) /\ Top(w).step \in {"body", "before", "complete"}

(* It ends its transaction.                                                *)
Settles(w, f) ==
  /\ Moves(w) /\ stack[w] # <<>> /\ Stacked(w, Len(stack[w]) - 1, f) /\ Inside(f, Top(w))
  /\ current'[w] = current[w]
  /\ Ends(Top(w)) /\ Top(w).step \in {"body", "before", "complete"}
  /\ Ends(f) /\ f.step = "after"

(* It goes on in a new transaction, or in none.                            *)
Changes(w, f) ==
  /\ Moves(w) /\ stack[w] # <<>> /\ Stacked(w, Len(stack[w]) - 1, f) /\ Inside(f, Top(w))
  /\ SameStatuses
  /\ \/ current'[w] = 0
     \/ current'[w] = Len(txs) + 1 /\ txs'[Len(txs) + 1].status \in Live
  /\ f.step \in {"body", "return"}

(* It calls a method.                                                      *)
Calls(w, f) ==
  /\ Moves(w) /\ SameStatuses /\ current'[w] = current[w]
  /\ stack[w] # <<>> /\ Top(w).step = "body" /\ Stacked(w, Len(stack[w]), f)
  /\ f.step = "enter" /\ f.outer = current[w]

(* It comes back to its caller.                                            *)
ComesBack(w, f) ==
  /\ Moves(w) /\ SameStatuses /\ current'[w] = Top(w).outer
  /\ Len(stack[w]) >= 2 /\ Top(w).step = "return" /\ Stacked(w, Len(stack[w]) - 2, f)
  /\ f.outer = stack[w][Len(stack[w]) - 1].outer
  /\ f.step = stack[w][Len(stack[w]) - 1].step
  /\ Ends(f) => Ends(stack[w][Len(stack[w]) - 1])

(* A first call, of a test or of an asynchronous method.                   *)
Starts(w, f) ==
  /\ Moves(w) /\ Stacked(w, 0, f)
  /\ \/ current'[w] = 0
     \/ current'[w] = current[w] /\ stack[w] = <<>> /\ SameStatuses
  /\ \/ f.step = "body" /\ f.outer = 0
     \/ f.step = "enter" /\ f.outer = current'[w]

(* The last call is over.                                                  *)
Finishes(w) ==
  /\ Moves(w) /\ SameStatuses /\ current'[w] = current[w]
  /\ stack[w] # <<>> /\ Top(w).step = "return" /\ stack'[w] = <<>>
  /\ stack' \in [Workers -> Seq(Frames)]

Kinds(w) ==
  \/ Finishes(w)
  \/ \E f \in Frames :
       GoesOn(w, f) \/ Settles(w, f) \/ Changes(w, f) \/ Calls(w, f) \/ ComesBack(w, f)
         \/ Starts(w, f)

-----------------------------------------------------------------------------
(* What the steps keep                                                     *)

(* The ranges of what a thread holds.                                      *)
LEMMA Flat ==
  ASSUME Typed, NEW w \in Workers
  PROVE  /\ Len(txs) \in Nat /\ current[w] \in 0..Len(txs)
         /\ Len(stack[w]) \in Nat /\ DOMAIN stack[w] = 1..Len(stack[w])
         /\ stack[w] = <<>> <=> Len(stack[w]) = 0
         /\ \A k \in 1..Len(stack[w]) :
              stack[w][k] \in Frames /\ stack[w][k].outer \in 0..Len(txs)
<1>1. stack[w] \in Seq(Frames) /\ txs \in Seq(Txs)
  BY DEF Typed
<1>2. /\ Len(stack[w]) \in Nat /\ DOMAIN stack[w] = 1..Len(stack[w])
      /\ stack[w] = <<>> <=> Len(stack[w]) = 0
      /\ \A k \in 1..Len(stack[w]) : stack[w][k] \in Frames
  BY <1>1, EmptySeq, LenProperties, ElementOfSeq
<1>3. Len(txs) \in Nat
  BY <1>1, LenProperties
<1>. QED
  BY <1>2, <1>3 DEF Typed

(* The invariant of a thread whose stack has become its first k calls with *)
(* f on top, from what holds of f and of its transaction.                  *)
LEMMA StackKept ==
  ASSUME Typed, Typed', NEW w \in Workers, ThreadInv(w),
         NEW f \in Frames, NEW k \in 0..Len(stack[w]), Stacked(w, k, f),
         k = Len(stack[w]) /\ k # 0 => stack[w][k].step = "body",
         k # 0 => f.outer = Working(w, k),
         f.step = "after" \/ LivesOn(current'[w]),
         \A i \in 1..k : stack[w][i].outer # current'[w] => LivesOn(stack[w][i].outer),
         f.outer # current'[w] => LivesOn(f.outer),
         f.step \in {"before", "complete", "after"} => Ends(f),
         f.step \in {"body", "before", "complete", "after"} /\ Ends(f) =>
           /\ f.outer # 0 => f.outer # current'[w]
           /\ \A j \in 1..k : stack[w][j].outer # 0 => stack[w][j].outer # current'[w]
  PROVE  ThreadInv(w)'
<1>1. /\ Len(stack[w]) \in Nat /\ DOMAIN stack[w] = 1..Len(stack[w])
      /\ \A i \in 1..Len(stack[w]) : CallInv(w, i)
  BY Flat DEF ThreadInv
<1>2. /\ Len(stack'[w]) = k + 1 /\ stack'[w][k + 1] = f
      /\ \A i \in 1..k : stack'[w][i] = stack[w][i]
      /\ stack'[w] \in Seq(Frames)
  BY DEF Stacked
<1>3. DOMAIN stack'[w] = 1..(k + 1) /\ stack'[w] # <<>> /\ Top(w)' = f
  BY <1>1, <1>2, EmptySeq, LenProperties DEF Top, Last
<1>4. Working(w, k + 1)' = current'[w]
  BY <1>2 DEF Working
<1>5. \A i \in 1..k : Working(w, i)' = Working(w, i)
  <2>. SUFFICES ASSUME NEW i \in 1..k PROVE Working(w, i)' = Working(w, i)
    OBVIOUS
  <2>1. i # Len(stack'[w]) /\ Working(w, i)' = stack'[w][i + 1].outer
    BY <1>1, <1>2 DEF Working
  <2>2. CASE i = k
    BY <1>1, <1>2, <2>1, <2>2
  <2>3. CASE i # k
    <3>1. i + 1 \in 1..k /\ i # Len(stack[w])
      BY <1>1, <2>3
    <3>. QED
      BY <1>2, <2>1, <3>1 DEF Working
  <2>. QED
    BY <2>2, <2>3
<1>6. \A i \in 1..k : CallInv(w, i)'
  <2>. SUFFICES ASSUME NEW i \in 1..k PROVE CallInv(w, i)'
    OBVIOUS
  <2>1. /\ stack'[w][i] = stack[w][i] /\ CallInv(w, i)
        /\ \A j \in 1..i : stack'[w][j] = stack[w][j]
        /\ Working(w, i)' = Working(w, i)
    BY <1>1, <1>2, <1>5
  <2>2. stack'[w][i].outer # current'[w] => Alive(stack[w][i].outer)'
    BY <2>1 DEF Alive, LivesOn
  <2>3. stack[w][i].step = "body"
    BY <1>1, <2>1 DEF CallInv
  <2>4. Ends(stack[w][i])' <=> Ends(stack[w][i])
    BY <2>1 DEF Ends
  <2>. QED
    BY <2>1, <2>2, <2>3, <2>4 DEF CallInv
<1>7. CallInv(w, k + 1)'
  <2>1. Ends(stack[w][k + 1])' <=> Ends(f)
    BY <1>2 DEF Ends
  <2>2. \A j \in 1..(k + 1) : stack'[w][j] = IF j = k + 1 THEN f ELSE stack[w][j]
    BY <1>1, <1>2
  <2>3. stack'[w][k + 1].outer # current'[w] => Alive(stack[w][k + 1].outer)'
    <3>1. LivesOn(f.outer) => Alive(stack[w][k + 1].outer)'
      BY <1>2 DEF Alive, LivesOn
    <3>. QED
      BY <1>2, <3>1
  <2>4. ~(k + 1 < Len(stack'[w]))
    BY <1>1, <1>2
  <2>5. /\ stack'[w][k + 1].step \in {"before", "complete", "after"} => Ends(stack[w][k + 1])'
        /\ stack'[w][k + 1].step \in {"body", "before", "complete", "after"} /\ Ends(stack[w][k + 1])'
             => \A j \in 1..(k + 1) :
                  stack'[w][j].outer # 0 => stack'[w][j].outer # Working(w, k + 1)'
    <3>1. f.step \in {"before", "complete", "after"} => Ends(f)
      OBVIOUS
    <3>2. ASSUME f.step \in {"body", "before", "complete", "after"}, Ends(f),
                 NEW j \in 1..(k + 1), stack'[w][j].outer # 0
          PROVE  stack'[w][j].outer # current'[w]
      <4>1. CASE j = k + 1
        BY <1>2, <3>2, <4>1
      <4>2. CASE j # k + 1
        <5>1. j \in 1..k /\ stack'[w][j] = stack[w][j]
          BY <1>1, <1>2, <4>2
        <5>. QED
          BY <3>2, <5>1
      <4>. QED
        BY <4>1, <4>2
    <3>3. stack'[w][k + 1] = f
      BY <1>2
    <3>. QED
      BY <1>4, <2>1, <3>1, <3>2, <3>3
  <2>. QED
    BY <2>3, <2>4, <2>5 DEF CallInv
<1>8. (stack'[w] # <<>> /\ Top(w)'.step = "after") \/ Alive(current[w])'
  BY <1>3 DEF Alive, LivesOn
<1>9. \A i \in 1..(k + 1) : CallInv(w, i)'
  <2>1. \A i \in 1..(k + 1) : i \in 1..k \/ i = k + 1
    BY <1>1
  <2>. QED
    BY <1>6, <1>7, <2>1
<1>. QED
  BY <1>3, <1>8, <1>9 DEF ThreadInv

(* A transaction keeps living unless the thread that works in it moves.    *)
LEMMA AliveKept ==
  ASSUME Typed, NEW w \in Workers
  PROVE  /\ Moves(w) => \A i \in 0..Len(txs) : i # current[w] /\ Alive(i) => LivesOn(i)
         /\ SameStatuses => \A i \in 0..Len(txs) : Alive(i) => LivesOn(i)
<1>1. Len(txs) \in Nat
  BY Flat
<1>2. \A i \in 0..Len(txs) : i = 0 \/ i \in 1..Len(txs)
  BY <1>1
<1>. QED
  BY <1>2 DEF Moves, SameStatuses, Alive, LivesOn

(* What a thread with a call knows.                                        *)
LEMMA Known ==
  ASSUME Typed, NEW w \in Workers, ThreadInv(w), stack[w] # <<>>
  PROVE  /\ Len(stack[w]) \in Nat \ {0} /\ Top(w) = stack[w][Len(stack[w])]
         /\ Top(w) \in Frames
         /\ \A i \in 1..Len(stack[w]) :
              /\ stack[w][i] \in Frames /\ stack[w][i].outer \in 0..Len(txs)
              /\ stack[w][i].outer # current[w] => Alive(stack[w][i].outer)
              /\ i < Len(stack[w]) => stack[w][i].step = "body"
         /\ Top(w).step # "after" => Alive(current[w])
         /\ Top(w).step \in {"before", "complete", "after"} => Ends(Top(w))
         /\ Top(w).step \in {"body", "before", "complete", "after"} /\ Ends(Top(w)) =>
              \A j \in 1..Len(stack[w]) :
                stack[w][j].outer # 0 => stack[w][j].outer # current[w]
<1>1. /\ Len(stack[w]) \in Nat \ {0} /\ Top(w) = stack[w][Len(stack[w])]
      /\ DOMAIN stack[w] = 1..Len(stack[w]) /\ Top(w) \in Frames
  BY TopFacts DEF Typed
<1>2. \A i \in 1..Len(stack[w]) :
        stack[w][i] \in Frames /\ stack[w][i].outer \in 0..Len(txs) /\ CallInv(w, i)
  BY <1>1, Flat DEF ThreadInv
<1>3. \A i \in 1..Len(stack[w]) :
        /\ stack[w][i].outer # current[w] => Alive(stack[w][i].outer)
        /\ i < Len(stack[w]) => stack[w][i].step = "body"
  BY <1>2 DEF CallInv
<1>4. Len(stack[w]) \in 1..Len(stack[w]) /\ Working(w, Len(stack[w])) = current[w]
  BY <1>1 DEF Working
<1>5. /\ Top(w).step \in {"before", "complete", "after"} => Ends(Top(w))
      /\ Top(w).step \in {"body", "before", "complete", "after"} /\ Ends(Top(w)) =>
           \A j \in 1..Len(stack[w]) :
             stack[w][j].outer # 0 => stack[w][j].outer # current[w]
  BY <1>1, <1>2, <1>4 DEF CallInv
<1>6. Top(w).step # "after" => Alive(current[w])
  BY DEF ThreadInv
<1>. QED
  BY <1>1, <1>2, <1>3, <1>5, <1>6

(* What a callee has put aside is what its caller works in.                *)
LEMMA WorkingBelow ==
  ASSUME Typed, NEW w \in Workers, stack[w] # <<>>
  PROVE  /\ \A i \in 1..Len(stack[w]) - 1 : Working(w, i) = stack[w][i + 1].outer
         /\ Working(w, Len(stack[w])) = current[w]
  BY Flat DEF Working

(* StackKept where the innermost call remains the innermost.               *)
LEMMA TopKept ==
  ASSUME Typed, Typed', NEW w \in Workers, ThreadInv(w), stack[w] # <<>>,
         NEW f \in Frames, Stacked(w, Len(stack[w]) - 1, f), Inside(f, Top(w)),
         f.step = "after" \/ LivesOn(current'[w]),
         \A i \in 1..Len(stack[w]) :
           stack[w][i].outer # current'[w] => LivesOn(stack[w][i].outer),
         f.step \in {"before", "complete", "after"} => Ends(f),
         f.step \in {"body", "before", "complete", "after"} /\ Ends(f) =>
           \A j \in 1..Len(stack[w]) :
             stack[w][j].outer # 0 => stack[w][j].outer # current'[w]
  PROVE  ThreadInv(w)'
<1>. DEFINE k == Len(stack[w]) - 1
<1>1. f.outer = Top(w).outer
  BY DEF Inside
<1>2. /\ k \in 0..Len(stack[w]) /\ k # Len(stack[w]) /\ Len(stack[w]) \in Nat \ {0}
      /\ Top(w) = stack[w][Len(stack[w])] /\ Len(stack[w]) \in 1..Len(stack[w])
      /\ Len(stack[w]) = k + 1
  BY Known
<1>3. k # 0 => f.outer = Working(w, k)
  <2>1. \A i \in 1..Len(stack[w]) - 1 : Working(w, i) = stack[w][i + 1].outer
    BY WorkingBelow
  <2>. HIDE DEF k
  <2>. QED
    BY <1>1, <1>2, <2>1
<1>4. f.outer # current'[w] => LivesOn(f.outer)
  BY <1>1, <1>2
<1>5. f.step \in {"body", "before", "complete", "after"} /\ Ends(f) =>
           /\ f.outer # 0 => f.outer # current'[w]
           /\ \A j \in 1..k : stack[w][j].outer # 0 => stack[w][j].outer # current'[w]
  BY <1>1, <1>2
<1>6. \A i \in 1..k : stack[w][i].outer # current'[w] => LivesOn(stack[w][i].outer)
  BY <1>2
<1>7. Stacked(w, k, f)
  OBVIOUS
<1>. HIDE DEF k
<1>. QED
  BY <1>2, <1>3, <1>4, <1>5, <1>6, <1>7, StackKept

(* Each kind of step keeps the invariant of the thread that takes it.      *)
(* First: the innermost call goes on, its transaction alive or untouched.  *)
LEMMA GoesOnKept ==
  ASSUME Typed, Typed', NEW w \in Workers, ThreadInv(w), NEW f \in Frames, GoesOn(w, f)
  PROVE  ThreadInv(w)'
<1>1. /\ stack[w] # <<>> /\ Stacked(w, Len(stack[w]) - 1, f) /\ Inside(f, Top(w))
      /\ current'[w] = current[w] /\ Moves(w)
  BY DEF GoesOn
<1>2. LivesOn(current'[w])
  <2>1. Alive(current[w])
    BY <1>1, Known DEF GoesOn
  <2>2. current[w] # 0 => txs'[current[w]].status \in Live
    BY <2>1 DEF GoesOn, Alive
  <2>. QED
    BY <1>1, <2>2 DEF LivesOn
<1>3. \A i \in 1..Len(stack[w]) :
        stack[w][i].outer # current'[w] => LivesOn(stack[w][i].outer)
  BY <1>1, Known, AliveKept
<1>4. f.step \in {"before", "complete", "after"} => Ends(f)
  BY DEF GoesOn
<1>5. f.step \in {"body", "before", "complete", "after"} /\ Ends(f) =>
        \A j \in 1..Len(stack[w]) : stack[w][j].outer # 0 => stack[w][j].outer # current'[w]
  BY <1>1, Known DEF GoesOn
<1>. QED
  BY <1>1, <1>2, <1>3, <1>4, <1>5, TopKept

(* The transaction of the innermost call has been settled.                 *)
LEMMA SettlesKept ==
  ASSUME Typed, Typed', NEW w \in Workers, ThreadInv(w), NEW f \in Frames, Settles(w, f)
  PROVE  ThreadInv(w)'
<1>1. /\ stack[w] # <<>> /\ Stacked(w, Len(stack[w]) - 1, f) /\ Inside(f, Top(w))
      /\ current'[w] = current[w] /\ Moves(w) /\ f.step = "after" /\ Ends(f)
  BY DEF Settles
<1>2. \A i \in 1..Len(stack[w]) :
        stack[w][i].outer # current'[w] => LivesOn(stack[w][i].outer)
  BY <1>1, Known, AliveKept
<1>3. \A j \in 1..Len(stack[w]) : stack[w][j].outer # 0 => stack[w][j].outer # current'[w]
  BY <1>1, Known DEF Settles
<1>. QED
  BY <1>1, <1>2, <1>3, TopKept

(* The innermost call begins a transaction, or ends the one its body has   *)
(* begun.                                                                  *)
LEMMA ChangesKept ==
  ASSUME Typed, Typed', NEW w \in Workers, ThreadInv(w), NEW f \in Frames, Changes(w, f)
  PROVE  ThreadInv(w)'
<1>1. /\ stack[w] # <<>> /\ Stacked(w, Len(stack[w]) - 1, f) /\ Inside(f, Top(w))
      /\ SameStatuses /\ f.step \in {"body", "return"}
  BY DEF Changes
<1>2. LivesOn(current'[w])
  BY DEF Changes, LivesOn
<1>3. \A i \in 1..Len(stack[w]) :
        stack[w][i].outer # 0 => stack[w][i].outer # current'[w]
  <2>1. Len(txs) \in Nat
    BY Flat
  <2>. QED
    BY <1>1, <2>1, Known DEF Changes
<1>4. \A i \in 1..Len(stack[w]) : LivesOn(stack[w][i].outer)
  <2>. SUFFICES ASSUME NEW i \in 1..Len(stack[w]) PROVE LivesOn(stack[w][i].outer)
    OBVIOUS
  <2>1. stack[w][i].outer \in 0..Len(txs)
    BY <1>1, Known
  <2>2. CASE stack[w][i].outer # current[w]
    BY <1>1, <2>1, <2>2, Known, AliveKept
  <2>3. CASE stack[w][i].outer = 0
    BY <2>3 DEF LivesOn
  <2>4. CASE stack[w][i].outer = current[w] /\ stack[w][i].outer # 0
    <3>1. Top(w).step # "after"
      BY <1>1, <2>4, Known
    <3>2. Alive(stack[w][i].outer)
      BY <1>1, <2>4, <3>1, Known
    <3>. QED
      BY <1>1, <2>1, <3>2, AliveKept
  <2>. QED
    BY <2>2, <2>3, <2>4
<1>. QED
  BY <1>1, <1>2, <1>3, <1>4, TopKept

(* A call to a method goes on top of the stack.                            *)
LEMMA CallsKept ==
  ASSUME Typed, Typed', NEW w \in Workers, ThreadInv(w), NEW f \in Frames, Calls(w, f)
  PROVE  ThreadInv(w)'
<1>. DEFINE k == Len(stack[w])
<1>1. /\ stack[w] # <<>> /\ Stacked(w, k, f) /\ SameStatuses /\ Moves(w)
      /\ current'[w] = current[w] /\ Top(w).step = "body"
      /\ f.step = "enter" /\ f.outer = current[w]
  BY DEF Calls
<1>2. k \in Nat /\ Alive(current[w]) /\ current[w] \in 0..Len(txs) /\ stack[w][k].step = "body"
  BY <1>1, Known, Flat
<1>3. LivesOn(current'[w])
  BY <1>1, <1>2, AliveKept
<1>4. \A i \in 1..k : stack[w][i].outer # current'[w] => LivesOn(stack[w][i].outer)
  BY <1>1, Known, AliveKept
<1>5. f.outer = Working(w, k)
  BY <1>1, WorkingBelow
<1>6. k \in 0..Len(stack[w])
  BY <1>2
<1>. HIDE DEF k
<1>. QED
  BY <1>1, <1>2, <1>3, <1>4, <1>5, <1>6, StackKept

(* The innermost call returns; its caller is in its own transaction again. *)
LEMMA ComesBackKept ==
  ASSUME Typed, Typed', NEW w \in Workers, ThreadInv(w), NEW f \in Frames, ComesBack(w, f)
  PROVE  ThreadInv(w)'
<1>. DEFINE l == Len(stack[w])
            k == l - 2
            c == stack[w][l - 1]
<1>1. /\ l >= 2 /\ Stacked(w, k, f) /\ SameStatuses /\ Moves(w)
      /\ current'[w] = Top(w).outer /\ Top(w).step = "return"
      /\ f.outer = c.outer /\ f.step = c.step /\ (Ends(f) => Ends(c))
  BY DEF ComesBack
<1>2. l \in Nat /\ (stack[w] = <<>> <=> l = 0)
  BY Flat
<1>3. stack[w] # <<>>
  BY <1>1, <1>2
<1>4. /\ Top(w) = stack[w][l] /\ Alive(current[w]) /\ current[w] \in 0..Len(txs)
      /\ \A i \in 1..l :
              /\ stack[w][i].outer \in 0..Len(txs)
              /\ stack[w][i].outer # current[w] => Alive(stack[w][i].outer)
              /\ i < l => stack[w][i].step = "body"
  BY <1>1, <1>3, Known, Flat
<1>5. \A i \in 1..l : LivesOn(stack[w][i].outer)
  <2>1. \A i \in 1..l : Alive(stack[w][i].outer)
    BY <1>4
  <2>. QED
    BY <1>1, <1>4, <2>1, AliveKept
<1>6. /\ \A i \in 1..l - 1 : Working(w, i) = stack[w][i + 1].outer
      /\ \A i \in 1..l : CallInv(w, i)
  BY <1>3, WorkingBelow, Flat DEF ThreadInv
<1>. HIDE DEF l
<1>7. /\ k \in 0..l /\ k # l /\ l \in 1..l /\ l - 1 \in 1..l /\ c.step = "body"
      /\ l - 1 < l /\ l - 1 \in 1..l - 1 /\ l - 1 + 1 = l
      /\ k # 0 => k \in 1..l - 1 /\ k + 1 = l - 1
      /\ \A i \in 1..k : i \in 1..l
      /\ \A i \in 1..k : i \in 1..(l - 1)
  BY <1>1, <1>2, <1>4
<1>8. Working(w, l - 1) = current'[w]
  BY <1>1, <1>4, <1>6, <1>7
<1>9. k # 0 => f.outer = Working(w, k)
  BY <1>1, <1>6, <1>7
<1>10. LivesOn(current'[w]) /\ LivesOn(f.outer)
  BY <1>1, <1>4, <1>5, <1>7
<1>11. \A i \in 1..k : LivesOn(stack[w][i].outer)
  BY <1>5, <1>7
<1>12. Ends(f) => \A j \in 1..(l - 1) : stack[w][j].outer # 0 => stack[w][j].outer # current'[w]
  <2>1. CallInv(w, l - 1)
    BY <1>6, <1>7
  <2>. QED
    BY <1>1, <1>7, <1>8, <2>1 DEF CallInv
<1>13. Ends(f) =>
           /\ f.outer # 0 => f.outer # current'[w]
           /\ \A j \in 1..k : stack[w][j].outer # 0 => stack[w][j].outer # current'[w]
  BY <1>1, <1>7, <1>12
<1>14. k \in 0..Len(stack[w]) /\ k # Len(stack[w])
  BY <1>7 DEF l
<1>. HIDE DEF k, c
<1>. QED
  BY <1>1, <1>7, <1>9, <1>10, <1>11, <1>13, <1>14, StackKept

(* An idle thread starts a test or an asynchronous method.                 *)
LEMMA StartsKept ==
  ASSUME Typed, Typed', NEW w \in Workers, ThreadInv(w), NEW f \in Frames, Starts(w, f)
  PROVE  ThreadInv(w)'
<1>1. Stacked(w, 0, f) /\ 0 \in 0..Len(stack[w]) /\ f.step \in {"enter", "body"}
  BY Flat DEF Starts
<1>2. LivesOn(current'[w])
  <2>1. CASE current'[w] = 0
    BY <2>1 DEF LivesOn
  <2>2. CASE current'[w] = current[w] /\ stack[w] = <<>> /\ SameStatuses
    <3>1. Alive(current[w]) /\ current[w] \in 0..Len(txs)
      BY <2>2, Flat DEF ThreadInv
    <3>. QED
      BY <2>2, <3>1, AliveKept
  <2>. QED
    BY <2>1, <2>2 DEF Starts
<1>3. /\ f.outer # current'[w] => LivesOn(f.outer)
      /\ f.step \in {"body", "before", "complete", "after"} => f.outer = 0
  BY <1>2 DEF Starts, LivesOn
<1>. QED
  BY <1>1, <1>2, <1>3, StackKept

(* The last call of the thread returns.                                    *)
LEMMA FinishesKept ==
  ASSUME Typed, Typed', NEW w \in Workers, ThreadInv(w), Finishes(w)
  PROVE  ThreadInv(w)'
<1>1. /\ stack[w] # <<>> /\ stack'[w] = <<>> /\ current'[w] = current[w] /\ SameStatuses
      /\ Top(w).step = "return"
  BY DEF Finishes
<1>2. Alive(current[w]) /\ current[w] \in 0..Len(txs)
  BY <1>1, Known, Flat
<1>3. LivesOn(current'[w])
  BY <1>1, <1>2, AliveKept
<1>4. DOMAIN stack'[w] = {}
  BY <1>1
<1>. QED
  BY <1>3, <1>4 DEF ThreadInv, Alive, LivesOn

-----------------------------------------------------------------------------
(* The other threads                                                       *)

(* The transactions in use on a thread, written out; each has been begun.  *)
LEMMA InUseFacts ==
  ASSUME Typed, NEW w \in Workers
  PROVE  /\ \A i : i \in InUse(w) <=>
              i # 0 /\ (i = current[w] \/ \E k \in 1..Len(stack[w]) : i = stack[w][k].outer)
         /\ \A i \in InUse(w) : i \in 1..Len(txs)
<1>1. DOMAIN stack[w] = 1..Len(stack[w])
  BY Flat
<1>2. \A i : i \in InUse(w) <=>
              i # 0 /\ (i = current[w] \/ \E k \in 1..Len(stack[w]) : i = stack[w][k].outer)
  BY <1>1 DEF InUse
<1>. QED
  BY <1>2, Flat

(* A thread that does not move keeps its invariant: no other can end a     *)
(* transaction it uses.                                                    *)
LEMMA OtherKept ==
  ASSUME Typed, Typed', NEW w \in Workers, NEW v \in Workers \ {w}, Moves(w),
         ThreadInv(v), Apart(v, w)
  PROVE  ThreadInv(v)'
<1>1. current'[v] = current[v] /\ stack'[v] = stack[v]
  BY DEF Moves
<1>2. \A i \in 0..Len(txs) : i = current[v] \/ (\E k \in 1..Len(stack[v]) : i = stack[v][k].outer)
        => (Alive(i) => LivesOn(i))
  <2>. SUFFICES ASSUME NEW i \in 0..Len(txs), Alive(i),
                       i = current[v] \/ \E k \in 1..Len(stack[v]) : i = stack[v][k].outer
                PROVE  LivesOn(i)
    OBVIOUS
  <2>1. CASE i = 0
    BY <2>1 DEF LivesOn
  <2>2. CASE i # 0
    <3>1. i \in InUse(v)
      BY <2>2, InUseFacts
    <3>2. i # current[w]
      BY <2>2, <3>1, InUseFacts DEF Apart
    <3>. QED
      BY <3>2, AliveKept
  <2>. QED
    BY <2>1, <2>2
<1>3. /\ DOMAIN stack[v] = 1..Len(stack[v]) /\ current[v] \in 0..Len(txs)
      /\ \A k \in 1..Len(stack[v]) : stack[v][k].outer \in 0..Len(txs) /\ CallInv(v, k)
  BY Flat DEF ThreadInv
<1>4. \A k \in 1..Len(stack[v]) : CallInv(v, k)'
  <2>. SUFFICES ASSUME NEW k \in 1..Len(stack[v]) PROVE CallInv(v, k)'
    OBVIOUS
  <2>1. Working(v, k)' = Working(v, k)
    BY <1>1 DEF Working
  <2>2. Ends(stack[v][k])' <=> Ends(stack[v][k])
    BY <1>1 DEF Ends
  <2>3. stack[v][k].outer # current[v] => LivesOn(stack[v][k].outer)
    BY <1>2, <1>3 DEF CallInv
  <2>4. stack'[v][k].outer # current'[v] => Alive(stack[v][k].outer)'
    BY <1>1, <2>3 DEF Alive, LivesOn
  <2>. QED
    BY <1>1, <1>3, <2>1, <2>2, <2>4 DEF CallInv
<1>5. (stack[v] # <<>> /\ Top(v).step = "after") \/ LivesOn(current[v])
  BY <1>2, <1>3 DEF ThreadInv
<1>6. Top(v)' = Top(v)
  BY <1>1 DEF Top
<1>7. (stack'[v] # <<>> /\ Top(v)'.step = "after") \/ Alive(current[v])'
  BY <1>1, <1>5, <1>6 DEF Alive, LivesOn
<1>. QED
  BY <1>1, <1>3, <1>4, <1>7 DEF ThreadInv

(* What a thread uses after its step it has used before, or is new.        *)
LEMMA UseKept ==
  ASSUME Typed, Typed', NEW w \in Workers, Kinds(w), NEW i \in InUse(w)'
  PROVE  i \in InUse(w) \/ i > Len(txs)
<1>. DEFINE Old(j) == j = 0 \/ j \in InUse(w) \/ j = Len(txs) + 1
            L == Len(stack[w])
<1>1. /\ Len(txs) \in Nat /\ L \in Nat /\ (stack[w] = <<>> <=> L = 0) /\ Top(w) = stack[w][L]
      /\ Old(0) /\ Old(current[w])
      /\ \A k \in 1..L : Old(stack[w][k].outer)
  BY Flat, InUseFacts DEF Top, Last
<1>2. i # 0 /\ (i = current'[w] \/ \E k \in 1..Len(stack'[w]) : i = stack'[w][k].outer)
  <2>1. stack'[w] \in Seq(Frames)
    BY DEF Typed
  <2>2. DOMAIN stack'[w] = 1..Len(stack'[w])
    BY <2>1, LenProperties
  <2>. QED
    BY <2>2 DEF InUse
<1>. SUFFICES Old(i)
  BY <1>1, <1>2
<1>. HIDE DEF Old, L
<1>3. ASSUME NEW k \in 0..L, NEW f \in Frames, Stacked(w, k, f), Old(f.outer)
      PROVE  \A j \in 1..Len(stack'[w]) : Old(stack'[w][j].outer)
  <2>. SUFFICES ASSUME NEW j \in 1..Len(stack'[w]) PROVE Old(stack'[w][j].outer)
    OBVIOUS
  <2>1. j = k + 1 \/ j \in 1..k
    BY <1>1, <1>3 DEF Stacked
  <2>2. CASE j = k + 1
    BY <1>3, <2>2 DEF Stacked
  <2>3. CASE j \in 1..k
    <3>1. stack'[w][j] = stack[w][j] /\ j \in 1..L
      BY <1>1, <1>3, <2>3 DEF Stacked
    <3>. QED
      BY <1>1, <3>1
  <2>. QED
    BY <2>1, <2>2, <2>3
<1>4. CASE Finishes(w)
  <2>1. current'[w] = current[w] /\ Len(stack'[w]) = 0
    BY <1>4 DEF Finishes
  <2>. QED
    BY <1>1, <1>2, <2>1
<1>5. ASSUME NEW f \in Frames, GoesOn(w, f) \/ Settles(w, f) \/ Changes(w, f)
      PROVE  Old(i)
  <2>1. /\ Stacked(w, L - 1, f) /\ f.outer = Top(w).outer /\ L # 0
        /\ current'[w] = current[w] \/ current'[w] = 0 \/ current'[w] = Len(txs) + 1
    BY <1>1, <1>5 DEF GoesOn, Settles, Changes, Inside, L
  <2>2. L \in 1..L /\ L - 1 \in 0..L
    BY <1>1, <2>1
  <2>3. Old(f.outer) /\ Old(current'[w])
    BY <1>1, <2>1, <2>2 DEF Old
  <2>. QED
    BY <1>2, <1>3, <2>1, <2>2, <2>3
<1>6. ASSUME NEW f \in Frames, Calls(w, f)
      PROVE  Old(i)
  <2>1. Stacked(w, L, f) /\ f.outer = current[w] /\ current'[w] = current[w] /\ L \in 0..L
    BY <1>1, <1>6 DEF Calls, L
  <2>. QED
    BY <1>1, <1>2, <1>3, <2>1
<1>7. ASSUME NEW f \in Frames, ComesBack(w, f)
      PROVE  Old(i)
  <2>1. /\ Stacked(w, L - 2, f) /\ f.outer = stack[w][L - 1].outer /\ L >= 2
        /\ current'[w] = stack[w][L].outer
    BY <1>1, <1>7 DEF ComesBack, L
  <2>2. L \in 1..L /\ L - 1 \in 1..L /\ L - 2 \in 0..L
    BY <1>1, <2>1
  <2>. QED
    BY <1>1, <1>2, <1>3, <2>1, <2>2
<1>8. ASSUME NEW f \in Frames, Starts(w, f)
      PROVE  Old(i)
  <2>1. /\ Stacked(w, 0, f) /\ 0 \in 0..L
        /\ current'[w] = 0 \/ current'[w] = current[w]
        /\ f.outer = 0 \/ f.outer = current'[w]
    BY <1>1, <1>8 DEF Starts
  <2>2. Old(f.outer) /\ Old(current'[w])
    BY <1>1, <2>1
  <2>. QED
    BY <1>1, <1>2, <1>3, <2>1, <2>2
<1>. QED
  BY <1>4, <1>5, <1>6, <1>7, <1>8 DEF Kinds

(* Every kind of step keeps the invariant of the thread that takes it.     *)
LEMMA KindKept ==
  ASSUME Typed, Typed', NEW w \in Workers, Kinds(w), ThreadInv(w)
  PROVE  ThreadInv(w)' /\ Moves(w)
<1>1. CASE Finishes(w)
  BY <1>1, FinishesKept DEF Finishes
<1>2. ASSUME NEW f \in Frames,
             GoesOn(w, f) \/ Settles(w, f) \/ Changes(w, f) \/ Calls(w, f) \/ ComesBack(w, f)
               \/ Starts(w, f)
      PROVE  ThreadInv(w)' /\ Moves(w)
  <2>1. Moves(w)
    BY <1>2 DEF GoesOn, Settles, Changes, Calls, ComesBack, Starts
  <2>. QED
    BY <1>2, <2>1, GoesOnKept, SettlesKept, ChangesKept, CallsKept, ComesBackKept, StartsKept
<1>. QED
  BY <1>1, <1>2 DEF Kinds

(* And so all threads stay apart.                                          *)
LEMMA ThreadsKept ==
  ASSUME Typed, Typed', CallsInv, NEW w \in Workers, Kinds(w)
  PROVE  /\ \A v \in Workers : ThreadInv(v)'
         /\ \A u, v \in Workers : u # v => Apart(u, v)'
<1>1. ThreadInv(w)' /\ Moves(w)
  BY KindKept DEF CallsInv
<1>2. \A v \in Workers \ {w} : ThreadInv(v)'
  BY <1>1, OtherKept DEF CallsInv
<1>3. \A v \in Workers \ {w} : InUse(v)' = InUse(v)
  BY <1>1 DEF Moves, InUse
<1>4. \A v \in Workers \ {w} : InUse(v)' \cap InUse(w)' = {}
  <2>. SUFFICES ASSUME NEW v \in Workers \ {w}, NEW i \in InUse(v), i \in InUse(w)'
                PROVE  FALSE
    BY <1>3
  <2>1. i \in 1..Len(txs) /\ Len(txs) \in Nat
    BY InUseFacts, Flat
  <2>2. i \in InUse(w)
    BY <2>1, UseKept
  <2>. QED
    BY <2>2 DEF CallsInv, Apart
<1>5. ASSUME NEW u \in Workers, NEW v \in Workers, u # v PROVE InUse(u)' \cap InUse(v)' = {}
  BY <1>3, <1>4, <1>5 DEF CallsInv, Apart
<1>. QED
  BY <1>1, <1>2, <1>5 DEF Apart

-----------------------------------------------------------------------------
(* What the actions do, kind by kind                                       *)

(* The types of all variables but the stacks, after a step.                *)
DataTyped ==
  /\ test' \in DOMAIN Tests \union {"none"} /\ thread' \in Threads \union {"none"}
  /\ n' \in 0..MaxTests /\ faults' \in 0..MaxFaults /\ disturbed' \in BOOLEAN
  /\ txs' \in Seq(Txs) /\ Len(txs') >= Len(txs)
  /\ current' \in [Workers -> 0..Len(txs')]
  /\ raised' \in [Workers -> Exceptions]
  /\ jobs' \in Seq((DOMAIN Methods) \X Nat)
  /\ "id" \in DOMAIN results' /\ results'.id \in 0..Len(txs')

(* A step of one of the kinds keeps the types of the stacks and of the     *)
(* transactions when it keeps those of the rest.                           *)
LEMMA TypedKept ==
  ASSUME Typed, NEW w \in Workers, Kinds(w), DataTyped
  PROVE  Typed'
<1>. DEFINE L == Len(stack[w])
            InRange(i) == i \in 0..Len(txs')
<1>1. /\ Len(txs) \in Nat /\ L \in Nat /\ (stack[w] = <<>> <=> L = 0) /\ Top(w) = stack[w][L]
      /\ Len(txs') \in Nat /\ Len(txs') >= Len(txs)
      /\ current[w] \in 0..Len(txs) /\ \A k \in 1..L : stack[w][k].outer \in 0..Len(txs)
  <2>1. Len(txs') \in Nat /\ Len(txs') >= Len(txs)
    BY LenProperties DEF DataTyped
  <2>. QED
    BY <2>1, Flat DEF Top, Last
<1>2. InRange(0) /\ InRange(current[w]) /\ InRange(current'[w])
      /\ \A k \in 1..L : InRange(stack[w][k].outer)
  <2>1. \A i \in 0..Len(txs) : InRange(i)
    BY <1>1
  <2>2. InRange(current'[w]) /\ InRange(0)
    BY <1>1 DEF DataTyped
  <2>. HIDE DEF InRange, L
  <2>. QED
    BY <1>1, <2>1, <2>2
<1>. HIDE DEF InRange, L
<1>3. ASSUME NEW k \in 0..L, NEW f \in Frames, Stacked(w, k, f), InRange(f.outer)
      PROVE  /\ stack' \in [Workers -> Seq(Frames)]
             /\ \A j \in 1..Len(stack'[w]) : InRange(stack'[w][j].outer)
             /\ \A v \in Workers \ {w} : stack'[v] = stack[v]
  <2>1. /\ stack' \in [Workers -> Seq(Frames)]
        /\ \A v \in Workers \ {w} : stack'[v] = stack[v]
    BY <1>3 DEF Stacked
  <2>2. ASSUME NEW j \in 1..Len(stack'[w]) PROVE InRange(stack'[w][j].outer)
    <3>1. j = k + 1 \/ j \in 1..k
      BY <1>1, <1>3 DEF Stacked
    <3>2. CASE j = k + 1
      BY <1>3, <3>2 DEF Stacked
    <3>3. CASE j \in 1..k
      <4>1. stack'[w][j] = stack[w][j] /\ j \in 1..L
        BY <1>1, <1>3, <3>3 DEF Stacked
      <4>. QED
        BY <1>2, <4>1
    <3>. QED
      BY <3>1, <3>2, <3>3
  <2>. QED
    BY <2>1, <2>2
<1>4. /\ stack' \in [Workers -> Seq(Frames)]
      /\ \A j \in 1..Len(stack'[w]) : InRange(stack'[w][j].outer)
      /\ \A v \in Workers \ {w} : stack'[v] = stack[v]
  <2>. DEFINE Goal == /\ stack' \in [Workers -> Seq(Frames)]
                      /\ \A j \in 1..Len(stack'[w]) : InRange(stack'[w][j].outer)
                      /\ \A v \in Workers \ {w} : stack'[v] = stack[v]
  <2>. HIDE DEF Goal
  <2>1. CASE Finishes(w)
    <3>1. stack'[w] = <<>> /\ stack' \in [Workers -> Seq(Frames)] /\ Moves(w)
      BY <2>1 DEF Finishes
    <3>2. Len(stack'[w]) = 0
      BY <3>1
    <3>. QED
      BY <3>1, <3>2 DEF Moves, Goal
  <2>2. ASSUME NEW f \in Frames, GoesOn(w, f) \/ Settles(w, f) \/ Changes(w, f)
        PROVE  Goal
    <3>1. Stacked(w, L - 1, f) /\ f.outer = stack[w][L].outer /\ L # 0
      BY <1>1, <2>2 DEF GoesOn, Settles, Changes, Inside, L
    <3>2. L \in 1..L /\ L - 1 \in 0..L
      BY <1>1, <3>1
    <3>. QED
      BY <1>2, <1>3, <3>1, <3>2 DEF Goal
  <2>3. ASSUME NEW f \in Frames, Calls(w, f)
        PROVE  Goal
    <3>1. Stacked(w, L, f) /\ f.outer = current[w] /\ L \in 0..L
      BY <1>1, <2>3 DEF Calls, L
    <3>. QED
      BY <1>2, <1>3, <3>1 DEF Goal
  <2>4. ASSUME NEW f \in Frames, ComesBack(w, f)
        PROVE  Goal
    <3>1. Stacked(w, L - 2, f) /\ f.outer = stack[w][L - 1].outer /\ L >= 2
      BY <1>1, <2>4 DEF ComesBack, L
    <3>2. L - 1 \in 1..L /\ L - 2 \in 0..L
      BY <1>1, <3>1
    <3>. QED
      BY <1>2, <1>3, <3>1, <3>2 DEF Goal
  <2>5. ASSUME NEW f \in Frames, Starts(w, f)
        PROVE  Goal
    <3>1. Stacked(w, 0, f) /\ (f.outer = 0 \/ f.outer = current'[w]) /\ 0 \in 0..L
      BY <1>1, <2>5 DEF Starts
    <3>. QED
      BY <1>2, <1>3, <3>1 DEF Goal
  <2>. QED
    BY <2>1, <2>2, <2>3, <2>4, <2>5 DEF Kinds, Goal
<1>5. \A v \in Workers : DOMAIN stack'[v] = 1..Len(stack'[v])
  BY <1>4, LenProperties
<1>6. \A v \in Workers : \A k \in DOMAIN stack'[v] : stack'[v][k].outer \in 0..Len(txs')
  <2>1. \A k \in DOMAIN stack'[w] : stack'[w][k].outer \in 0..Len(txs')
    BY <1>4, <1>5 DEF InRange
  <2>2. ASSUME NEW v \in Workers \ {w}, NEW k \in DOMAIN stack'[v]
        PROVE  stack'[v][k].outer \in 0..Len(txs')
    <3>1. stack[v][k].outer \in 0..Len(txs)
      BY <1>4, <2>2, Flat
    <3>. QED
      BY <1>1, <1>4, <3>1
  <2>. QED
    BY <2>1, <2>2
<1>. QED
  BY <1>4, <1>6 DEF DataTyped, Typed

(* The innermost call goes to another step, and no further.                *)
Goes(w, s) ==
  \E f \in Frames :
    /\ Stacked(w, Len(stack[w]) - 1, f)
    /\ Inside(f, Top(w)) /\ f.owner = Top(w).owner /\ f.step = s

(* What the helpers of the actions do to the stack: the innermost frame    *)
(* moves on, and no other changes.                                         *)
LEMMA Goings ==
  ASSUME Typed, NEW w \in Workers, stack[w] # <<>>
  PROVE  /\ \A s \in Steps : Step(w, s) => Goes(w, s)
         /\ Advance(w) => Goes(w, "body")
         /\ \A e \in Exceptions : Thrown(w, e) =>
              Goes(w, "body") /\ raised' \in [Workers -> Exceptions]
<1>1. /\ stack \in [Workers -> Seq(Frames)] /\ Top(w) \in Frames
      /\ raised \in [Workers -> Exceptions]
  BY TopFacts DEF Typed
<1>2. ASSUME NEW s \in Steps, NEW p \in Nat \ {0},
             stack' = ReplaceTop(w, [Top(w) EXCEPT !.pc = p, !.step = s])
      PROVE  Goes(w, s)
  <2>. DEFINE f == [Top(w) EXCEPT !.pc = p, !.step = s]
  <2>1. f \in Frames /\ Inside(f, Top(w)) /\ f.owner = Top(w).owner /\ f.step = s
    BY <1>1 DEF Frames, Inside
  <2>. HIDE DEF f
  <2>2. Stacked(w, Len(stack[w]) - 1, f)
    BY <1>1, <1>2, <2>1, Replacing DEF f
  <2>. QED
    BY <2>1, <2>2 DEF Goes
<1>3. ASSUME NEW s \in Steps, Step(w, s) PROVE Goes(w, s)
  <2>1. [Top(w) EXCEPT !.step = s] = [Top(w) EXCEPT !.pc = Top(w).pc, !.step = s]
    BY <1>1 DEF Frames
  <2>2. Top(w).pc \in Nat \ {0}
    BY <1>1 DEF Frames
  <2>. QED
    BY <1>2, <1>3, <2>1, <2>2 DEF Step
<1>4. "body" \in Steps
  BY DEF Steps
<1>5. Advance(w) => Goes(w, "body")
  <2>1. Top(w).pc + 1 \in Nat \ {0}
    BY <1>1 DEF Frames
  <2>. QED
    BY <1>2, <1>4, <2>1 DEF Advance
<1>6. ASSUME NEW e \in Exceptions, Thrown(w, e)
      PROVE  Goes(w, "body") /\ raised' \in [Workers -> Exceptions]
  <2>1. Len(Body(w)) + 1 \in Nat \ {0}
    <3>1. Top(w).method \in DOMAIN Methods
      BY <1>1 DEF Frames
    <3>. QED
      BY <3>1, MethodFacts DEF Body, GoodMethod
  <2>. QED
    BY <1>1, <1>2, <1>4, <1>5, <1>6, <2>1 DEF Thrown
<1>. QED
  BY <1>3, <1>5, <1>6

(* A transaction of the table becomes r; 0 stands for none.                *)
LEMMA TxEdit ==
  ASSUME txs \in Seq(Txs), NEW i \in 0..Len(txs), NEW r, i # 0 => r \in Txs,
         txs' = [txs EXCEPT ![i] = r]
  PROVE  /\ txs' \in Seq(Txs) /\ Len(txs') = Len(txs) /\ Len(txs) \in Nat
         /\ \A j \in 1..Len(txs) : txs'[j] = IF j = i THEN r ELSE txs[j]
<1>1. Len(txs) \in Nat /\ DOMAIN txs = 1..Len(txs)
  BY LenProperties
<1>2. CASE i = 0
  <2>1. i \notin DOMAIN txs
    BY <1>1, <1>2
  <2>2. txs \in [1..Len(txs) -> Txs]
    BY LenProperties
  <2>3. txs' = txs
    BY <1>1, <2>1, <2>2
  <2>. QED
    BY <1>1, <1>2, <2>3
<1>3. CASE i # 0
  <2>1. i \in 1..Len(txs) /\ r \in Txs
    BY <1>1, <1>3
  <2>. QED
    BY <1>1, <2>1, ExceptSeq
<1>. QED
  BY <1>2, <1>3

(* One field of a thread's own transaction changes.                        *)
LEMMA SetsStatus ==
  ASSUME Typed, NEW w \in Workers, NEW s \in Statuses, SetTx(w, "status", s)
  PROVE  /\ txs' \in Seq(Txs) /\ Len(txs') = Len(txs)
         /\ \A i \in 1..Len(txs) : i # current[w] => txs'[i].status = txs[i].status
         /\ current[w] # 0 => txs'[current[w]].status = s
<1>1. txs \in Seq(Txs) /\ current[w] \in 0..Len(txs) /\ Len(txs) \in Nat
  BY Flat DEF Typed
<1>. DEFINE t == txs[current[w]]
            r == [t EXCEPT !["status"] = s]
<1>2. r = [t EXCEPT !.status = s]
  BY Zenon
<1>3. current[w] # 0 => r \in Txs /\ r.status = s
  <2>1. current[w] # 0 => t \in Txs
    BY <1>1
  <2>. HIDE DEF t
  <2>. QED
    BY <1>2, <2>1 DEF Txs
<1>4. txs' = [txs EXCEPT ![current[w]] = r]
  BY DEF SetTx
<1>. HIDE DEF r, t
<1>5. /\ txs' \in Seq(Txs) /\ Len(txs') = Len(txs)
      /\ \A j \in 1..Len(txs) : txs'[j] = IF j = current[w] THEN r ELSE txs[j]
  BY <1>1, <1>3, <1>4, TxEdit
<1>. QED
  BY <1>1, <1>3, <1>5

(* Noting listeners, an aborted connection or an entity in the transaction *)
(* leaves the statuses of all transactions.                                *)
LEMMA SetsOther ==
  ASSUME Typed, NEW w \in Workers, NEW x,
         \/ SetTx(w, "listeners", x) /\ (current[w] # 0 => x \subseteq {"listener", "session"})
         \/ SetTx(w, "aborted", x) /\ (current[w] # 0 => x \in BOOLEAN)
         \/ SetTx(w, "entity", x) /\ x \in BOOLEAN
  PROVE  txs' \in Seq(Txs) /\ Len(txs') = Len(txs) /\ SameStatuses
<1>. DEFINE t == txs[current[w]]
<1>1. /\ txs \in Seq(Txs) /\ current[w] \in 0..Len(txs) /\ Len(txs) \in Nat
      /\ current[w] # 0 => t \in Txs
  BY Flat DEF Typed
<1>2. ASSUME NEW r, txs' = [txs EXCEPT ![current[w]] = r],
             current[w] # 0 => r \in Txs /\ r.status = txs[current[w]].status
      PROVE  txs' \in Seq(Txs) /\ Len(txs') = Len(txs) /\ SameStatuses
  <2>1. /\ txs' \in Seq(Txs) /\ Len(txs') = Len(txs)
        /\ \A j \in 1..Len(txs) : txs'[j] = IF j = current[w] THEN r ELSE txs[j]
    BY <1>1, <1>2, TxEdit
  <2>. QED
    BY <1>1, <1>2, <2>1 DEF SameStatuses
<1>. HIDE DEF t
<1>3. CASE SetTx(w, "listeners", x) /\ (current[w] # 0 => x \subseteq {"listener", "session"})
  <2>. DEFINE r == [t EXCEPT !["listeners"] = x]
  <2>1. r = [t EXCEPT !.listeners = x]
    BY Zenon
  <2>2. current[w] # 0 => r \in Txs /\ r.status = t.status
    BY <1>1, <1>3, <2>1 DEF Txs
  <2>3. txs' = [txs EXCEPT ![current[w]] = r]
    BY <1>3 DEF SetTx, t
  <2>. HIDE DEF r
  <2>. QED
    BY <1>2, <2>2, <2>3 DEF t
<1>4. CASE SetTx(w, "aborted", x) /\ (current[w] # 0 => x \in BOOLEAN)
  <2>. DEFINE r == [t EXCEPT !["aborted"] = x]
  <2>1. r = [t EXCEPT !.aborted = x]
    BY Zenon
  <2>2. current[w] # 0 => r \in Txs /\ r.status = t.status
    BY <1>1, <1>4, <2>1 DEF Txs
  <2>3. txs' = [txs EXCEPT ![current[w]] = r]
    BY <1>4 DEF SetTx, t
  <2>. HIDE DEF r
  <2>. QED
    BY <1>2, <2>2, <2>3 DEF t
<1>5. CASE SetTx(w, "entity", x) /\ x \in BOOLEAN
  <2>. DEFINE r == [t EXCEPT !["entity"] = x]
  <2>1. r = [t EXCEPT !.entity = x]
    BY Zenon
  <2>2. current[w] # 0 => r \in Txs /\ r.status = t.status
    BY <1>1, <1>5, <2>1 DEF Txs
  <2>3. txs' = [txs EXCEPT ![current[w]] = r]
    BY <1>5 DEF SetTx, t
  <2>. HIDE DEF r
  <2>. QED
    BY <1>2, <2>2, <2>3 DEF t
<1>. QED
  BY <1>3, <1>4, <1>5

(* A transaction begins on a thread.                                       *)
LEMMA Begins ==
  ASSUME Typed, NEW w \in Workers, NEW t \in Txs, t.status \in Live, txs' = Append(txs, t),
         current' = [current EXCEPT ![w] = Len(txs) + 1]
  PROVE  /\ txs' \in Seq(Txs) /\ Len(txs') = Len(txs) + 1 /\ SameStatuses
         /\ txs'[Len(txs) + 1].status \in Live
         /\ current' \in [Workers -> 0..Len(txs')]
         /\ current'[w] = Len(txs) + 1 /\ \A v \in Workers \ {w} : current'[v] = current[v]
<1>1. txs \in Seq(Txs) /\ current \in [Workers -> 0..Len(txs)] /\ Len(txs) \in Nat
  BY Flat DEF Typed
<1>2. /\ txs' \in Seq(Txs) /\ Len(txs') = Len(txs) + 1 /\ txs'[Len(txs) + 1] = t
      /\ \A i \in 1..Len(txs) : txs'[i] = txs[i]
  BY <1>1, AppendProperties
<1>. QED
  BY <1>1, <1>2 DEF SameStatuses

(* The results keep an identifier of a transaction whatever is recorded.   *)
LEMMA IdKept ==
  ASSUME NEW r, "id" \in DOMAIN r, NEW ls, NEW s
  PROVE  /\ "id" \in DOMAIN BeginHeard(r, ls) /\ BeginHeard(r, ls).id = r.id
         /\ "id" \in DOMAIN BeforeHeard(r, ls) /\ BeforeHeard(r, ls).id = r.id
         /\ "id" \in DOMAIN AfterHeard(r, ls, s) /\ AfterHeard(r, ls, s).id = r.id
<1>1. "id" \in DOMAIN BeginHeard(r, ls) /\ BeginHeard(r, ls).id = r.id
  BY DEF BeginHeard
<1>2. "id" \in DOMAIN BeforeHeard(r, ls) /\ BeforeHeard(r, ls).id = r.id
  <2>. DEFINE p == IF "listener" \in ls THEN [r EXCEPT !.before = "active"] ELSE r
  <2>1. "id" \in DOMAIN p /\ p.id = r.id
    OBVIOUS
  <2>. HIDE DEF p
  <2>2. BeforeHeard(r, ls) = IF "session" \in ls THEN [p EXCEPT !.beforeCompletion = "active"] ELSE p
    BY DEF BeforeHeard, p
  <2>. QED
    BY <2>1, <2>2
<1>3. "id" \in DOMAIN AfterHeard(r, ls, s) /\ AfterHeard(r, ls, s).id = r.id
  <2>. DEFINE p == IF "listener" \in ls THEN [r EXCEPT !.after = s] ELSE r
              q == [p EXCEPT !.afterCompletion = s]
  <2>1. "id" \in DOMAIN p /\ p.id = r.id
    OBVIOUS
  <2>. HIDE DEF p
  <2>2. "id" \in DOMAIN q /\ q.id = r.id
    BY <2>1
  <2>3. AfterHeard(r, ls, s) = IF "session" \in ls
                                 THEN [q EXCEPT !.committed = IF s = "committed" THEN "yes" ELSE "no"]
                                 ELSE p
    BY DEF AfterHeard, p
  <2>. HIDE DEF q
  <2>. QED
    BY <2>1, <2>2, <2>3
<1>. QED
  BY <1>1, <1>2, <1>3

(* Recording a status keeps what it is recorded for.                       *)
LEMMA RecordedKept ==
  ASSUME NEW r, "id" \in DOMAIN r, NEW w, NEW i
  PROVE  "id" \in DOMAIN Recorded(r, w, i) /\ Recorded(r, w, i).id = r.id
  BY DEF Recorded


(* The statuses after a step in which no transaction but the thread's own  *)
(* changes, and in which its own, if it lives, lives on.                   *)
OwnLivesOn(w) ==
  /\ Len(txs') >= Len(txs)
  /\ \A i \in 1..Len(txs) : i # current[w] => txs'[i].status = txs[i].status
  /\ current[w] # 0 /\ txs[current[w]].status \in Live => txs'[current[w]].status \in Live

(* A step in which the innermost call goes on is of the kind GoesOn, of    *)
(* whichever of its parts has moved.                                       *)
LEMMA GoesOnIs ==
  ASSUME Typed, CallsInv, NEW w \in Workers, stack[w] # <<>>, NEW s \in Steps, Goes(w, s),
         current' = current, SameStatuses \/ OwnLivesOn(w),
         \/ s = "body" /\ Top(w).step = "body"
         \/ s = "return" /\ Top(w).step \in {"enter", "body"}
         \/ s = "before" /\ Top(w).step = "body" /\ Ends(Top(w))
         \/ s = "complete" /\ Top(w).step = "before"
  PROVE  Kinds(w)
<1>1. PICK f \in Frames :
        /\ Stacked(w, Len(stack[w]) - 1, f)
        /\ Inside(f, Top(w)) /\ f.owner = Top(w).owner /\ f.step = s
  BY DEF Goes
<1>2. Ends(f) <=> Ends(Top(w))
  BY <1>1 DEF Ends, Inside
<1>3. Top(w).step = "before" => Ends(Top(w))
  BY Known DEF CallsInv
<1>4. current[w] \in 0..Len(txs) /\ Len(txs) \in Nat
  BY Flat
<1>5. OwnLivesOn(w)
  BY <1>4 DEF SameStatuses, OwnLivesOn
<1>6. Moves(w)
  BY <1>1, <1>5 DEF Moves, Stacked, OwnLivesOn
<1>7. current[w] # 0 /\ txs[current[w]].status \in Live => txs'[current[w]].status \in Live
  BY <1>5 DEF OwnLivesOn
<1>8. f.step \in {"before", "complete"} => Ends(f)
  BY <1>1, <1>2, <1>3
<1>9. f.step \in {"body", "before", "complete"} /\ Ends(f) =>
        Ends(Top(w)) /\ Top(w).step \in {"body", "before", "complete"}
  BY <1>1, <1>2, <1>3
<1>10. Top(w).step # "after" /\ f.step # "after" /\ current'[w] = current[w]
  BY <1>1
<1>11. GoesOn(w, f)
  BY <1>1, <1>6, <1>7, <1>8, <1>9, <1>10 DEF GoesOn
<1>. QED
  BY <1>11 DEF Kinds

(* A step that ends the completion of the innermost call is of the kind    *)
(* Settles.                                                                *)
LEMMA SettlesIs ==
  ASSUME Typed, CallsInv, NEW w \in Workers, stack[w] # <<>>, Goes(w, "after"),
         current' = current, Len(txs') >= Len(txs),
         \A i \in 1..Len(txs) : i # current[w] => txs'[i].status = txs[i].status,
         \/ Top(w).step \in {"before", "complete"}
         \/ Top(w).step = "body" /\ Ends(Top(w))
  PROVE  Kinds(w)
<1>1. PICK f \in Frames :
        /\ Stacked(w, Len(stack[w]) - 1, f)
        /\ Inside(f, Top(w)) /\ f.owner = Top(w).owner /\ f.step = "after"
  BY DEF Goes
<1>2. Ends(f) /\ Ends(Top(w))
  <2>1. Ends(Top(w))
    BY Known DEF CallsInv
  <2>. QED
    BY <1>1, <2>1 DEF Ends, Inside
<1>3. Moves(w)
  BY <1>1 DEF Moves, Stacked
<1>4. Settles(w, f)
  BY <1>1, <1>2, <1>3 DEF Settles
<1>. QED
  BY <1>4 DEF Kinds

(* A thread and the test that runs.                                        *)
ThreadStep(w) ==
  \/ stack[w] # <<>> /\ thread' = thread
  \/ /\ stack'[w] = <<>> /\ stack[w] # <<>>
     /\ thread' = IF w \in Threads THEN "none" ELSE thread
  \/ w \in Threads /\ thread = "none" /\ thread' = w
  \/ w \in Pool /\ thread' = thread

Good(w) == Kinds(w) /\ DataTyped /\ ThreadStep(w)

(* The data of a step that leaves the suite alone.                         *)
LEMMA GoodIs ==
  ASSUME Typed, NEW w \in Workers, stack[w] # <<>>, Kinds(w), UNCHANGED suite,
         UNCHANGED calm \/ Fault(w),
         UNCHANGED jobs \/ jobs' \in Seq((DOMAIN Methods) \X Nat),
         UNCHANGED raised \/ raised' \in [Workers -> Exceptions],
         UNCHANGED txs \/ (txs' \in Seq(Txs) /\ Len(txs') >= Len(txs)),
         UNCHANGED current \/ current' \in [Workers -> 0..Len(txs')],
         UNCHANGED results \/ ("id" \in DOMAIN results' /\ results'.id \in 0..Len(txs))
  PROVE  Good(w)
<1>1. /\ Len(txs) \in Nat /\ txs' \in Seq(Txs) /\ Len(txs') \in Nat /\ Len(txs') >= Len(txs)
  <2>1. Len(txs) \in Nat /\ txs \in Seq(Txs)
    BY Flat DEF Typed
  <2>2. txs' \in Seq(Txs) /\ Len(txs') >= Len(txs)
    BY <2>1
  <2>3. Len(txs') \in Nat
    BY <2>2, LenProperties
  <2>. QED
    BY <2>1, <2>2, <2>3
<1>2. test' \in DOMAIN Tests \union {"none"} /\ thread' \in Threads \union {"none"}
      /\ n' \in 0..MaxTests /\ thread' = thread
  BY DEF Typed, suite
<1>3. faults' \in 0..MaxFaults /\ disturbed' \in BOOLEAN
  <2>1. faults \in 0..MaxFaults /\ disturbed \in BOOLEAN /\ MaxFaults \in Nat
    BY CallsAssumption DEF Typed
  <2>2. faults' \in 0..MaxFaults
    BY <2>1 DEF calm, Fault
  <2>3. disturbed' = disturbed \/ disturbed' = (disturbed \/ w \in Threads)
    BY DEF calm, Fault
  <2>4. disturbed' \in BOOLEAN
    BY <2>1, <2>3, Zenon
  <2>. QED
    BY <2>2, <2>4
<1>4. current' \in [Workers -> 0..Len(txs')]
  <2>1. current \in [Workers -> 0..Len(txs)]
    BY DEF Typed
  <2>. QED
    BY <1>1, <2>1
<1>5. raised' \in [Workers -> Exceptions] /\ jobs' \in Seq((DOMAIN Methods) \X Nat)
  BY DEF Typed
<1>6. "id" \in DOMAIN results' /\ results'.id \in 0..Len(txs')
  BY <1>1 DEF Typed
<1>. QED
  BY <1>1, <1>2, <1>3, <1>4, <1>5, <1>6 DEF Good, DataTyped, ThreadStep

-----------------------------------------------------------------------------
(* The actions                                                             *)

(* The actions, one lemma each or one for those alike: each is of one of   *)
(* the kinds and keeps the types. The entry of a call, which may take      *)
(* over, begin or put aside a transaction, or refuse.                      *)
LEMMA EnterGood ==
  ASSUME Typed, CallsInv, NEW w \in Workers, Enter(w) \/ EnterFails(w)
  PROVE  Good(w)
<1>1. stack[w] # <<>> /\ Top(w).step = "enter"
  BY DEF Enter, EnterFails
<1>2. /\ Top(w) \in Frames /\ Len(txs) \in Nat /\ current[w] \in 0..Len(txs)
      /\ stack \in [Workers -> Seq(Frames)] /\ current \in [Workers -> 0..Len(txs)]
      /\ "id" \in DOMAIN results /\ results.id \in 0..Len(txs)
      /\ raised \in [Workers -> Exceptions]
  BY <1>1, Flat, Known DEF CallsInv, Typed
<1>3. UNCHANGED txs => SameStatuses
  BY <1>2 DEF SameStatuses
<1>4. CASE EnterFails(w)
  <2>1. Goes(w, "return")
    BY <1>1, <1>4, Goings DEF EnterFails, Steps
  <2>2. Kinds(w)
    BY <1>1, <1>3, <1>4, <2>1, GoesOnIs DEF EnterFails, Steps
  <2>3. raised' \in [Workers -> Exceptions]
    BY <1>2, <1>4 DEF EnterFails, Exceptions
  <2>. QED
    BY <1>1, <1>4, <2>2, <2>3, GoodIs DEF EnterFails, scene
<1>5. CASE EnterRefused(w)
  <2>1. Goes(w, "return")
    BY <1>1, <1>5, Goings DEF EnterRefused, Steps
  <2>2. Kinds(w)
    BY <1>1, <1>3, <1>5, <2>1, GoesOnIs DEF EnterRefused, Steps
  <2>3. raised' \in [Workers -> Exceptions]
    BY <1>2, <1>5 DEF EnterRefused, Exceptions
  <2>. QED
    BY <1>1, <1>5, <2>2, <2>3, GoodIs DEF EnterRefused, scene
<1>6. ASSUME NEW o \in BOOLEAN, Entered(w, o)
      PROVE  \E f \in Frames : /\ Stacked(w, Len(stack[w]) - 1, f) /\ Inside(f, Top(w))
                               /\ f.owner = o /\ f.step = "body"
  <2>. DEFINE f == [Top(w) EXCEPT !.step = "body", !.owner = o]
  <2>1. f \in Frames /\ Inside(f, Top(w)) /\ f.owner = o /\ f.step = "body"
    BY <1>2 DEF Frames, Inside, Steps
  <2>2. stack' = ReplaceTop(w, f)
    BY <1>6 DEF Entered
  <2>. HIDE DEF f
  <2>3. Stacked(w, Len(stack[w]) - 1, f)
    BY <1>1, <1>2, <2>1, <2>2, Replacing
  <2>. QED
    BY <2>1, <2>3
<1>7. CASE EnterNew(w)
  <2>. DEFINE t == [NewTx("container") EXCEPT !.listeners = Session(Top(w).method)]
  <2>1. t \in Txs /\ t.status \in Live
    BY DEF Txs, NewTx, Session, Live, Statuses
  <2>2. txs' = Append(txs, t) /\ current' = [current EXCEPT ![w] = Len(txs) + 1]
    BY <1>7 DEF EnterNew, Runs
  <2>. HIDE DEF t
  <2>3. /\ txs' \in Seq(Txs) /\ Len(txs') = Len(txs) + 1 /\ SameStatuses
         /\ txs'[Len(txs) + 1].status \in Live
         /\ current' \in [Workers -> 0..Len(txs')]
         /\ current'[w] = Len(txs) + 1 /\ \A v \in Workers \ {w} : current'[v] = current[v]
    BY <2>1, <2>2, Begins
  <2>4. PICK f \in Frames : /\ Stacked(w, Len(stack[w]) - 1, f) /\ Inside(f, Top(w))
                            /\ f.step = "body"
    BY <1>6, <1>7 DEF EnterNew
  <2>5. Changes(w, f)
    BY <1>1, <2>3, <2>4 DEF Changes, Moves, Stacked, SameStatuses
  <2>6. Kinds(w)
    BY <2>5 DEF Kinds
  <2>7. "id" \in DOMAIN results' /\ results'.id = results.id
    <3>. DEFINE r == Recorded(results, w, Len(txs) + 1)
    <3>1. "id" \in DOMAIN r /\ r.id = results.id
      BY <1>2, RecordedKept
    <3>. HIDE DEF r
    <3>2. results' = BeginHeard(r, Session(Top(w).method))
      BY <1>7 DEF EnterNew, r
    <3>. QED
      BY <3>1, <3>2, IdKept
  <2>8. /\ UNCHANGED suite /\ UNCHANGED calm /\ UNCHANGED jobs /\ UNCHANGED raised
        /\ Len(txs') >= Len(txs) /\ results'.id \in 0..Len(txs)
    BY <1>2, <1>7, <2>3, <2>7 DEF EnterNew, Runs, scene
  <2>. QED
    BY <1>1, <2>3, <2>6, <2>7, <2>8, GoodIs
<1>8. CASE EnterJoined(w)
  <2>1. PICK f \in Frames : /\ Stacked(w, Len(stack[w]) - 1, f) /\ Inside(f, Top(w))
                            /\ f.owner = FALSE /\ f.step = "body"
    BY <1>6, <1>8 DEF EnterJoined
  <2>2. ~Ends(f)
    BY <1>8, <2>1 DEF EnterJoined, Attribute, Ends, Ending, Inside
  <2>3. txs' \in Seq(Txs) /\ Len(txs') = Len(txs) /\ SameStatuses
    <3>. DEFINE x == txs[current[w]].listeners \union Session(Top(w).method)
    <3>1. current[w] # 0 => x \subseteq {"listener", "session"}
      <4>1. current[w] # 0 => txs[current[w]] \in Txs
        BY <1>2 DEF Typed
      <4>. QED
        BY <4>1 DEF Txs, Session
    <3>2. SetTx(w, "listeners", x)
      BY <1>8 DEF EnterJoined
    <3>. HIDE DEF x
    <3>. QED
      BY <3>1, <3>2, SetsOther
  <2>4. current' = current
    BY <1>2, <1>8 DEF EnterJoined, Runs
  <2>5. Moves(w)
    BY <2>1, <2>3, <2>4 DEF Moves, SameStatuses, Stacked
  <2>6. current[w] # 0 /\ txs[current[w]].status \in Live => txs'[current[w]].status \in Live
    BY <1>2, <2>3 DEF SameStatuses
  <2>7. GoesOn(w, f)
    BY <1>1, <2>1, <2>2, <2>4, <2>5, <2>6 DEF GoesOn
  <2>8. Kinds(w)
    BY <2>7 DEF Kinds
  <2>9. "id" \in DOMAIN results' /\ results'.id = results.id
    <3>. DEFINE r == Recorded(results, w, current[w])
    <3>1. "id" \in DOMAIN r /\ r.id = results.id
      BY <1>2, RecordedKept
    <3>. HIDE DEF r
    <3>2. results' = BeginHeard(r, Session(Top(w).method))
      BY <1>8 DEF EnterJoined, r
    <3>. QED
      BY <3>1, <3>2, IdKept
  <2>. QED
    BY <1>1, <1>2, <1>8, <2>3, <2>4, <2>8, <2>9, GoodIs DEF EnterJoined, Runs, scene
<1>9. CASE EnterWithout(w)
  <2>1. PICK f \in Frames : /\ Stacked(w, Len(stack[w]) - 1, f) /\ Inside(f, Top(w))
                            /\ f.step = "body"
    BY <1>6, <1>9 DEF EnterWithout
  <2>2. /\ current'[w] = 0 /\ \A v \in Workers \ {w} : current'[v] = current[v]
        /\ current' \in [Workers -> 0..Len(txs)] /\ UNCHANGED txs
    BY <1>2, <1>9 DEF EnterWithout, Runs
  <2>3. Changes(w, f)
    BY <1>1, <1>2, <2>1, <2>2 DEF Changes, Moves, Stacked, SameStatuses
  <2>4. Kinds(w)
    BY <2>3 DEF Kinds
  <2>5. "id" \in DOMAIN results' /\ results'.id = results.id
    BY <1>2, <1>9, RecordedKept DEF EnterWithout
  <2>. QED
    BY <1>1, <1>2, <1>9, <2>2, <2>4, <2>5, GoodIs DEF EnterWithout, Runs, scene
<1>. QED
  BY <1>4, <1>5, <1>7, <1>8, <1>9 DEF Enter

(* The operation a method is at.                                           *)
LEMMA AtFacts ==
  ASSUME Typed, NEW w \in Workers, NEW what, AtOp(w, what)
  PROVE  /\ stack[w] # <<>> /\ Top(w).step = "body" /\ Top(w) \in Frames
         /\ what = "commit" => Ends(Top(w))
         /\ what \in {"call", "async"} => Argument(w) \in DOMAIN Methods
         /\ what = "register" => Argument(w) = "listener"
<1>1. stack[w] # <<>> /\ Top(w).step = "body" /\ Top(w) \in Frames
  BY TopFacts DEF AtOp, InBody, Typed
<1>2. Top(w).method \in DOMAIN Methods /\ Top(w).pc \in Nat \ {0}
  BY <1>1 DEF Frames
<1>3. GoodMethod(Methods[Top(w).method], DOMAIN Methods)
  BY <1>2, MethodFacts
<1>4. Top(w).pc \in DOMAIN Body(w) /\ Body(w)[Top(w).pc][1] = what
  BY <1>2, <1>3 DEF AtOp, Finished, GoodMethod, Body
<1>. QED
  BY <1>1, <1>3, <1>4 DEF GoodMethod, Body, Argument, Ends

(* The operations of a body that neither call nor begin.                   *)
LEMMA OperationGood ==
  ASSUME Typed, CallsInv, NEW w \in Workers,
         \/ PersistEntity(w) \/ StoreId(w) \/ ExecuteUpdate(w) \/ Register(w)
         \/ CallAsynchronously(w) \/ Sleep(w) \/ NoteTransaction(w) \/ Check(w) \/ CommitTx(w)
  PROVE  Good(w)
<1>1. stack[w] # <<>> /\ Top(w).step = "body" /\ Top(w) \in Frames
  BY AtFacts DEF PersistEntity, StoreId, ExecuteUpdate, Register, CallAsynchronously, Sleep,
                 NoteTransaction, Check, CommitTx
<1>2. /\ Len(txs) \in Nat /\ current[w] \in 0..Len(txs) /\ txs \in Seq(Txs)
      /\ "id" \in DOMAIN results /\ results.id \in 0..Len(txs)
      /\ jobs \in Seq((DOMAIN Methods) \X Nat)
      /\ current[w] # 0 => txs[current[w]] \in Txs
  BY <1>1, Flat DEF Typed
<1>3. UNCHANGED txs => SameStatuses
  BY <1>2 DEF SameStatuses
<1>4. /\ "body" \in Steps /\ "before" \in Steps
      /\ Advance(w) => Goes(w, "body")
      /\ \A e \in Exceptions : Thrown(w, e) => Goes(w, "body") /\ raised' \in [Workers -> Exceptions]
      /\ Step(w, "before") => Goes(w, "before")
  BY <1>1, Goings DEF Steps
<1>5. "Runtime" \in Exceptions /\ "Assertion" \in Exceptions
  BY DEF Exceptions
<1>. DEFINE Plain == /\ UNCHANGED suite /\ (UNCHANGED calm \/ Fault(w))
                     /\ UNCHANGED raised \/ raised' \in [Workers -> Exceptions]
                     /\ txs' \in Seq(Txs) /\ Len(txs') = Len(txs) /\ SameStatuses
                     /\ UNCHANGED current
                     /\ jobs' \in Seq((DOMAIN Methods) \X Nat)
                     /\ "id" \in DOMAIN results' /\ results'.id \in 0..Len(txs)
<1>6. ASSUME Goes(w, "body"), Plain
      PROVE  Good(w)
  <2>1. Kinds(w)
    BY <1>1, <1>4, <1>6, GoesOnIs
  <2>. QED
    BY <1>1, <1>2, <1>6, <2>1, GoodIs
<1>7. CASE PersistEntity(w)
  <2>1. Goes(w, "body") /\ (UNCHANGED raised \/ raised' \in [Workers -> Exceptions])
    BY <1>4, <1>5, <1>7 DEF PersistEntity
  <2>2. txs' \in Seq(Txs) /\ Len(txs') = Len(txs) /\ SameStatuses
    BY <1>2, <1>3, <1>7, SetsOther DEF PersistEntity
  <2>3. Plain
    BY <1>2, <1>7, <2>1, <2>2 DEF PersistEntity, scene
  <2>. QED
    BY <1>6, <2>1, <2>3
<1>8. CASE StoreId(w)
  <2>1. Goes(w, "body")
    BY <1>4, <1>8 DEF StoreId
  <2>2. "id" \in DOMAIN results' /\ results'.id = current[w]
    BY <1>2, <1>8 DEF StoreId
  <2>3. Plain
    BY <1>2, <1>3, <1>8, <2>2 DEF StoreId, scene
  <2>. QED
    BY <1>6, <2>1, <2>3
<1>9. CASE ExecuteUpdate(w)
  <2>1. Goes(w, "body") /\ raised' \in [Workers -> Exceptions]
    BY <1>4, <1>5, <1>9 DEF ExecuteUpdate
  <2>2. txs' \in Seq(Txs) /\ Len(txs') = Len(txs) /\ SameStatuses
    <3>. DEFINE x == AbortsOnError \/ txs[current[w]].aborted
    <3>1. CASE SetTx(w, "aborted", x)
      <4>1. current[w] # 0 => txs[current[w]].aborted \in BOOLEAN
        BY <1>2 DEF Txs
      <4>2. current[w] # 0 => x \in BOOLEAN
        BY <4>1, CallsAssumption, Zenon
      <4>. HIDE DEF x
      <4>. QED
        BY <3>1, <4>2, SetsOther
    <3>2. CASE UNCHANGED txs
      BY <1>2, <1>3, <3>2
    <3>. QED
      BY <1>9, <3>1, <3>2 DEF ExecuteUpdate
  <2>3. Plain
    BY <1>2, <1>9, <2>1, <2>2 DEF ExecuteUpdate, scene
  <2>. QED
    BY <1>6, <2>1, <2>3
<1>10. CASE Register(w)
  <2>1. Goes(w, "body")
    BY <1>4, <1>10 DEF Register
  <2>2. txs' \in Seq(Txs) /\ Len(txs') = Len(txs) /\ SameStatuses
    <3>. DEFINE x == txs[current[w]].listeners \union {Argument(w)}
    <3>1. Argument(w) = "listener"
      BY <1>10, AtFacts DEF Register
    <3>2. current[w] # 0 => x \subseteq {"listener", "session"}
      BY <1>2, <3>1 DEF Txs
    <3>3. SetTx(w, "listeners", x)
      BY <1>10 DEF Register
    <3>. HIDE DEF x
    <3>. QED
      BY <3>2, <3>3, SetsOther
  <2>3. Plain
    BY <1>2, <1>10, <2>2 DEF Register, scene
  <2>. QED
    BY <1>6, <2>1, <2>3
<1>11. CASE CallAsynchronously(w)
  <2>1. Goes(w, "body")
    BY <1>4, <1>11 DEF CallAsynchronously
  <2>2. jobs' \in Seq((DOMAIN Methods) \X Nat)
    <3>. DEFINE j == <<Argument(w), current[w]>>
                J == (DOMAIN Methods) \X Nat
    <3>1. j \in J
      BY <1>2, <1>11, AtFacts DEF CallAsynchronously
    <3>2. jobs' = Append(jobs, j)
      BY <1>11 DEF CallAsynchronously
    <3>3. jobs \in Seq(J)
      BY <1>2
    <3>. HIDE DEF j, J
    <3>4. jobs' \in Seq(J)
      BY <3>1, <3>2, <3>3, AppendProperties
    <3>. QED
      BY <3>4 DEF J
  <2>3. Plain
    BY <1>2, <1>3, <1>11, <2>2 DEF CallAsynchronously
  <2>. QED
    BY <1>6, <2>1, <2>3
<1>12. CASE Sleep(w)
  <2>1. Goes(w, "body") /\ Plain
    BY <1>2, <1>3, <1>4, <1>12 DEF Sleep, scene
  <2>. QED
    BY <1>6, <2>1
<1>13. CASE NoteTransaction(w)
  <2>1. Goes(w, "body") /\ Plain
    BY <1>2, <1>3, <1>4, <1>13 DEF NoteTransaction
  <2>. QED
    BY <1>6, <2>1
<1>14. CASE Check(w)
  <2>1. Goes(w, "body") /\ (UNCHANGED raised \/ raised' \in [Workers -> Exceptions])
    BY <1>4, <1>5, <1>14 DEF Check
  <2>2. Plain
    BY <1>2, <1>3, <1>14, <2>1 DEF Check, scene
  <2>. QED
    BY <1>6, <2>1, <2>2
<1>15. CASE CommitTx(w)
  <2>1. Goes(w, "before")
    BY <1>4, <1>15 DEF CommitTx
  <2>2. Ends(Top(w))
    BY <1>15, AtFacts DEF CommitTx
  <2>3. Kinds(w)
    BY <1>1, <1>3, <1>4, <1>15, <2>1, <2>2, GoesOnIs DEF CommitTx
  <2>. QED
    BY <1>1, <1>15, <2>3, GoodIs DEF CommitTx, scene
<1>. QED
  BY <1>7, <1>8, <1>9, <1>10, <1>11, <1>12, <1>13, <1>14, <1>15

(* The call of another method.                                             *)
LEMMA CallGood ==
  ASSUME Typed, CallsInv, NEW w \in Workers, CallMethod(w)
  PROVE  Good(w)
<1>. DEFINE f == Frame(Argument(w), w)
<1>1. /\ stack[w] # <<>> /\ Top(w).step = "body" /\ Argument(w) \in DOMAIN Methods
      /\ current[w] \in 0..Len(txs) /\ Len(txs) \in Nat
  BY AtFacts, Flat DEF CallMethod
<1>2. f \in Frames /\ f.step = "enter" /\ f.outer = current[w]
  BY <1>1 DEF Frame, Frames, Steps
<1>3. /\ stack' = [stack EXCEPT ![w] = Append(@, f)]
      /\ UNCHANGED <<scene, calm, current, raised, txs, results>>
  BY DEF CallMethod
<1>. HIDE DEF f
<1>4. Stacked(w, Len(stack[w]), f)
  BY <1>2, <1>3, Pushing DEF Typed
<1>5. SameStatuses
  BY <1>1, <1>3 DEF SameStatuses
<1>6. Calls(w, f)
  BY <1>1, <1>2, <1>3, <1>4, <1>5 DEF Calls, Moves, Stacked, SameStatuses
<1>7. Kinds(w)
  BY <1>2, <1>6 DEF Kinds
<1>. QED
  BY <1>1, <1>3, <1>7, GoodIs DEF scene

(* The begin of a bean or a test that demarcates its transactions itself.  *)
LEMMA BeginGood ==
  ASSUME Typed, CallsInv, NEW w \in Workers, BeginTx(w)
  PROVE  Good(w)
<1>1. stack[w] # <<>> /\ Top(w).step = "body" /\ Len(txs) \in Nat
  BY AtFacts, Flat DEF BeginTx
<1>. DEFINE t == NewTx(IF Attribute(w) = "BEAN" THEN "bean" ELSE "test")
<1>2. t \in Txs /\ t.status \in Live
  BY DEF Txs, NewTx, Live, Statuses
<1>3. /\ txs' = Append(txs, t) /\ current' = [current EXCEPT ![w] = Len(txs) + 1]
      /\ Advance(w) /\ UNCHANGED <<scene, calm, raised, results>>
  BY DEF BeginTx
<1>. HIDE DEF t
<1>4. /\ txs' \in Seq(Txs) /\ Len(txs') = Len(txs) + 1 /\ SameStatuses
      /\ txs'[Len(txs) + 1].status \in Live
      /\ current' \in [Workers -> 0..Len(txs')]
      /\ current'[w] = Len(txs) + 1 /\ \A v \in Workers \ {w} : current'[v] = current[v]
  BY <1>2, <1>3, Begins
<1>5. PICK f \in Frames : /\ Stacked(w, Len(stack[w]) - 1, f) /\ Inside(f, Top(w))
                          /\ f.step = "body"
  BY <1>1, <1>3, Goings DEF Goes
<1>6. Changes(w, f)
  BY <1>1, <1>4, <1>5 DEF Changes, Moves, Stacked, SameStatuses
<1>7. Kinds(w) /\ Len(txs') >= Len(txs)
  BY <1>1, <1>4, <1>6 DEF Kinds
<1>. QED
  BY <1>1, <1>3, <1>4, <1>7, GoodIs DEF scene

(* The completion of a transaction: the callbacks before, the outcome, the *)
(* callbacks after.                                                        *)
LEMMA CompletionGood ==
  ASSUME Typed, CallsInv, NEW w \in Workers,
         BeforeCompletion(w) \/ Complete(w) \/ AfterCompletion(w)
  PROVE  Good(w)
<1>1. stack[w] # <<>> /\ Top(w).step \in {"before", "complete", "after"}
  BY DEF BeforeCompletion, Complete, AfterCompletion
<1>2. /\ Len(txs) \in Nat /\ current[w] \in 0..Len(txs) /\ txs \in Seq(Txs)
      /\ "id" \in DOMAIN results /\ results.id \in 0..Len(txs)
      /\ raised \in [Workers -> Exceptions] /\ current \in [Workers -> 0..Len(txs)]
      /\ stack \in [Workers -> Seq(Frames)] /\ Top(w) \in Frames
      /\ stack[w] \in Seq(Frames)
  BY <1>1, Flat, TopFacts DEF Typed
<1>3. /\ "after" \in Steps /\ "complete" \in Steps
      /\ "rolledback" \in Statuses /\ "committed" \in Statuses /\ "kept" \in Statuses
      /\ \A s \in Steps : Step(w, s) => Goes(w, s)
      /\ [raised EXCEPT ![w] = "Rollback"] \in [Workers -> Exceptions]
  BY <1>1, <1>2, Goings DEF Steps, Statuses, Live, Ended, Exceptions
<1>4. ASSUME NEW s \in Statuses, SetTx(w, "status", s), Step(w, "after"), UNCHANGED current,
             Top(w).step \in {"before", "complete"}
      PROVE  Kinds(w) /\ txs' \in Seq(Txs) /\ Len(txs') >= Len(txs)
  <2>1. /\ txs' \in Seq(Txs) /\ Len(txs') = Len(txs)
        /\ \A i \in 1..Len(txs) : i # current[w] => txs'[i].status = txs[i].status
    BY <1>4, SetsStatus
  <2>2. Goes(w, "after") /\ Len(txs') >= Len(txs)
    BY <1>2, <1>3, <1>4, <2>1
  <2>. QED
    BY <1>1, <1>4, <2>1, <2>2, SettlesIs
<1>5. CASE BeforeCompletion(w)
  <2>1. CASE txs[current[w]].status = "active"
    <3>1. Goes(w, "complete") /\ UNCHANGED txs /\ UNCHANGED current /\ SameStatuses
      BY <1>2, <1>3, <1>5, <2>1 DEF BeforeCompletion, SameStatuses, scene
    <3>2. Kinds(w)
      BY <1>1, <1>3, <1>5, <3>1, GoesOnIs DEF BeforeCompletion
    <3>3. "id" \in DOMAIN results' /\ results'.id = results.id
      BY <1>2, <1>5, <2>1, IdKept DEF BeforeCompletion
    <3>4. UNCHANGED raised /\ UNCHANGED suite /\ UNCHANGED jobs /\ UNCHANGED calm
      BY <1>5, <2>1 DEF BeforeCompletion, scene
    <3>. QED
      BY <1>1, <1>2, <3>1, <3>2, <3>3, <3>4, GoodIs
  <2>2. CASE txs[current[w]].status # "active"
    <3>1. Kinds(w) /\ txs' \in Seq(Txs) /\ Len(txs') >= Len(txs)
      BY <1>3, <1>4, <1>5, <2>2 DEF BeforeCompletion, RollbackTx
    <3>2. /\ raised' \in [Workers -> Exceptions] /\ UNCHANGED results
          /\ UNCHANGED suite /\ UNCHANGED jobs /\ UNCHANGED calm /\ UNCHANGED current
      BY <1>3, <1>5, <2>2 DEF BeforeCompletion, scene
    <3>. QED
      BY <1>1, <3>1, <3>2, GoodIs
  <2>. QED
    BY <2>1, <2>2
<1>6. CASE Complete(w)
  <2>1. /\ UNCHANGED results /\ UNCHANGED suite /\ UNCHANGED jobs /\ UNCHANGED current
        /\ Top(w).step = "complete" /\ Step(w, "after")
        /\ UNCHANGED calm \/ Fault(w)
        /\ UNCHANGED raised \/ raised' = [raised EXCEPT ![w] = "Rollback"]
        /\ \/ SetTx(w, "status", "committed") \/ SetTx(w, "status", "rolledback")
           \/ SetTx(w, "status", "kept")
    BY <1>6 DEF Complete, scene
  <2>2. Kinds(w) /\ txs' \in Seq(Txs) /\ Len(txs') >= Len(txs)
    BY <1>3, <1>4, <2>1
  <2>3. UNCHANGED raised \/ raised' \in [Workers -> Exceptions]
    BY <1>3, <2>1
  <2>. QED
    BY <1>1, <2>1, <2>2, <2>3, GoodIs
<1>7. CASE AfterCompletion(w)
  <2>. DEFINE p == IF raised[w] = "none" THEN Top(w).pc + 1 ELSE Len(Body(w)) + 1
              f == [Top(w) EXCEPT !.step = IF Finished(w) THEN "return" ELSE "body",
                                  !.pc = IF raised[w] = "none" THEN @ + 1 ELSE Len(Body(w)) + 1]
  <2>1. p \in Nat \ {0}
    <3>1. Len(Body(w)) \in Nat
      BY <1>2, MethodFacts DEF Body, GoodMethod, Frames
    <3>. QED
      BY <1>2, <3>1 DEF Frames
  <2>2. f = [Top(w) EXCEPT !.step = IF Finished(w) THEN "return" ELSE "body", !.pc = p]
    OBVIOUS
  <2>. HIDE DEF p
  <2>3. f \in Frames /\ Inside(f, Top(w)) /\ f.step \in {"body", "return"}
    BY <1>2, <2>1, <2>2 DEF Frames, Inside, Steps
  <2>4. stack' = ReplaceTop(w, f)
    BY <1>7 DEF AfterCompletion
  <2>. HIDE DEF f
  <2>5. Stacked(w, Len(stack[w]) - 1, f)
    BY <1>1, <1>2, <2>3, <2>4, Replacing
  <2>6. /\ current' = [current EXCEPT ![w] = 0]
        /\ UNCHANGED suite /\ UNCHANGED calm /\ UNCHANGED jobs /\ UNCHANGED raised
        /\ UNCHANGED txs
    BY <1>7 DEF AfterCompletion, scene
  <2>7. Changes(w, f)
    BY <1>1, <1>2, <2>3, <2>5, <2>6 DEF Changes, Moves, Stacked, SameStatuses
  <2>8. Kinds(w)
    BY <2>3, <2>7 DEF Kinds
  <2>9. "id" \in DOMAIN results' /\ results'.id = results.id
    <3>. DEFINE i == current[w]
    <3>1. results' = AfterHeard(results, txs[i].listeners, Announced(txs[i].status))
      BY <1>7 DEF AfterCompletion
    <3>. QED
      BY <1>2, <3>1, IdKept
  <2>10. current' \in [Workers -> 0..Len(txs')]
    BY <1>2, <2>6
  <2>. QED
    BY <1>1, <1>2, <2>6, <2>8, <2>9, <2>10, GoodIs
<1>. QED
  BY <1>5, <1>6, <1>7

(* The end of a body: of the call that owns its transaction, of one that   *)
(* has joined it, and of a test with a catch.                              *)
LEMMA LeaveGood ==
  ASSUME Typed, CallsInv, NEW w \in Workers, LeaveOwner(w) \/ LeaveJoined(w) \/ LeaveCatch(w)
  PROVE  Good(w)
<1>1. stack[w] # <<>> /\ Top(w).step = "body"
  BY DEF LeaveOwner, LeaveJoined, LeaveCatch, Leaving, InBody
<1>2. /\ Len(txs) \in Nat /\ current[w] \in 0..Len(txs)
      /\ "id" \in DOMAIN results /\ results.id \in 0..Len(txs)
  BY Flat DEF Typed
<1>3. /\ "after" \in Steps /\ "before" \in Steps /\ "return" \in Steps
      /\ "rolledback" \in Statuses /\ "marked" \in Statuses
      /\ \A s \in Steps : Step(w, s) => Goes(w, s)
  BY <1>1, Goings DEF Steps, Statuses, Live, Ended
<1>4. UNCHANGED txs => SameStatuses
  BY <1>2 DEF SameStatuses
<1>5. ASSUME RollbackTx(w), UNCHANGED current, Ends(Top(w))
      PROVE  Kinds(w) /\ txs' \in Seq(Txs) /\ Len(txs') >= Len(txs)
  BY <1>1, <1>2, <1>3, <1>5, SetsStatus, SettlesIs DEF RollbackTx
<1>6. /\ UNCHANGED suite /\ UNCHANGED calm /\ UNCHANGED jobs /\ UNCHANGED raised
      /\ UNCHANGED current
  BY DEF LeaveOwner, LeaveJoined, LeaveCatch, scene
<1>7. results' = Exited(w) => "id" \in DOMAIN results' /\ results'.id \in 0..Len(txs)
  BY <1>2 DEF Exited
<1>8. CASE LeaveOwner(w)
  <2>1. Ends(Top(w))
    BY <1>8 DEF LeaveOwner, Ends
  <2>2. CASE Step(w, "before") /\ UNCHANGED txs
    <3>1. Kinds(w)
      BY <1>1, <1>3, <1>4, <1>6, <2>1, <2>2, GoesOnIs
    <3>. QED
      BY <1>1, <1>6, <1>7, <1>8, <2>2, <3>1, GoodIs DEF LeaveOwner
  <2>3. CASE RollbackTx(w)
    <3>1. Kinds(w) /\ txs' \in Seq(Txs) /\ Len(txs') >= Len(txs)
      BY <1>5, <1>6, <2>1, <2>3
    <3>. QED
      BY <1>1, <1>6, <1>7, <1>8, <3>1, GoodIs DEF LeaveOwner
  <2>. QED
    BY <1>8, <2>2, <2>3 DEF LeaveOwner
<1>9. CASE LeaveJoined(w)
  <2>1. Goes(w, "return") /\ results' = Exited(w)
    BY <1>3, <1>9 DEF LeaveJoined
  <2>2. CASE SetTx(w, "status", "marked")
    <3>1. /\ txs' \in Seq(Txs) /\ Len(txs') = Len(txs)
          /\ \A i \in 1..Len(txs) : i # current[w] => txs'[i].status = txs[i].status
          /\ current[w] # 0 => txs'[current[w]].status = "marked"
      BY <1>3, <2>2, SetsStatus
    <3>2. OwnLivesOn(w)
      BY <1>2, <3>1 DEF OwnLivesOn, Live
    <3>3. Kinds(w)
      BY <1>1, <1>3, <1>6, <2>1, <3>2, GoesOnIs
    <3>4. Len(txs') >= Len(txs)
      BY <1>2, <3>1
    <3>. QED
      BY <1>1, <1>6, <1>7, <2>1, <3>1, <3>3, <3>4, GoodIs
  <2>3. CASE UNCHANGED txs
    <3>1. Kinds(w)
      BY <1>1, <1>3, <1>4, <1>6, <2>1, <2>3, GoesOnIs
    <3>. QED
      BY <1>1, <1>6, <1>7, <2>1, <2>3, <3>1, GoodIs
  <2>. QED
    BY <1>9, <2>2, <2>3 DEF LeaveJoined
<1>10. CASE LeaveCatch(w)
  <2>1. Ends(Top(w)) /\ UNCHANGED results
    BY <1>10 DEF LeaveCatch, Attribute, Ends, Ending
  <2>2. CASE RollbackTx(w)
    <3>1. Kinds(w) /\ txs' \in Seq(Txs) /\ Len(txs') >= Len(txs)
      BY <1>5, <1>6, <2>1, <2>2
    <3>. QED
      BY <1>1, <1>6, <2>1, <3>1, GoodIs
  <2>3. CASE Step(w, "return") /\ UNCHANGED txs
    <3>1. Kinds(w)
      BY <1>1, <1>3, <1>4, <1>6, <2>3, GoesOnIs
    <3>. QED
      BY <1>1, <1>6, <2>1, <2>3, <3>1, GoodIs
  <2>. QED
    BY <1>10, <2>2, <2>3 DEF LeaveCatch
<1>. QED
  BY <1>8, <1>9, <1>10

(* The return to the caller, who gets back what was put aside.             *)
LEMMA ReturnGood ==
  ASSUME Typed, CallsInv, NEW w \in Workers, Return(w)
  PROVE  Good(w)
<1>. DEFINE L == Len(stack[w])
            callers == Front(stack[w])
<1>1. /\ stack[w] # <<>> /\ Top(w).step = "return"
      /\ UNCHANGED <<test, n, jobs, noted, calm, txs, results>>
  BY DEF Return
<1>2. /\ Len(txs) \in Nat /\ current[w] \in 0..Len(txs) /\ txs \in Seq(Txs)
      /\ raised \in [Workers -> Exceptions] /\ current \in [Workers -> 0..Len(txs)]
      /\ stack \in [Workers -> Seq(Frames)] /\ stack[w] \in Seq(Frames)
      /\ L \in Nat \ {0} /\ Top(w) = stack[w][L]
      /\ \A k \in 1..L : stack[w][k] \in Frames /\ stack[w][k].outer \in 0..Len(txs)
      /\ test \in DOMAIN Tests \union {"none"} /\ n \in 0..MaxTests
      /\ thread \in Threads \union {"none"}
      /\ faults \in 0..MaxFaults /\ disturbed \in BOOLEAN
      /\ jobs \in Seq((DOMAIN Methods) \X Nat)
      /\ "id" \in DOMAIN results /\ results.id \in 0..Len(txs)
  BY <1>1, Flat, TopFacts DEF Typed
<1>3. SameStatuses /\ Len(txs') >= Len(txs)
  BY <1>1, <1>2 DEF SameStatuses
<1>4. L \in 1..L
  BY <1>2
<1>5. CASE callers = <<>>
  <2>1. /\ stack' = [stack EXCEPT ![w] = <<>>]
        /\ IF w \in Threads THEN thread' = "none" ELSE UNCHANGED thread
        /\ raised' = [raised EXCEPT ![w] = "none"] /\ UNCHANGED current
    BY <1>5 DEF Return
  <2>2. /\ stack' \in [Workers -> Seq(Frames)] /\ stack'[w] = <<>>
        /\ \A v \in Workers \ {w} : stack'[v] = stack[v]
    BY <1>2, <2>1
  <2>3. Finishes(w)
    BY <1>1, <1>3, <2>1, <2>2 DEF Finishes, Moves, SameStatuses
  <2>4. raised' \in [Workers -> Exceptions]
    BY <1>2, <2>1 DEF Exceptions
  <2>5. DataTyped
    BY <1>1, <1>2, <1>3, <2>1, <2>4 DEF DataTyped, calm
  <2>6. ThreadStep(w)
    BY <1>1, <2>1, <2>2 DEF ThreadStep
  <2>. QED
    BY <2>3, <2>5, <2>6 DEF Good, Kinds
<1>6. CASE callers # <<>>
  <2>. DEFINE c == Last(callers)
              caught == raised[w] # "none" /\ Methods[c.method].body[c.pc][3]
              thrown == IF raised[w] \in {"none", "Required", "Transactional"}
                          THEN raised[w] ELSE "EJBException"
              p == IF thrown = "none" \/ caught THEN c.pc + 1 ELSE Len(Methods[c.method].body) + 1
              f == [c EXCEPT !.pc = p]
  <2>1. /\ stack' = [stack EXCEPT ![w] = Append(Front(callers), f)]
        /\ raised' = [raised EXCEPT ![w] = IF caught THEN "none" ELSE thrown]
        /\ current' = [current EXCEPT ![w] = Top(w).outer]
        /\ UNCHANGED thread
    <3>1. f = [c EXCEPT !.pc = IF thrown = "none" \/ caught
                                 THEN @ + 1 ELSE Len(Methods[c.method].body) + 1]
      OBVIOUS
    <3>. QED
      BY <1>6, <3>1 DEF Return
  <2>2. /\ callers \in Seq(Frames) /\ Len(callers) = L - 1
        /\ \A k \in 1..L - 1 : callers[k] = stack[w][k]
    BY <1>1, <1>2, AppendFront
  <2>3. L >= 2 /\ c = stack[w][L - 1] /\ c \in Frames
    <3>1. Len(callers) # 0
      BY <1>6, <2>2, EmptySeq
    <3>. QED
      BY <1>2, <2>2, <3>1 DEF Last
  <2>4. p \in Nat \ {0}
    <3>1. c.method \in DOMAIN Methods /\ c.pc \in Nat
      BY <2>3 DEF Frames
    <3>2. Len(Methods[c.method].body) \in Nat
      BY <3>1, MethodFacts DEF GoodMethod
    <3>. QED
      BY <3>1, <3>2
  <2>5. thrown \in Exceptions
    BY <1>2 DEF Exceptions
  <2>. HIDE DEF p, c, caught, thrown
  <2>6. /\ f \in Frames /\ f.outer = c.outer /\ f.step = c.step /\ f.owner = c.owner
        /\ f.method = c.method
    BY <2>3, <2>4 DEF Frames
  <2>. HIDE DEF f, L
  <2>7. Stacked(w, L - 2, f)
    BY <1>1, <1>2, <1>6, <2>1, <2>6, Popping DEF L
  <2>8. Ends(f) => Ends(c)
    BY <2>6 DEF Ends
  <2>9. /\ current'[w] = Top(w).outer /\ \A v \in Workers \ {w} : current'[v] = current[v]
        /\ current' \in [Workers -> 0..Len(txs')]
    BY <1>1, <1>2, <1>4, <2>1
  <2>10. Moves(w)
    BY <1>3, <2>7, <2>9 DEF Moves, Stacked, SameStatuses
  <2>11. ComesBack(w, f)
    BY <1>1, <1>3, <2>3, <2>6, <2>7, <2>8, <2>9, <2>10 DEF ComesBack, L
  <2>12. raised' \in [Workers -> Exceptions]
    BY <1>2, <2>1, <2>5 DEF Exceptions
  <2>13. DataTyped
    BY <1>1, <1>2, <1>3, <2>1, <2>9, <2>12 DEF DataTyped, calm
  <2>14. ThreadStep(w)
    BY <1>1, <2>1 DEF ThreadStep
  <2>. QED
    BY <2>6, <2>11, <2>13, <2>14 DEF Good, Kinds
<1>. QED
  BY <1>5, <1>6

(* The start of a test on an idle thread.                                  *)
LEMMA StartTestGood ==
  ASSUME Typed, CallsInv, NEW w \in Threads, NEW t \in DOMAIN Tests, StartTest(t, w)
  PROVE  Good(w) /\ w \in Workers
<1>. DEFINE left == current[w]
            rollsBack == left # 0 /\ t \notin Listeners
            cleared == IF t \in DOMAIN AsynchronousCallTestCase THEN results ELSE NoResults
            f == [Frame(t, w) EXCEPT !.outer = 0, !.step = "body"]
<1>1. w \in Workers
  BY DEF Workers
<1>2. /\ thread = "none" /\ n < MaxTests /\ thread' = w /\ test' = t /\ n' = n + 1
      /\ IF rollsBack
          THEN /\ txs' = [txs EXCEPT ![left].status = "rolledback"]
               /\ results' = AfterHeard(cleared, txs[left].listeners, "rolledback")
               /\ current' = [current EXCEPT ![w] = 0]
          ELSE results' = cleared /\ UNCHANGED <<txs, current>>
      /\ stack' = [stack EXCEPT ![w] = <<f>>]
      /\ disturbed' = (left # 0 /\ ~rollsBack)
      /\ UNCHANGED <<jobs, raised, outcome, faults>>
  BY DEF StartTest
<1>3. /\ Len(txs) \in Nat /\ current[w] \in 0..Len(txs) /\ txs \in Seq(Txs)
      /\ raised \in [Workers -> Exceptions] /\ current \in [Workers -> 0..Len(txs)]
      /\ stack \in [Workers -> Seq(Frames)]
      /\ n \in 0..MaxTests /\ MaxTests \in Nat /\ faults \in 0..MaxFaults
      /\ jobs \in Seq((DOMAIN Methods) \X Nat)
      /\ "id" \in DOMAIN results /\ results.id \in 0..Len(txs)
  BY <1>1, Flat, CallsAssumption DEF Typed
<1>4. f \in Frames /\ f.step = "body" /\ f.outer = 0
  <2>1. t \in DOMAIN Methods
    BY MethodFacts
  <2>. DEFINE g == Frame(t, w)
  <2>2. g \in Frames
    BY <1>1, <1>3, <2>1 DEF Frame, Frames, Steps
  <2>. HIDE DEF g
  <2>3. f = [g EXCEPT !.outer = 0, !.step = "body"]
    BY DEF g
  <2>. QED
    BY <2>2, <2>3 DEF Frames, Steps
<1>5. Stacked(w, 0, f)
  <2>. HIDE DEF f
  <2>1. <<f>> \in Seq(Frames) /\ Len(<<f>>) = 1 /\ <<f>>[1] = f
    BY <1>4
  <2>. QED
    BY <1>1, <1>2, <1>3, <2>1 DEF Stacked
<1>6. "id" \in DOMAIN cleared /\ cleared.id \in 0..Len(txs)
  BY <1>3 DEF NoResults
<1>. HIDE DEF f, cleared
<1>7. stack[w] = <<>>
  BY <1>1, <1>2, CallsAssumption DEF CallsInv, RunsThere
<1>8. test' \in DOMAIN Tests \union {"none"} /\ thread' \in Threads \union {"none"}
      /\ n' \in 0..MaxTests /\ faults' \in 0..MaxFaults /\ disturbed' \in BOOLEAN
      /\ raised' \in [Workers -> Exceptions] /\ jobs' \in Seq((DOMAIN Methods) \X Nat)
  <2>1. disturbed' \in BOOLEAN
    BY <1>2, Zenon
  <2>. QED
    BY <1>2, <1>3, <2>1
<1>9. CASE rollsBack
  <2>. DEFINE r == [txs[left] EXCEPT !.status = "rolledback"]
  <2>1. left \in 0..Len(txs) /\ (left # 0 => r \in Txs)
    <3>1. left # 0 => txs[left] \in Txs
      BY <1>3
    <3>. QED
      BY <1>3, <3>1 DEF Txs, Statuses, Ended
  <2>2. txs' = [txs EXCEPT ![left] = r]
    BY <1>2, <1>9
  <2>. HIDE DEF r
  <2>3. /\ txs' \in Seq(Txs) /\ Len(txs') = Len(txs)
        /\ \A j \in 1..Len(txs) : txs'[j] = IF j = left THEN r ELSE txs[j]
    BY <1>3, <2>1, <2>2, TxEdit
  <2>4. /\ current'[w] = 0 /\ \A v \in Workers \ {w} : current'[v] = current[v]
        /\ current' \in [Workers -> 0..Len(txs')]
    BY <1>1, <1>2, <1>3, <1>9, <2>3
  <2>5. Moves(w)
    <3>1. Len(txs') >= Len(txs)
      BY <1>3, <2>3
    <3>2. \A i \in 1..Len(txs) : i # current[w] => txs'[i].status = txs[i].status
      BY <2>3
    <3>. QED
      BY <1>5, <2>4, <3>1, <3>2 DEF Moves, Stacked
  <2>6. Starts(w, f)
    BY <1>4, <1>5, <2>4, <2>5 DEF Starts
  <2>7. "id" \in DOMAIN results' /\ results'.id \in 0..Len(txs')
    BY <1>2, <1>6, <1>9, <2>3, IdKept
  <2>8. DataTyped
    BY <1>3, <1>8, <2>3, <2>4, <2>7 DEF DataTyped
  <2>9. ThreadStep(w)
    BY <1>2 DEF ThreadStep
  <2>. QED
    BY <1>1, <1>4, <2>6, <2>8, <2>9 DEF Good, Kinds
<1>10. CASE ~rollsBack
  <2>1. UNCHANGED txs /\ UNCHANGED current /\ results' = cleared
    BY <1>2, <1>10
  <2>2. SameStatuses /\ Moves(w)
    BY <1>3, <1>5, <2>1 DEF SameStatuses, Moves, Stacked
  <2>3. Starts(w, f)
    BY <1>4, <1>5, <1>7, <2>1, <2>2 DEF Starts
  <2>4. DataTyped
    BY <1>3, <1>6, <1>8, <2>1 DEF DataTyped
  <2>5. ThreadStep(w)
    BY <1>2 DEF ThreadStep
  <2>. QED
    BY <1>1, <1>4, <2>3, <2>4, <2>5 DEF Good, Kinds
<1>. QED
  BY <1>9, <1>10

(* The start of an asynchronous method on a thread of the pool.            *)
LEMMA StartJobGood ==
  ASSUME Typed, CallsInv, NEW w \in Pool, StartJob(w)
  PROVE  Good(w) /\ w \in Workers
<1>. DEFINE J == (DOMAIN Methods) \X Nat
            f == Frame(Head(jobs)[1], w)
<1>1. w \in Workers
  BY DEF Workers
<1>2. /\ jobs # <<>> /\ stack[w] = <<>> /\ stack' = [stack EXCEPT ![w] = <<f>>]
      /\ jobs' = Tail(jobs)
      /\ UNCHANGED suite /\ UNCHANGED calm /\ UNCHANGED current /\ UNCHANGED raised
      /\ UNCHANGED txs /\ UNCHANGED results
  BY DEF StartJob
<1>3. /\ Len(txs) \in Nat /\ current[w] \in 0..Len(txs) /\ txs \in Seq(Txs)
      /\ stack \in [Workers -> Seq(Frames)] /\ jobs \in Seq(J)
      /\ current \in [Workers -> 0..Len(txs)]
  BY <1>1, Flat DEF Typed
<1>4. Head(jobs) \in J /\ Tail(jobs) \in Seq(J)
  <2>. HIDE DEF J
  <2>. QED
    BY <1>2, <1>3, HeadTailProperties
<1>5. f \in Frames /\ f.step = "enter" /\ f.outer = current[w]
  <2>1. Head(jobs)[1] \in DOMAIN Methods
    BY <1>4
  <2>. QED
    BY <1>1, <1>3, <2>1 DEF Frame, Frames, Steps
<1>. HIDE DEF f
<1>6. Stacked(w, 0, f)
  <2>1. <<f>> \in Seq(Frames) /\ Len(<<f>>) = 1 /\ <<f>>[1] = f
    BY <1>5
  <2>. QED
    BY <1>1, <1>2, <1>3, <2>1 DEF Stacked
<1>7. SameStatuses /\ Moves(w)
  BY <1>2, <1>3, <1>6 DEF SameStatuses, Moves, Stacked
<1>8. Starts(w, f)
  BY <1>2, <1>5, <1>6, <1>7 DEF Starts
<1>9. DataTyped
  BY <1>2, <1>3, <1>4 DEF DataTyped, Typed, suite, calm
<1>10. ThreadStep(w)
  BY <1>2 DEF ThreadStep, suite
<1>. QED
  BY <1>1, <1>5, <1>8, <1>9, <1>10 DEF Good, Kinds

-----------------------------------------------------------------------------
(* The theorems                                                            *)

(* The invariant holds before the first test.                              *)
LEMMA CallsInit == Init => Typed /\ CallsInv
<1>. SUFFICES ASSUME Init PROVE Typed /\ CallsInv
  OBVIOUS
<1>1. /\ MaxTests \in Nat /\ MaxFaults \in Nat
      /\ stack = [w \in Workers |-> <<>>] /\ current = [w \in Workers |-> 0] /\ txs = <<>>
  BY CallsAssumption DEF Init
<1>2. Len(txs) = 0 /\ \A w \in Workers : stack[w] = <<>> /\ DOMAIN stack[w] = {} /\ current[w] = 0
  BY <1>1
<1>3. Typed
  <2>1. stack \in [Workers -> Seq(Frames)] /\ current \in [Workers -> 0..Len(txs)]
        /\ txs \in Seq(Txs)
    BY <1>1, <1>2
  <2>2. raised \in [Workers -> Exceptions] /\ "id" \in DOMAIN results /\ results.id = 0
        /\ jobs \in Seq((DOMAIN Methods) \X Nat)
    BY DEF Init, Exceptions, NoResults
  <2>3. /\ test \in DOMAIN Tests \union {"none"} /\ thread \in Threads \union {"none"}
        /\ n \in 0..MaxTests /\ faults \in 0..MaxFaults /\ disturbed \in BOOLEAN
    <3>1. test = "none" /\ thread = "none" /\ n = 0 /\ faults = 0 /\ disturbed = FALSE
      BY DEF Init
    <3>2. disturbed \in BOOLEAN
      BY <3>1, Zenon
    <3>. QED
      BY <1>1, <3>1, <3>2
  <2>. QED
    BY <1>2, <2>1, <2>2, <2>3 DEF Typed
<1>4. \A w \in Workers : ThreadInv(w) /\ RunsThere(w) /\ InUse(w) = {}
  BY <1>2 DEF ThreadInv, RunsThere, Alive, InUse
<1>. QED
  BY <1>3, <1>4 DEF CallsInv, Apart

(* A good step of a thread keeps the whole invariant.                      *)
LEMMA GoodKept ==
  ASSUME Typed, CallsInv, NEW w \in Workers, Good(w)
  PROVE  Typed' /\ CallsInv'
<1>1. Kinds(w) /\ DataTyped /\ ThreadStep(w)
  BY DEF Good
<1>2. Typed'
  BY <1>1, TypedKept
<1>3. /\ \A v \in Workers : ThreadInv(v)'
      /\ \A u, v \in Workers : u # v => Apart(u, v)'
      /\ \A v \in Workers \ {w} : stack'[v] = stack[v]
  <2>1. Moves(w)
    BY <1>1, <1>2, KindKept DEF CallsInv
  <2>. QED
    BY <1>1, <1>2, <2>1, ThreadsKept DEF Moves
<1>4. ASSUME NEW v \in Workers PROVE RunsThere(v)'
  <2>. SUFFICES ASSUME v \in Threads, stack'[v] # <<>> PROVE thread' = v
    BY DEF RunsThere
  <2>1. v # w => thread = v
    BY <1>3 DEF CallsInv, RunsThere
  <2>2. w \in Threads /\ stack[w] # <<>> => thread = w
    BY DEF CallsInv, RunsThere
  <2>3. ~(w \in Threads /\ w \in Pool) /\ v # "none"
    BY CallsAssumption
  <2>. QED
    BY <1>1, <2>1, <2>2, <2>3 DEF ThreadStep
<1>. QED
  BY <1>2, <1>3, <1>4 DEF CallsInv

(* Every step keeps the invariant.                                         *)
LEMMA CallsInductive == Typed /\ CallsInv /\ [Next]_vars => Typed' /\ CallsInv'
<1>. SUFFICES ASSUME Typed, CallsInv, [Next]_vars PROVE Typed' /\ CallsInv'
  OBVIOUS
<1>1. ASSUME NEW w \in Workers, Work(w) \/ EnterFails(w) PROVE Typed' /\ CallsInv'
  <2>1. Good(w)
    BY <1>1, EnterGood, OperationGood, CallGood, BeginGood, CompletionGood, LeaveGood, ReturnGood
       DEF Work
  <2>. QED
    BY <2>1, GoodKept
<1>2. ASSUME NEW t \in DOMAIN Tests, NEW w \in Threads, StartTest(t, w)
      PROVE  Typed' /\ CallsInv'
  BY <1>2, StartTestGood, GoodKept
<1>3. ASSUME NEW w \in Pool, StartJob(w) PROVE Typed' /\ CallsInv'
  BY <1>3, StartJobGood, GoodKept
<1>4. CASE UNCHANGED vars
  <2>1. Typed'
    BY <1>4 DEF vars, Typed
  <2>2. stack' = stack /\ current' = current /\ txs' = txs /\ thread' = thread
    BY <1>4 DEF vars
  <2>3. \A w \in Workers : ThreadInv(w)' = ThreadInv(w) /\ RunsThere(w)' = RunsThere(w)
    BY <2>2 DEF ThreadInv, CallInv, RunsThere, Alive, Ends, Working, Top
  <2>4. \A v, w \in Workers : Apart(v, w)' = Apart(v, w)
    BY <2>2 DEF Apart, InUse
  <2>. QED
    BY <2>1, <2>3, <2>4 DEF CallsInv
<1>. QED
  BY <1>1, <1>2, <1>3, <1>4 DEF Next

(* In every state of every run the calls are typed, and the threads apart  *)
(* from each other with transactions that live for as long as they are     *)
(* used.                                                                   *)
THEOREM CallsInvariant == Spec => [](Typed /\ CallsInv)
<1>1. Init => Typed /\ CallsInv
  BY CallsInit
<1>2. Typed /\ CallsInv /\ [Next]_vars => (Typed /\ CallsInv)'
  BY CallsInductive
<1>. QED
  BY <1>1, <1>2, PTL DEF Spec

(* The variables have their types.                                         *)
THEOREM TypeCorrect == Spec => []TypeOK
<1>1. Typed => TypeOK
  <2>. SUFFICES ASSUME Typed PROVE TypeOK
    OBVIOUS
  <2>1. \A i \in DOMAIN txs : txs[i] \in Txs
    BY DEF Typed
  <2>2. \A i \in DOMAIN txs :
       /\ txs[i].status \in Statuses /\ txs[i].by \in {"container", "bean", "test"}
       /\ txs[i].aborted \in BOOLEAN /\ txs[i].entity \in BOOLEAN
       /\ txs[i].listeners \subseteq {"listener", "session"}
    BY <2>1 DEF Txs
  <2>3. \A w \in Workers :
       /\ current[w] \in 0..Len(txs) /\ raised[w] \in Exceptions
       /\ \A k \in DOMAIN stack[w] :
            /\ stack[w][k].method \in DOMAIN Methods /\ stack[w][k].step \in Steps
            /\ stack[w][k].outer \in 0..Len(txs)
    <3>. SUFFICES ASSUME NEW w \in Workers
                  PROVE  /\ current[w] \in 0..Len(txs) /\ raised[w] \in Exceptions
                         /\ \A k \in DOMAIN stack[w] :
                              stack[w][k] \in Frames /\ stack[w][k].outer \in 0..Len(txs)
      BY DEF Frames
    <3>. QED
      BY Flat DEF Typed
  <2>. QED
    BY <2>2, <2>3 DEF Typed, TypeOK
<1>. QED
  BY <1>1, CallsInvariant, PTL

(* Confined, for any threads, pool, tests and faults: no transaction is    *)
(* used by two threads, a method never runs in one that has ended, and     *)
(* none ends while a caller has put it aside.                              *)
THEOREM ConfinedHolds == Spec => []Confined
<1>1. Typed /\ CallsInv => Confined
  <2>. SUFFICES ASSUME Typed, CallsInv PROVE Confined
    OBVIOUS
  <2>1. \A v, w \in Workers : v # w => InUse(v) \cap InUse(w) = {}
    BY DEF CallsInv, Apart
  <2>2. ASSUME NEW w \in Workers, InBody(w), current[w] # 0
        PROVE  txs[current[w]].status \in Live
    BY <2>2 DEF CallsInv, ThreadInv, InBody, Alive
  <2>3. ASSUME NEW w \in Workers, NEW k \in DOMAIN stack[w],
               stack[w][k].outer # 0, stack[w][k].outer # current[w]
        PROVE  txs[stack[w][k].outer].status \in Live
    BY <2>3 DEF CallsInv, ThreadInv, CallInv, Alive
  <2>. QED
    BY <2>1, <2>2, <2>3 DEF Confined
<1>. QED
  BY <1>1, CallsInvariant, PTL

-----------------------------------------------------------------------------
(* The text of the calls that report                                       *)

Entities == DOMAIN OnDatasourceConnectionFailTestCase
Callers == DOMAIN CallerBean
Creators == DOMAIN TableCreator
Synchronizers == DOMAIN BeanSynchronization \union DOMAIN BeanSynchronizationRegistry

(* A test that makes one call and checks what it has left.                 *)
CallsAndChecks(m, names) ==
  /\ m.attribute = "TEST" /\ Len(m.body) = 2
  /\ m.body[1][1] = "call" /\ m.body[1][2] \in names /\ ~m.body[1][3]
  /\ m.body[2][1] = "check" /\ ~m.body[2][3]

(* The methods by the class they are of.                                   *)
LEMMA MethodsOf ==
  /\ \A m \in Listeners : Methods[m] = SynchronizationTests[m]
  /\ \A m \in Entities : Methods[m] = OnDatasourceConnectionFailTestCase[m]
  /\ \A m \in Callers : Methods[m] = CallerBean[m]
  /\ \A m \in Creators : Methods[m] = TableCreator[m]
  /\ Methods["synchronize"] = BeanSynchronization["synchronize"]
  /\ Methods["synchronizeRegistry"] = BeanSynchronizationRegistry["synchronizeRegistry"]
  /\ Methods["beingCalled"] = AsynchronouslyCalledBean["beingCalled"]
<1>. DEFINE All == TestCases \union Beans
<1>1. \A m : (\E c \in All : m \in DOMAIN c) =>
        \E c \in All : m \in DOMAIN c /\ Methods[m] = c[m]
  BY DEF Methods, Together
<1>2. ASSUME NEW c \in All, NEW m \in DOMAIN c, \A d \in All : m \in DOMAIN d => d = c
      PROVE  Methods[m] = c[m]
  BY <1>1, <1>2
<1>. DEFINE Here == {SynchronizationTests, OnDatasourceConnectionFailTestCase, CallerBean,
                     TableCreator, BeanSynchronization, BeanSynchronizationRegistry,
                     AsynchronouslyCalledBean}
            There == {TransactionAttributesEjbTestCase, TransactionAttributesCdiTestCase,
                      AsynchronousCallTestCase, TransactionAttributeEjbBean,
                      TransactionAttributeCdiBean, TransactionAttributeEjbChildBean,
                      StatefulSynchronizationAnnotationsBean,
                      StatefulBmtSynchronizationAnnotationsBean, AsynchronousCallerBean}
            Names == {"testSynchronization", "testRegistry", "testRethrow", "testCatch",
                      "testNewTxn", "callRethrower", "callCatch", "callRequiresNew",
                      "createTableWithRethrow", "createTableAndCatch", "createTableInNewTxn",
                      "synchronize", "synchronizeRegistry", "beingCalled"}
<1>3. All = Here \union There
  BY Zenon DEF TestCases, Beans
<1>4. ASSUME NEW d \in There PROVE DOMAIN d \cap Names = {}
  <2>1. CASE d = TransactionAttributesEjbTestCase
    BY <2>1 DEF TransactionAttributesEjbTestCase
  <2>2. CASE d = TransactionAttributesCdiTestCase
    BY <2>2 DEF TransactionAttributesCdiTestCase
  <2>3. CASE d \in {AsynchronousCallTestCase, TransactionAttributeEjbBean,
                    TransactionAttributeCdiBean, TransactionAttributeEjbChildBean}
    BY <2>3 DEF AsynchronousCallTestCase, TransactionAttributeEjbBean,
                TransactionAttributeCdiBean, TransactionAttributeEjbChildBean
  <2>4. CASE d \in {StatefulSynchronizationAnnotationsBean,
                    StatefulBmtSynchronizationAnnotationsBean, AsynchronousCallerBean}
    BY <2>4 DEF StatefulSynchronizationAnnotationsBean,
                StatefulBmtSynchronizationAnnotationsBean, AsynchronousCallerBean
  <2>. QED
    BY <2>1, <2>2, <2>3, <2>4
<1>5. /\ DOMAIN SynchronizationTests = {"testSynchronization", "testRegistry", "statefulSynchro",
                                        "statefulBmtSynchro"}
      /\ Entities = {"testRethrow", "testCatch", "testNewTxn"}
      /\ Callers = {"callRethrower", "callCatch", "callRequiresNew"}
      /\ Creators = {"createTableWithRethrow", "createTableAndCatch", "createTableInNewTxn"}
      /\ DOMAIN BeanSynchronization = {"synchronize"}
      /\ DOMAIN BeanSynchronizationRegistry = {"synchronizeRegistry"}
      /\ DOMAIN AsynchronouslyCalledBean = {"beingCalled"}
  <2>1. DOMAIN SynchronizationTests = {"testSynchronization", "testRegistry", "statefulSynchro",
                                       "statefulBmtSynchro"}
    BY DEF SynchronizationTests
  <2>2. Entities = {"testRethrow", "testCatch", "testNewTxn"}
    BY DEF Entities, OnDatasourceConnectionFailTestCase
  <2>3. Callers = {"callRethrower", "callCatch", "callRequiresNew"}
    BY DEF Callers, CallerBean
  <2>4. Creators = {"createTableWithRethrow", "createTableAndCatch", "createTableInNewTxn"}
    BY DEF Creators, TableCreator
  <2>5. DOMAIN BeanSynchronization = {"synchronize"}
    BY DEF BeanSynchronization
  <2>6. DOMAIN BeanSynchronizationRegistry = {"synchronizeRegistry"}
    BY DEF BeanSynchronizationRegistry
  <2>7. DOMAIN AsynchronouslyCalledBean = {"beingCalled"}
    BY DEF AsynchronouslyCalledBean
  <2>. QED
    BY <2>1, <2>2, <2>3, <2>4, <2>5, <2>6, <2>7
<1>6. ASSUME NEW c \in Here, NEW m \in DOMAIN c \cap Names
      PROVE  Methods[m] = c[m]
  <2>1. \A d \in Here : m \in DOMAIN d => d = c
    BY <1>5 DEF Entities, Callers, Creators
  <2>2. \A d \in There : m \notin DOMAIN d
    BY <1>4
  <2>. QED
    BY <1>2, <1>3, <2>1, <2>2
<1>. HIDE DEF Here, There
<1>7. /\ SynchronizationTests \in Here /\ OnDatasourceConnectionFailTestCase \in Here
      /\ CallerBean \in Here /\ TableCreator \in Here /\ BeanSynchronization \in Here
      /\ BeanSynchronizationRegistry \in Here /\ AsynchronouslyCalledBean \in Here
  BY DEF Here
<1>. QED
  BY <1>5, <1>6, <1>7 DEF Entities, Callers, Creators, Listeners

(* The bodies of the tests of reports and of the methods they call.        *)
LEMMA BodiesOf ==
  /\ \A t \in Listeners : CallsAndChecks(Methods[t], Synchronizers)
  /\ \A t \in Entities : CallsAndChecks(Methods[t], Callers)
  /\ \A m \in Synchronizers :
       /\ Methods[m].attribute = "REQUIRED" /\ Len(Methods[m].body) = 1
       /\ Methods[m].body[1][1] = "register" /\ Methods[m].body[1][2] = "listener"
  /\ \A m \in Callers :
       LET body == Methods[m].body
       IN /\ Methods[m].attribute = "REQUIRED" /\ Len(body) = 3
          /\ body[1][1] = "call" /\ body[1][2] \in Creators
          /\ body[2][1] = "persist" /\ ~body[2][3]
          /\ body[3][1] = "store"
  /\ \A m \in Creators : Len(Methods[m].body) = 1 /\ Methods[m].body[1][1] = "sql"
<1>. USE DEF Method, Do, Call, CallAndCatch, Store
<1>1. \A t \in Listeners : CallsAndChecks(Methods[t], Synchronizers)
  <2>1. "synchronize" \in Synchronizers /\ "synchronizeRegistry" \in Synchronizers
    BY DEF Synchronizers, BeanSynchronization, BeanSynchronizationRegistry
  <2>2. \A m \in Synchronizers : CallsAndChecks(TestCalls(m), Synchronizers)
    BY DEF TestCalls, CallsAndChecks
  <2>3. /\ SynchronizationTests["testSynchronization"] = TestCalls("synchronize")
        /\ SynchronizationTests["testRegistry"] = TestCalls("synchronizeRegistry")
    BY DEF SynchronizationTests
  <2>. QED
    BY <2>1, <2>2, <2>3, MethodsOf DEF Listeners
<1>2. \A t \in Entities : CallsAndChecks(Methods[t], Callers)
  <2>1. {"callRethrower", "callCatch", "callRequiresNew"} \subseteq Callers
    BY DEF Callers, CallerBean
  <2>2. \A m \in Callers : CallsAndChecks(TestCalls(m), Callers)
    BY DEF TestCalls, CallsAndChecks
  <2>3. \A t \in Entities : \E m \in Callers : OnDatasourceConnectionFailTestCase[t] = TestCalls(m)
    BY <2>1 DEF OnDatasourceConnectionFailTestCase, Entities
  <2>. QED
    BY <2>2, <2>3, MethodsOf
<1>3. \A m \in Synchronizers :
       /\ Methods[m].attribute = "REQUIRED" /\ Len(Methods[m].body) = 1
       /\ Methods[m].body[1][1] = "register" /\ Methods[m].body[1][2] = "listener"
  BY MethodsOf DEF Synchronizers, BeanSynchronization, BeanSynchronizationRegistry
<1>4. \A m \in Creators : Len(Methods[m].body) = 1 /\ Methods[m].body[1][1] = "sql"
  BY MethodsOf DEF Creators, TableCreator
<1>5. ASSUME NEW op
      PROVE  LET b == <<op>> \o <<Do("persist"), Store("id")>>
             IN Len(b) = 3 /\ b[1] = op /\ b[2] = Do("persist") /\ b[3] = Store("id")
  <2>. HIDE DEF Do, Store
  <2>. DEFINE p == Do("persist")
              q == Store("id")
              S == {op, p, q}
              s1 == <<op>>
              s2 == <<p, q>>
  <2>1. s1 \in Seq(S) /\ s2 \in Seq(S) /\ Len(s1) = 1 /\ Len(s2) = 2
        /\ s1[1] = op /\ s2[1] = p /\ s2[2] = q
    OBVIOUS
  <2>. HIDE DEF S, s1, s2
  <2>2. /\ s1 \o s2 \in Seq(S)
        /\ Len(s1 \o s2) = Len(s1) + Len(s2)
        /\ \A i \in 1..Len(s1) + Len(s2) :
             (s1 \o s2)[i] = IF i <= Len(s1) THEN s1[i] ELSE s2[i - Len(s1)]
    BY <2>1, ConcatProperties
  <2>3. Len(s1 \o s2) = 3 /\ (s1 \o s2)[1] = op /\ (s1 \o s2)[2] = p /\ (s1 \o s2)[3] = q
    BY <2>1, <2>2
  <2>. QED
    BY <2>3 DEF s1, s2
<1>6. \A m \in Callers : \E op : /\ Methods[m] = Method("REQUIRED", <<op>> \o <<Do("persist"), Store("id")>>)
                                 /\ op[1] = "call" /\ op[2] \in Creators
  <2>. HIDE DEF Method, Do, Store
  <2>1. {"createTableWithRethrow", "createTableAndCatch", "createTableInNewTxn"} \subseteq Creators
    BY DEF Creators, TableCreator
  <2>2. \A m \in Creators : /\ CallAndCatch(m)[1] = "call" /\ CallAndCatch(m)[2] = m
                            /\ Call(m)[1] = "call" /\ Call(m)[2] = m
    OBVIOUS
  <2>3. \A m \in Callers : \E op \in {CallAndCatch(c) : c \in Creators} \union {Call(c) : c \in Creators} :
          CallerBean[m] = Method("REQUIRED", <<op>> \o <<Do("persist"), Store("id")>>)
    <3>. HIDE DEF CallAndCatch, Call
    <3>. QED
      BY <2>1 DEF Callers, CallerBean
  <2>. DEFINE Saving(op) == Method("REQUIRED", <<op>> \o <<Do("persist"), Store("id")>>)
  <2>. HIDE DEF CallAndCatch, Call
  <2>. SUFFICES ASSUME NEW m \in Callers
                PROVE  \E op : Methods[m] = Saving(op) /\ op[1] = "call" /\ op[2] \in Creators
    OBVIOUS
  <2>4. PICK op \in {CallAndCatch(c) : c \in Creators} \union {Call(c) : c \in Creators} :
          CallerBean[m] = Saving(op)
    BY <2>3
  <2>. HIDE DEF Saving
  <2>5. op[1] = "call" /\ op[2] \in Creators
    BY <2>2, <2>4
  <2>6. Methods[m] = Saving(op)
    BY <2>4, MethodsOf
  <2>. QED
    BY <2>5, <2>6
<1>7. \A m \in Callers :
       LET body == Methods[m].body
       IN /\ Methods[m].attribute = "REQUIRED" /\ Len(body) = 3
          /\ body[1][1] = "call" /\ body[1][2] \in Creators
          /\ body[2][1] = "persist" /\ ~body[2][3]
          /\ body[3][1] = "store"
  <2>. SUFFICES ASSUME NEW m \in Callers
                PROVE  LET body == Methods[m].body
                       IN /\ Methods[m].attribute = "REQUIRED" /\ Len(body) = 3
                          /\ body[1][1] = "call" /\ body[1][2] \in Creators
                          /\ body[2][1] = "persist" /\ ~body[2][3]
                          /\ body[3][1] = "store"
    OBVIOUS
  <2>1. PICK op : /\ Methods[m] = Method("REQUIRED", <<op>> \o <<Do("persist"), Store("id")>>)
                  /\ op[1] = "call" /\ op[2] \in Creators
    BY <1>6
  <2>. DEFINE b == <<op>> \o <<Do("persist"), Store("id")>>
  <2>2. Len(b) = 3 /\ b[1] = op /\ b[2] = Do("persist") /\ b[3] = Store("id")
    BY <1>5
  <2>3. Methods[m].attribute = "REQUIRED" /\ Methods[m].body = b
    BY <2>1
  <2>. HIDE DEF b
  <2>4. Do("persist")[1] = "persist" /\ ~Do("persist")[3] /\ Store("id")[1] = "store"
    OBVIOUS
  <2>. QED
    BY <2>1, <2>2, <2>3, <2>4
<1>. QED
  BY <1>1, <1>2, <1>3, <1>4, <1>7

(* The asynchronous method sleeps, records nothing and has no listener.    *)
LEMMA BeingCalled ==
  LET m == Methods["beingCalled"]
  IN /\ m.attribute = "REQUIRED" /\ \A i \in DOMAIN m.body : m.body[i][1] = "sleep"
     /\ "beingCalled" \notin Logged /\ Session("beingCalled") = {}
<1>1. Methods["beingCalled"] = Method("REQUIRED", <<Do("sleep"), Do("sleep"), Do("sleep")>>)
  BY MethodsOf DEF AsynchronouslyCalledBean
<1>2. "beingCalled" \notin Logged
  BY DEF Logged, TransactionAttributeEjbBean, TransactionAttributeEjbChildBean,
         TransactionAttributeCdiBean
<1>3. Session("beingCalled") = {}
  BY DEF Session, StatefulSynchronizationAnnotationsBean
<1>. QED
  BY <1>1, <1>2, <1>3 DEF Method, Do

-----------------------------------------------------------------------------
(* What a call has reported                                                *)

(* Call f is at the operation that calls method m.                         *)
Calling(f, m) ==
  LET body == Methods[f.method].body
  IN f.pc \in DOMAIN body /\ body[f.pc][1] = "call" /\ body[f.pc][2] = m

(* A call that has begun a transaction and not ended it: as its owner, or  *)
(* with an operation of its own.                                           *)
HasTx(f) ==
  LET body == Methods[f.method].body
  IN /\ f.step \in {"body", "before", "complete", "after"}
     /\ \/ f.owner
        \/ /\ f.pc > 1 /\ 1 \in DOMAIN body /\ body[1][1] = "begin"
           /\ \A i \in DOMAIN body : body[i][1] = "commit" => f.pc <= i

(* A call ends a transaction where its text says so: the container's at    *)
(* the end of the body, its own at its commit or in its catch.             *)
EndsRight(f) ==
  LET m == Methods[f.method]
  IN /\ f.step = "enter" => f.pc = 1
     /\ f.owner => m.attribute \notin Ending
     /\ f.owner /\ f.step \in {"before", "complete", "after"} => f.pc > Len(m.body)
     /\ ~f.owner /\ f.step \in {"before", "complete", "after"} =>
          \/ f.pc \in DOMAIN m.body /\ m.body[f.pc][1] = "commit"
          \/ m.attribute = "CATCH" /\ f.step = "after" /\ f.pc > Len(m.body)

CallText(w, k) ==
  /\ EndsRight(stack[w][k])
  /\ HasTx(stack[w][k]) => Working(w, k) # 0
  /\ k < Len(stack[w]) => Calling(stack[w][k], stack[w][k + 1].method)

(* The outermost call of a thread: the test, or the one asynchronous       *)
(* method.                                                                 *)
Bottom(w, f) == IF w \in Threads THEN f.method = test ELSE f.method = "beingCalled"

(* No one listens to the transaction of an asynchronous method.            *)
Unheard(w) == w \in Pool /\ current[w] # 0 => txs[current[w]].listeners = {}

TextInv(w) ==
  /\ \A k \in 1..Len(stack[w]) : CallText(w, k)
  /\ stack[w] # <<>> => Bottom(w, stack[w][1])
  /\ stack[w] = <<>> => raised[w] = "none"
  /\ Unheard(w)

TextInvs ==
  /\ \A w \in Workers : TextInv(w)
  /\ jobs \in Seq({"beingCalled"} \X Nat)

(* The test's thread completes a transaction that l listens to.            *)
Completing(l) ==
  /\ thread \in Threads /\ stack[thread] # <<>>
  /\ Top(thread).step \in {"complete", "after"}
  /\ l \in txs[current[thread]].listeners

Heard == {"before", "after", "beforeCompletion", "afterCompletion", "committed"}

(* A completion that has been announced is one that goes on.               *)
HeardInv ==
  /\ Heard \subseteq DOMAIN results
  /\ (results.committed = "yes") <=> (results.afterCompletion = "committed")
  /\ results.before # "none" /\ results.after = "none" => Completing("listener")
  /\ results.beforeCompletion # "none" /\ results.afterCompletion = "none" =>
       Completing("session")

HeardCommit(e) == results.after = "committed" => e = "none" /\ results.before # "none"

(* The course of a test with a listener: the listener of the transaction   *)
(* of the bean it calls hears of a commit last of all, and then only a     *)
(* call without an exception is left.                                      *)
ListenerInv(w) ==
  LET f == Top(w)
      tx == txs[current[w]]
  IN /\ HeardCommit(raised[w])
     /\ results.after = "committed" => f.step = "return" \/ (Len(stack[w]) = 1 /\ f.pc > 1)
     /\ Len(stack[w]) = 1 /\ f.pc = 1 => f.step = "body" /\ raised[w] = "none"
     /\ Len(stack[w]) > 1 =>
          /\ f.step \in {"body", "before", "complete", "after"} => current[w] # 0
          /\ (f.step = "body" /\ f.pc > 1) \/ f.step = "before" => "listener" \in tx.listeners
          /\ f.step = "complete" => results.before # "none"
          /\ f.step \in {"enter", "body", "before", "complete"} => raised[w] = "none"
          /\ f.step = "after" /\ tx.status = "committed" =>
               results.before # "none" /\ raised[w] = "none"

Told == results.id # 0 /\ txs[results.id].entity /\ txs[results.id].status = "committed"
(* A commit that fails leaves open whether the entity is in the database.  *)
Void ==
  results.id # 0 => \/ txs[results.id].status = "rolledback"
                    \/ txs[results.id].status = "kept" /\ disturbed
Reported(e) == IF e = "none" THEN Told ELSE Void

(* The course of a test of CallerBean, outside the call of the bean ...    *)
TestCourse(w) ==
  LET f == Top(w)
  IN /\ current[w] = 0
     /\ f.pc = 1 => results.id = 0 /\ raised[w] = "none" /\ f.step = "body"
     /\ f.pc > 1 => Reported(raised[w])

(* ... and within it: the identifier is stored when the entity is in the   *)
(* transaction, and what the call then raises follows its end.             *)
CallerCourse(w) ==
  LET f == stack[w][2]
      i == Working(w, 2)
      Stored == results.id = i /\ txs[i].entity
  IN /\ f.outer = 0
     /\ f.step = "enter" => results.id = 0 /\ raised[w] = "none" /\ current[w] = 0
     /\ f.step \in {"body", "before", "complete", "after"} => f.owner
     /\ f.step = "body" =>
          /\ f.pc <= 3 => results.id = 0 /\ (Len(stack[w]) = 2 => raised[w] = "none")
          /\ f.pc = 3 => txs[i].entity /\ txs[i].status = "active"
          /\ f.pc > 3 => IF raised[w] = "none" THEN Stored /\ txs[i].status = "active"
                         ELSE results.id = 0
     /\ f.step \in {"before", "complete"} => raised[w] = "none" /\ Stored
     /\ f.step = "after" => IF raised[w] = "none" THEN Stored /\ txs[i].status = "committed"
                            ELSE /\ results.id \in {0, i}
                                 /\ \/ txs[i].status = "rolledback"
                                    \/ txs[i].status = "kept" /\ disturbed
     /\ f.step = "return" => Reported(raised[w])

EntityInv(w) == IF Len(stack[w]) = 1 THEN TestCourse(w) ELSE CallerCourse(w)

RunInv ==
  IF thread = "none"
    THEN /\ test \in Listeners => HeardCommit(outcome)
         /\ test \in Entities => Reported(outcome)
    ELSE /\ stack[thread] # <<>>
         /\ test \in Listeners => ListenerInv(thread)
         /\ test \in Entities => EntityInv(thread)

-----------------------------------------------------------------------------
(* What a step does to the calls of its thread                             *)

(* The innermost call is at p, in step s, and owns its transaction if o.   *)
Put(w, p, s, o) ==
  \E f \in Frames :
    /\ Stacked(w, Len(stack[w]) - 1, f) /\ Inside(f, Top(w))
    /\ f.pc = p /\ f.step = s /\ f.owner = o

(* The helpers of the actions, in these terms.                             *)
LEMMA Puts ==
  ASSUME Typed, NEW w \in Workers, stack[w] # <<>>
  PROVE  /\ \A s \in Steps : Step(w, s) => Put(w, Top(w).pc, s, Top(w).owner)
         /\ Advance(w) => Put(w, Top(w).pc + 1, "body", Top(w).owner)
         /\ \A o \in BOOLEAN : Entered(w, o) => Put(w, Top(w).pc, "body", o)
         /\ \A e : Thrown(w, e) =>
              \/ /\ Body(w)[Top(w).pc][3] /\ raised' = raised
                 /\ Put(w, Top(w).pc + 1, "body", Top(w).owner)
              \/ /\ ~Body(w)[Top(w).pc][3] /\ raised' = [raised EXCEPT ![w] = e]
                 /\ Put(w, Len(Body(w)) + 1, "body", Top(w).owner)
         /\ \A s \in Steps, p \in Nat \ {0} :
              stack' = ReplaceTop(w, [Top(w) EXCEPT !.step = s, !.pc = p]) =>
                Put(w, p, s, Top(w).owner)
<1>1. /\ stack \in [Workers -> Seq(Frames)] /\ Top(w) \in Frames
      /\ Top(w).pc \in Nat \ {0} /\ Top(w).owner \in BOOLEAN
  BY TopFacts DEF Typed, Frames
<1>2. ASSUME NEW s \in Steps, NEW p \in Nat \ {0}, NEW o \in BOOLEAN, NEW f,
             f = [Top(w) EXCEPT !.pc = p, !.step = s, !.owner = o], stack' = ReplaceTop(w, f)
      PROVE  Put(w, p, s, o)
  <2>1. f \in Frames /\ Inside(f, Top(w)) /\ f.owner = o /\ f.step = s /\ f.pc = p
    BY <1>1, <1>2 DEF Frames, Inside
  <2>2. Stacked(w, Len(stack[w]) - 1, f)
    BY <1>1, <1>2, <2>1, Replacing
  <2>. QED
    BY <2>1, <2>2 DEF Put
<1>3. ASSUME NEW s \in Steps, NEW p \in Nat \ {0}, NEW f,
             f = [Top(w) EXCEPT !.pc = p, !.step = s], stack' = ReplaceTop(w, f)
      PROVE  Put(w, p, s, Top(w).owner)
  <2>1. f = [Top(w) EXCEPT !.pc = p, !.step = s, !.owner = Top(w).owner]
    BY <1>1, <1>3 DEF Frames
  <2>. QED
    BY <1>1, <1>2, <1>3, <2>1
<1>4. "body" \in Steps /\ Top(w).pc + 1 \in Nat \ {0} /\ Len(Body(w)) + 1 \in Nat \ {0}
  <2>1. Top(w).method \in DOMAIN Methods
    BY <1>1 DEF Frames
  <2>. QED
    BY <1>1, <2>1, MethodFacts DEF Body, GoodMethod, Steps
<1>5. ASSUME NEW s \in Steps, Step(w, s) PROVE Put(w, Top(w).pc, s, Top(w).owner)
  <2>1. [Top(w) EXCEPT !.step = s] = [Top(w) EXCEPT !.pc = Top(w).pc, !.step = s]
    BY <1>1 DEF Frames
  <2>. QED
    BY <1>1, <1>3, <1>5, <2>1 DEF Step
<1>6. Advance(w) => Put(w, Top(w).pc + 1, "body", Top(w).owner)
  BY <1>3, <1>4 DEF Advance
<1>7. ASSUME NEW o \in BOOLEAN, Entered(w, o) PROVE Put(w, Top(w).pc, "body", o)
  <2>1. [Top(w) EXCEPT !.step = "body", !.owner = o]
          = [Top(w) EXCEPT !.pc = Top(w).pc, !.step = "body", !.owner = o]
    BY <1>1 DEF Frames
  <2>2. stack' = ReplaceTop(w, [Top(w) EXCEPT !.pc = Top(w).pc, !.step = "body", !.owner = o])
    BY <1>7, <2>1, Zenon DEF Entered
  <2>. QED
    BY <1>1, <1>2, <1>4, <2>2
<1>8. ASSUME NEW e, Thrown(w, e)
      PROVE  \/ /\ Body(w)[Top(w).pc][3] /\ raised' = raised
                /\ Put(w, Top(w).pc + 1, "body", Top(w).owner)
             \/ /\ ~Body(w)[Top(w).pc][3] /\ raised' = [raised EXCEPT ![w] = e]
                /\ Put(w, Len(Body(w)) + 1, "body", Top(w).owner)
  <2>1. CASE Body(w)[Top(w).pc][3]
    BY <1>6, <1>8, <2>1 DEF Thrown
  <2>2. CASE ~Body(w)[Top(w).pc][3]
    BY <1>3, <1>4, <1>8, <2>2 DEF Thrown
  <2>. QED
    BY <2>1, <2>2
<1>9. ASSUME NEW s \in Steps, NEW p \in Nat \ {0},
             stack' = ReplaceTop(w, [Top(w) EXCEPT !.step = s, !.pc = p])
      PROVE  Put(w, p, s, Top(w).owner)
  <2>1. [Top(w) EXCEPT !.step = s, !.pc = p] = [Top(w) EXCEPT !.pc = p, !.step = s]
    BY <1>1 DEF Frames
  <2>. QED
    BY <1>3, <1>9, <2>1
<1>. QED
  BY <1>5, <1>6, <1>7, <1>8, <1>9

(* The innermost call after such a step, and those below it.               *)
LEMMA PutTop ==
  ASSUME Typed, NEW w \in Workers, stack[w] # <<>>, NEW p, NEW s, NEW o, Put(w, p, s, o)
  PROVE  /\ stack'[w] # <<>> /\ Len(stack'[w]) = Len(stack[w]) /\ Len(stack[w]) \in Nat \ {0}
         /\ Top(w)' = stack'[w][Len(stack[w])]
         /\ Top(w)'.method = Top(w).method /\ Top(w)'.outer = Top(w).outer
         /\ Top(w)'.pc = p /\ Top(w)'.step = s /\ Top(w)'.owner = o
         /\ \A i \in 1..Len(stack[w]) - 1 : stack'[w][i] = stack[w][i]
         /\ \A v \in Workers \ {w} : stack'[v] = stack[v]
<1>1. PICK f \in Frames :
        /\ Stacked(w, Len(stack[w]) - 1, f) /\ Inside(f, Top(w))
        /\ f.pc = p /\ f.step = s /\ f.owner = o
  BY DEF Put
<1>2. Len(stack[w]) \in Nat \ {0}
  BY TopFacts DEF Typed
<1>3. /\ Len(stack'[w]) = Len(stack[w]) /\ stack'[w][Len(stack[w])] = f
      /\ stack'[w] \in Seq(Frames)
      /\ \A i \in 1..Len(stack[w]) - 1 : stack'[w][i] = stack[w][i]
      /\ \A v \in Workers \ {w} : stack'[v] = stack[v]
  BY <1>1, <1>2 DEF Stacked
<1>4. stack'[w] # <<>> /\ Top(w)' = f
  BY <1>2, <1>3, EmptySeq DEF Top, Last
<1>. QED
  BY <1>1, <1>2, <1>3, <1>4 DEF Inside

(* After a call, and after the return of one.                              *)
LEMMA StackedTop ==
  ASSUME NEW w \in Workers, NEW k \in Nat, NEW f, Stacked(w, k, f)
  PROVE  /\ stack'[w] # <<>> /\ Len(stack'[w]) = k + 1 /\ Top(w)' = f /\ stack'[w][k + 1] = f
         /\ \A i \in 1..k : stack'[w][i] = stack[w][i]
         /\ \A v \in Workers \ {w} : stack'[v] = stack[v]
<1>1. /\ Len(stack'[w]) = k + 1 /\ stack'[w][k + 1] = f /\ stack'[w] \in Seq(Frames)
      /\ \A i \in 1..k : stack'[w][i] = stack[w][i]
      /\ \A v \in Workers \ {w} : stack'[v] = stack[v]
  BY DEF Stacked
<1>2. stack'[w] # <<>> /\ Top(w)' = f
  BY <1>1, EmptySeq DEF Top, Last
<1>. QED
  BY <1>1, <1>2

-----------------------------------------------------------------------------
(* The text of the calls                                                   *)

(* The text of a thread whose stack has become its first k calls with f on *)
(* top.                                                                    *)
LEMMA TextKept ==
  ASSUME Typed, NEW w \in Workers, TextInv(w),
         NEW f \in Frames, NEW k \in 0..Len(stack[w]), Stacked(w, k, f),
         k # 0 => /\ Calling(stack[w][k], f.method) /\ f.outer = Working(w, k)
                  /\ UNCHANGED test,
         k = 0 => IF w \in Threads THEN f.method = test' ELSE f.method = "beingCalled",
         EndsRight(f), HasTx(f) => current'[w] # 0, Unheard(w)'
  PROVE  TextInv(w)'
<1>1. Len(stack[w]) \in Nat /\ k \in Nat /\ k <= Len(stack[w])
  BY Flat
<1>2. /\ stack'[w] # <<>> /\ Len(stack'[w]) = k + 1 /\ stack'[w][k + 1] = f
      /\ \A i \in 1..k : stack'[w][i] = stack[w][i]
  BY <1>1, StackedTop
<1>3. \A i \in 1..Len(stack[w]) : CallText(w, i)
  BY DEF TextInv
<1>4. ASSUME NEW i \in 1..k PROVE CallText(w, i)'
  <2>1. /\ stack'[w][i] = stack[w][i] /\ CallText(w, i) /\ i # Len(stack'[w])
        /\ Working(w, i)' = stack'[w][i + 1].outer
    BY <1>1, <1>2, <1>3 DEF Working
  <2>2. EndsRight(stack[w][i])' /\ (HasTx(stack[w][i])' <=> HasTx(stack[w][i]))
    BY <2>1 DEF CallText, EndsRight, HasTx
  <2>3. CASE i = k
    <3>1. stack'[w][i + 1] = f /\ k # 0
      BY <1>1, <1>2, <2>3
    <3>2. Calling(stack[w][k], f.method) /\ f.outer = Working(w, k)
      BY <3>1
    <3>3. Calling(stack[w][i], stack[w][i + 1].method)'
      BY <2>1, <2>3, <3>1, <3>2 DEF Calling
    <3>4. HasTx(stack[w][i])' => Working(w, i)' # 0
      BY <2>1, <2>2, <2>3, <3>1, <3>2 DEF CallText
    <3>. QED
      BY <2>2, <3>3, <3>4 DEF CallText
  <2>4. CASE i # k
    <3>1. i + 1 \in 1..k /\ i < Len(stack[w])
      BY <1>1, <2>4
    <3>2. stack'[w][i + 1] = stack[w][i + 1] /\ Working(w, i) = stack[w][i + 1].outer
      BY <1>1, <1>2, <3>1 DEF Working
    <3>3. Calling(stack[w][i], stack[w][i + 1].method)'
      BY <2>1, <3>1, <3>2 DEF CallText, Calling
    <3>. QED
      BY <2>1, <2>2, <3>2, <3>3 DEF CallText
  <2>. QED
    BY <2>3, <2>4
<1>5. CallText(w, k + 1)'
  <2>1. Working(w, k + 1)' = current'[w] /\ ~(k + 1 < Len(stack'[w]))
    BY <1>1, <1>2 DEF Working
  <2>2. EndsRight(stack[w][k + 1])' /\ (HasTx(stack[w][k + 1])' <=> HasTx(f))
    BY <1>2 DEF EndsRight, HasTx
  <2>. QED
    BY <2>1, <2>2 DEF CallText
<1>6. \A i \in 1..Len(stack'[w]) : CallText(w, i)'
  <2>1. \A i \in 1..(k + 1) : i \in 1..k \/ i = k + 1
    BY <1>1
  <2>. QED
    BY <1>2, <1>4, <1>5, <2>1
<1>7. Bottom(w, stack[w][1])'
  <2>1. CASE k = 0
    BY <1>2, <2>1 DEF Bottom
  <2>2. CASE k # 0
    <3>1. stack'[w][1] = stack[w][1] /\ stack[w] # <<>>
      BY <1>1, <1>2, <2>2, Flat
    <3>. QED
      BY <2>2, <3>1 DEF TextInv, Bottom
  <2>. QED
    BY <2>1, <2>2
<1>. QED
  BY <1>2, <1>6, <1>7 DEF TextInv

(* TextKept where the innermost call remains the innermost.                *)
LEMMA PutText ==
  ASSUME Typed, NEW w \in Workers, stack[w] # <<>>, TextInv(w), UNCHANGED test,
         NEW p, NEW s, NEW o, Put(w, p, s, o),
         \A f \in Frames : /\ f.method = Top(w).method /\ f.pc = p /\ f.step = s /\ f.owner = o
                            => EndsRight(f) /\ (HasTx(f) => current'[w] # 0),
         Unheard(w)'
  PROVE  TextInv(w)'
<1>1. PICK f \in Frames :
        /\ Stacked(w, Len(stack[w]) - 1, f) /\ Inside(f, Top(w))
        /\ f.pc = p /\ f.step = s /\ f.owner = o
  BY DEF Put
<1>2. f.method = Top(w).method /\ f.outer = Top(w).outer
  BY <1>1 DEF Inside
<1>. DEFINE k == Len(stack[w]) - 1
<1>3. /\ k \in 0..Len(stack[w]) /\ Top(w) = stack[w][k + 1] /\ k \in Nat
      /\ k < Len(stack[w]) /\ Len(stack[w]) \in Nat
  BY TopFacts DEF Typed
<1>4. k # 0 => Calling(stack[w][k], f.method) /\ f.outer = Working(w, k)
  <2>. SUFFICES ASSUME k # 0 PROVE Calling(stack[w][k], f.method) /\ f.outer = Working(w, k)
    OBVIOUS
  <2>. HIDE DEF k
  <2>1. k \in 1..Len(stack[w])
    BY <1>3
  <2>2. CallText(w, k) /\ Working(w, k) = stack[w][k + 1].outer
    BY <1>3, <2>1 DEF TextInv, Working
  <2>. QED
    BY <1>2, <1>3, <2>2 DEF CallText
<1>5. k = 0 => IF w \in Threads THEN f.method = test' ELSE f.method = "beingCalled"
  <2>1. Bottom(w, stack[w][1])
    BY DEF TextInv
  <2>. HIDE DEF k
  <2>. QED
    BY <1>2, <1>3, <2>1 DEF Bottom
<1>6. EndsRight(f) /\ (HasTx(f) => current'[w] # 0) /\ Stacked(w, k, f)
  BY <1>1, <1>2
<1>. HIDE DEF k
<1>. QED
  BY <1>3, <1>4, <1>5, <1>6, TextKept

(* The innermost call of a thread and its text.                            *)
LEMMA TopText ==
  ASSUME Typed, NEW w \in Workers, stack[w] # <<>>, TextInv(w)
  PROVE  /\ EndsRight(Top(w)) /\ (HasTx(Top(w)) => current[w] # 0)
         /\ Top(w) \in Frames /\ GoodMethod(Methods[Top(w).method], DOMAIN Methods)
         /\ Top(w).pc \in Nat \ {0} /\ Top(w).owner \in BOOLEAN
         /\ Len(txs) \in Nat /\ current[w] \in 0..Len(txs)
         /\ current[w] # 0 => txs[current[w]] \in Txs
         /\ \A i \in 1..Len(stack[w]) - 1 : Calling(stack[w][i], stack[w][i + 1].method)
         /\ Bottom(w, stack[w][1])
<1>1. /\ Len(stack[w]) \in Nat \ {0} /\ Top(w) = stack[w][Len(stack[w])] /\ Top(w) \in Frames
  BY TopFacts DEF Typed
<1>2. Len(stack[w]) \in 1..Len(stack[w]) /\ Working(w, Len(stack[w])) = current[w]
  BY <1>1 DEF Working
<1>3. EndsRight(Top(w)) /\ (HasTx(Top(w)) => current[w] # 0)
  BY <1>1, <1>2 DEF TextInv, CallText
<1>4. Top(w).method \in DOMAIN Methods /\ Top(w).pc \in Nat \ {0} /\ Top(w).owner \in BOOLEAN
  BY <1>1 DEF Frames
<1>5. /\ Len(txs) \in Nat /\ current[w] \in 0..Len(txs)
      /\ current[w] # 0 => txs[current[w]] \in Txs
  BY Flat DEF Typed
<1>6. \A i \in 1..Len(stack[w]) - 1 : Calling(stack[w][i], stack[w][i + 1].method)
  BY <1>1 DEF TextInv, CallText
<1>7. Bottom(w, stack[w][1])
  BY DEF TextInv
<1>. QED
  BY <1>1, <1>3, <1>4, <1>5, <1>6, <1>7, MethodFacts

(* A thread of the pool runs the asynchronous method and nothing else.     *)
LEMMA PoolFacts ==
  ASSUME Typed, NEW w \in Pool, stack[w] # <<>>, TextInv(w)
  PROVE  /\ Len(stack[w]) = 1 /\ Top(w).method = "beingCalled" /\ Attribute(w) = "REQUIRED"
         /\ \A what : AtOp(w, what) => what = "sleep"
         /\ "beingCalled" \notin Logged /\ Session("beingCalled") = {}
<1>1. w \in Workers /\ w \notin Threads
  BY CallsAssumption DEF Workers
<1>2. /\ stack[w][1].method = "beingCalled" /\ Len(stack[w]) \in Nat \ {0}
      /\ Top(w) = stack[w][Len(stack[w])]
      /\ \A i \in 1..Len(stack[w]) - 1 : Calling(stack[w][i], stack[w][i + 1].method)
      /\ Top(w).pc \in Nat \ {0} /\ GoodMethod(Methods[Top(w).method], DOMAIN Methods)
  BY <1>1, TopText, TopFacts DEF Bottom, Typed
<1>3. LET m == Methods["beingCalled"]
      IN /\ m.attribute = "REQUIRED" /\ \A i \in DOMAIN m.body : m.body[i][1] = "sleep"
         /\ "beingCalled" \notin Logged /\ Session("beingCalled") = {}
  BY BeingCalled
<1>4. Len(stack[w]) = 1
  <2>1. \A m : ~Calling(stack[w][1], m)
    BY <1>2, <1>3 DEF Calling
  <2>2. 1 \notin 1..Len(stack[w]) - 1
    BY <1>2, <2>1, Zenon
  <2>3. \A l \in Nat \ {0} : 1 \notin 1..l - 1 => l = 1
    OBVIOUS
  <2>. QED
    BY <1>2, <2>2, <2>3, Zenon
<1>5. \A what : AtOp(w, what) => what = "sleep"
  BY <1>2, <1>3, <1>4 DEF AtOp, Finished, Body, GoodMethod
<1>. QED
  BY <1>2, <1>3, <1>4, <1>5 DEF Attribute

(* Where a call goes from an operation that neither begins nor ends a      *)
(* transaction.                                                            *)
LEMMA Onward ==
  ASSUME NEW c \in Frames, NEW f \in Frames, EndsRight(c), c.step = "body", f.step = "body",
         f.method = c.method, f.owner = c.owner, c.pc \in DOMAIN Methods[c.method].body,
         Methods[c.method].body[c.pc][1] \notin {"begin", "commit"},
         f.pc \in {c.pc + 1, Len(Methods[c.method].body) + 1}
  PROVE  EndsRight(f) /\ (HasTx(f) => HasTx(c))
<1>. DEFINE body == Methods[c.method].body
<1>1. c.method \in DOMAIN Methods /\ c.pc \in Nat \ {0}
  BY DEF Frames
<1>2. DOMAIN body = 1..Len(body) /\ Len(body) \in Nat
  BY <1>1, MethodFacts DEF GoodMethod
<1>3. EndsRight(f)
  BY DEF EndsRight
<1>4. ASSUME HasTx(f) PROVE HasTx(c)
  <2>1. CASE f.owner
    BY <2>1 DEF HasTx
  <2>2. CASE ~f.owner
    <3>1. /\ 1 \in DOMAIN body /\ body[1][1] = "begin"
          /\ \A i \in DOMAIN body : body[i][1] = "commit" => f.pc <= i
      BY <1>4, <2>2 DEF HasTx
    <3>2. c.pc # 1
      BY <3>1
    <3>3. f.pc >= c.pc /\ f.pc \in Nat
      BY <1>1, <1>2
    <3>4. \A i \in DOMAIN body : body[i][1] = "commit" => c.pc <= i
      BY <1>1, <1>2, <3>1, <3>3
    <3>. QED
      BY <1>1, <3>1, <3>2, <3>4 DEF HasTx
  <2>. QED
    BY <2>1, <2>2
<1>. QED
  BY <1>3, <1>4

(* The operation the innermost call is at, and where it goes from there.   *)
LEMMA OpText ==
  ASSUME Typed, NEW w \in Workers, stack[w] # <<>>, TextInv(w), NEW what, AtOp(w, what)
  PROVE  /\ Top(w).step = "body" /\ Top(w).pc \in DOMAIN Body(w) /\ Top(w).pc <= Len(Body(w))
         /\ Body(w)[Top(w).pc][1] = what
         /\ what \notin {"begin", "commit"} =>
              \A f \in Frames :
                (/\ f.method = Top(w).method /\ f.pc \in {Top(w).pc + 1, Len(Body(w)) + 1}
                 /\ f.step = "body" /\ f.owner = Top(w).owner)
                => EndsRight(f) /\ (HasTx(f) => HasTx(Top(w)))
<1>1. /\ EndsRight(Top(w)) /\ Top(w) \in Frames /\ Top(w).pc \in Nat \ {0}
      /\ Top(w).step = "body" /\ GoodMethod(Methods[Top(w).method], DOMAIN Methods)
  BY TopText DEF AtOp, InBody
<1>2. /\ Top(w).pc \in DOMAIN Body(w) /\ Top(w).pc <= Len(Body(w))
      /\ Body(w)[Top(w).pc][1] = what
  BY <1>1 DEF AtOp, Finished, GoodMethod, Body
<1>3. ASSUME what \notin {"begin", "commit"}, NEW f \in Frames, f.method = Top(w).method,
             f.pc \in {Top(w).pc + 1, Len(Body(w)) + 1}, f.step = "body",
             f.owner = Top(w).owner
      PROVE  EndsRight(f) /\ (HasTx(f) => HasTx(Top(w)))
  BY <1>1, <1>2, <1>3, Onward DEF Body
<1>. QED
  BY <1>1, <1>2, <1>3

(* A thread of the pool in the transaction it was in, or in none.          *)
LEMMA UnheardKept ==
  ASSUME Typed, NEW w \in Workers, Unheard(w),
         \/ current'[w] = 0
         \/ current'[w] = current[w] /\ (txs' = txs \/ \E x : SetTx(w, "status", x))
  PROVE  Unheard(w)'
<1>1. /\ Len(txs) \in Nat /\ current[w] \in 0..Len(txs) /\ DOMAIN txs = 1..Len(txs)
      /\ current[w] # 0 => txs[current[w]] \in Txs
  BY Flat DEF Typed
<1>2. CASE current'[w] = 0
  BY <1>2 DEF Unheard
<1>3. CASE current'[w] = current[w] /\ txs' = txs
  BY <1>3 DEF Unheard
<1>4. ASSUME current'[w] = current[w], NEW x, SetTx(w, "status", x) PROVE Unheard(w)'
  <2>1. current[w] # 0 => txs'[current[w]].listeners = txs[current[w]].listeners
    BY <1>1, <1>4 DEF SetTx, Txs
  <2>. QED
    BY <1>4, <2>1 DEF Unheard
<1>. QED
  BY <1>2, <1>3, <1>4

(* A step changes no other transaction than that of its thread, and none   *)
(* after its completion.                                                   *)
LEMMA OwnTx ==
  ASSUME Typed, CallsInv, NEW w \in Workers, Work(w) \/ EnterFails(w)
  PROVE  /\ \A j \in 1..Len(txs) : j # current[w] => txs'[j] = txs[j]
         /\ stack[w] # <<>> /\ Top(w).step = "after" => txs' = txs
<1>1. txs \in Seq(Txs) /\ DOMAIN txs = 1..Len(txs) /\ Len(txs) \in Nat
  BY Flat DEF Typed
<1>2. ASSUME NEW f, NEW x, SetTx(w, f, x)
      PROVE  \A j \in 1..Len(txs) : j # current[w] => txs'[j] = txs[j]
  BY <1>1, <1>2 DEF SetTx
<1>3. ASSUME NEW t, txs' = Append(txs, t)
      PROVE  \A j \in 1..Len(txs) : j # current[w] => txs'[j] = txs[j]
  BY <1>1, <1>3
<1>4. CASE Enter(w)
  <2>1. Top(w).step = "enter"
    BY <1>4 DEF Enter
  <2>2. CASE EnterNew(w)
    BY <1>3, <2>1, <2>2 DEF EnterNew
  <2>3. CASE EnterJoined(w)
    BY <1>2, <2>1, <2>3 DEF EnterJoined
  <2>4. CASE EnterWithout(w) \/ EnterRefused(w)
    BY <2>1, <2>4 DEF EnterWithout, EnterRefused
  <2>. QED
    BY <1>4, <2>2, <2>3, <2>4 DEF Enter
<1>5. CASE \/ PersistEntity(w) \/ ExecuteUpdate(w) \/ Register(w)
  <2>1. \/ UNCHANGED txs
        \/ \E f \in {"entity", "aborted", "listeners"} : \E x : SetTx(w, f, x)
    BY <1>5 DEF PersistEntity, ExecuteUpdate, Register
  <2>2. Top(w).step = "body"
    BY <1>5 DEF PersistEntity, ExecuteUpdate, Register, AtOp, InBody
  <2>. QED
    BY <1>2, <2>1, <2>2
<1>6. CASE BeginTx(w)
  BY <1>3, <1>6 DEF BeginTx, AtOp, InBody
<1>7. CASE BeforeCompletion(w)
  <2>1. UNCHANGED txs \/ \E x : SetTx(w, "status", x)
    BY <1>7 DEF BeforeCompletion, RollbackTx
  <2>. QED
    BY <1>2, <1>7, <2>1 DEF BeforeCompletion
<1>8. CASE Complete(w)
  <2>1. \E x : SetTx(w, "status", x)
    BY <1>8 DEF Complete
  <2>. QED
    BY <1>2, <1>8, <2>1 DEF Complete
<1>9. CASE LeaveOwner(w) \/ LeaveJoined(w) \/ LeaveCatch(w)
  <2>1. UNCHANGED txs \/ \E x : SetTx(w, "status", x)
    BY <1>9 DEF LeaveOwner, LeaveJoined, LeaveCatch, RollbackTx
  <2>2. Top(w).step = "body"
    BY <1>9 DEF LeaveOwner, LeaveJoined, LeaveCatch, Leaving, InBody
  <2>. QED
    BY <1>2, <2>1, <2>2
<1>10. CASE \/ EnterFails(w) \/ CallMethod(w) \/ StoreId(w) \/ CommitTx(w)
            \/ CallAsynchronously(w) \/ Sleep(w) \/ NoteTransaction(w) \/ Check(w)
            \/ AfterCompletion(w) \/ Return(w)
  <2>1. UNCHANGED txs
    BY <1>10 DEF EnterFails, CallMethod, StoreId, CommitTx, CallAsynchronously, Sleep,
                 NoteTransaction, Check, AfterCompletion, Return
  <2>. QED
    BY <2>1
<1>. QED
  BY <1>4, <1>5, <1>6, <1>7, <1>8, <1>9, <1>10 DEF Work

(* The text of the thread that moves: at the entry of a method ...         *)
LEMMA EnterText ==
  ASSUME Typed, NEW w \in Workers, TextInv(w), Enter(w) \/ EnterFails(w)
  PROVE  TextInv(w)'
<1>. DEFINE T == Top(w)
<1>1. stack[w] # <<>> /\ T.step = "enter"
  BY DEF Enter, EnterFails
<1>2. /\ EndsRight(T) /\ T \in Frames /\ Len(txs) \in Nat /\ current[w] \in 0..Len(txs)
      /\ T.pc = 1 /\ txs \in Seq(Txs) /\ DOMAIN txs = 1..Len(txs)
      /\ current \in [Workers -> 0..Len(txs)] /\ Unheard(w)
      /\ current[w] # 0 => txs[current[w]] \in Txs
  BY <1>1, TopText, Flat DEF EndsRight, Typed, TextInv
<1>3. ASSUME NEW f \in Frames, f.step \in {"body", "return"}, f.owner = FALSE \/ f.step = "return",
             f.pc = 1, f.method = T.method, f.owner => T.owner
      PROVE  EndsRight(f) /\ ~HasTx(f)
  <2>1. T.owner => Methods[T.method].attribute \notin Ending
    BY <1>2 DEF EndsRight
  <2>. QED
    BY <1>3, <2>1 DEF EndsRight, HasTx
<1>4. /\ "return" \in Steps /\ UNCHANGED test
      /\ Step(w, "return") => Put(w, 1, "return", T.owner)
      /\ \A o \in BOOLEAN : Entered(w, o) => Put(w, 1, "body", o)
  <2>1. UNCHANGED test
    BY DEF Enter, EnterFails, EnterNew, EnterJoined, EnterWithout, EnterRefused, Runs, scene, suite
  <2>. QED
    BY <1>1, <1>2, <2>1, Puts DEF Steps
<1>9. ASSUME NEW o \in BOOLEAN, Put(w, 1, "body", o), Unheard(w)',
             \A f \in Frames : f.method = T.method /\ f.pc = 1 /\ f.step = "body" /\ f.owner = o
                               => EndsRight(f) /\ (HasTx(f) => current'[w] # 0)
      PROVE  TextInv(w)'
  BY <1>1, <1>4, <1>9, PutText
<1>5. CASE EnterFails(w) \/ EnterRefused(w)
  <2>1. Put(w, 1, "return", T.owner) /\ UNCHANGED current /\ UNCHANGED txs
    BY <1>4, <1>5 DEF EnterFails, EnterRefused
  <2>2. Unheard(w)'
    BY <1>2, <2>1, UnheardKept
  <2>. HIDE DEF T
  <2>3. \A f \in Frames : f.method = T.method /\ f.pc = 1 /\ f.step = "return" /\ f.owner = T.owner
                            => EndsRight(f) /\ (HasTx(f) => current'[w] # 0)
    BY <1>3
  <2>. QED
    BY <1>1, <1>4, <2>1, <2>2, <2>3, PutText DEF T
<1>6. CASE EnterNew(w)
  <2>1. /\ Put(w, 1, "body", TRUE) /\ current'[w] = Len(txs) + 1
        /\ Attribute(w) \in {"REQUIRED", "REQUIRES_NEW"}
        /\ txs' = Append(txs, [NewTx("container") EXCEPT !.listeners = Session(T.method)])
    BY <1>2, <1>4, <1>6 DEF EnterNew, Runs
  <2>2. txs'[Len(txs) + 1].listeners = Session(T.method)
    BY <1>2, <2>1 DEF NewTx
  <2>3. Unheard(w)'
    BY <1>1, <2>1, <2>2, PoolFacts DEF Unheard
  <2>4. \A f \in Frames : f.method = T.method /\ f.pc = 1 /\ f.step = "body" /\ f.owner = TRUE
                            => EndsRight(f) /\ (HasTx(f) => current'[w] # 0)
    BY <1>2, <2>1 DEF EndsRight, Attribute, Ending
  <2>. HIDE DEF T
  <2>. QED
    BY <1>9, <2>1, <2>3, <2>4, Zenon
<1>7. CASE EnterJoined(w) \/ EnterWithout(w)
  <2>1. Put(w, 1, "body", FALSE)
    BY <1>4, <1>7 DEF EnterJoined, EnterWithout
  <2>2. \A f \in Frames : f.method = T.method /\ f.pc = 1 /\ f.step = "body" /\ f.owner = FALSE
                            => EndsRight(f) /\ (HasTx(f) => current'[w] # 0)
    BY <1>3
  <2>3. CASE EnterWithout(w)
    <3>1. current'[w] = 0
      BY <1>2, <2>3 DEF EnterWithout, Runs
    <3>2. Unheard(w)'
      BY <1>2, <3>1, UnheardKept
    <3>. HIDE DEF T
    <3>. QED
      BY <1>9, <2>1, <2>2, <3>2, Zenon
  <2>4. CASE EnterJoined(w)
    <3>1. /\ current[w] # 0 /\ current'[w] = current[w]
          /\ SetTx(w, "listeners", txs[current[w]].listeners \union Session(T.method))
      BY <1>2, <2>4 DEF EnterJoined, Runs
    <3>2. txs'[current[w]].listeners = txs[current[w]].listeners \union Session(T.method)
      BY <1>2, <3>1 DEF SetTx, Txs
    <3>3. w \in Pool => Session(T.method) = {}
      BY <1>1, PoolFacts
    <3>4. Unheard(w)'
      BY <1>2, <3>1, <3>2, <3>3 DEF Unheard
    <3>. HIDE DEF T
    <3>. QED
      BY <1>9, <2>1, <2>2, <3>4, Zenon
  <2>. QED
    BY <1>7, <2>3, <2>4
<1>. QED
  BY <1>5, <1>6, <1>7 DEF Enter

(* ... in its body ...                                                     *)
LEMMA BodyText ==
  ASSUME Typed, NEW w \in Workers, TextInv(w),
         \/ PersistEntity(w) \/ StoreId(w) \/ ExecuteUpdate(w) \/ Register(w) \/ BeginTx(w)
         \/ CallAsynchronously(w) \/ Sleep(w) \/ NoteTransaction(w) \/ Check(w) \/ CommitTx(w)
  PROVE  TextInv(w)'
<1>. DEFINE T == Top(w)
<1>1. PICK what : AtOp(w, what) /\ (what = "begin" <=> BeginTx(w)) /\ (what = "commit" <=> CommitTx(w))
  <2>1. BeginTx(w) => AtOp(w, "begin")
    BY DEF BeginTx
  <2>2. CommitTx(w) => AtOp(w, "commit")
    BY DEF CommitTx
  <2>3. CASE BeginTx(w)
    <3>1. ~CommitTx(w)
      BY <2>1, <2>2, <2>3 DEF AtOp
    <3>. QED
      BY <2>1, <2>3, <3>1
  <2>4. CASE CommitTx(w)
    <3>1. ~BeginTx(w)
      BY <2>1, <2>2, <2>4 DEF AtOp
    <3>. QED
      BY <2>2, <2>4, <3>1
  <2>5. CASE ~BeginTx(w) /\ ~CommitTx(w)
    <3>1. \E o \in {"persist", "store", "sql", "register", "async", "sleep", "note", "check"} :
            AtOp(w, o)
      BY <2>5 DEF PersistEntity, StoreId, ExecuteUpdate, Register, CallAsynchronously, Sleep,
                  NoteTransaction, Check
    <3>. QED
      BY <2>5, <3>1
  <2>. QED
    BY <2>3, <2>4, <2>5
<1>2. stack[w] # <<>>
  BY <1>1 DEF AtOp, InBody
<1>3. /\ T \in Frames /\ EndsRight(T) /\ (HasTx(T) => current[w] # 0) /\ T.owner \in BOOLEAN
      /\ T.pc \in Nat \ {0} /\ Len(txs) \in Nat /\ current[w] \in 0..Len(txs)
      /\ GoodMethod(Methods[T.method], DOMAIN Methods)
      /\ txs \in Seq(Txs) /\ current \in [Workers -> 0..Len(txs)] /\ Unheard(w)
      /\ w \in Pool => what = "sleep"
  BY <1>1, <1>2, TopText, PoolFacts DEF Typed, TextInv
<1>4. T.step = "body" /\ T.pc \in DOMAIN Body(w) /\ Body(w)[T.pc][1] = what
  BY <1>1, <1>2, OpText
<1>5. UNCHANGED test
  BY DEF PersistEntity, StoreId, ExecuteUpdate, Register, BeginTx, CallAsynchronously, Sleep,
         NoteTransaction, Check, CommitTx, scene, suite
<1>6. CASE what \notin {"begin", "commit"}
  <2>1. current'[w] = current[w]
    BY <1>1, <1>6 DEF PersistEntity, StoreId, ExecuteUpdate, Register, CallAsynchronously, Sleep,
                      NoteTransaction, Check
  <2>2. PICK p \in {T.pc + 1, Len(Body(w)) + 1} : Put(w, p, "body", T.owner)
    <3>1. Advance(w) \/ \E e : Thrown(w, e)
      BY <1>1, <1>6 DEF PersistEntity, StoreId, ExecuteUpdate, Register, CallAsynchronously,
                        Sleep, NoteTransaction, Check
    <3>2. /\ Advance(w) => Put(w, T.pc + 1, "body", T.owner)
          /\ \A e : Thrown(w, e) => \/ Put(w, T.pc + 1, "body", T.owner)
                                    \/ Put(w, Len(Body(w)) + 1, "body", T.owner)
      BY <1>2, Puts
    <3>. QED
      BY <3>1, <3>2
  <2>3. Unheard(w)'
    <3>1. CASE w \in Pool
      <4>1. Sleep(w)
        BY <1>1, <1>3, <3>1 DEF PersistEntity, StoreId, ExecuteUpdate, Register,
                                CallAsynchronously, NoteTransaction, Check, AtOp
      <4>2. UNCHANGED txs
        BY <4>1 DEF Sleep
      <4>. QED
        BY <1>3, <2>1, <4>2, UnheardKept
    <3>2. CASE w \notin Pool
      BY <3>2 DEF Unheard
    <3>. QED
      BY <3>1, <3>2
  <2>4. \A f \in Frames : f.method = T.method /\ f.pc = p /\ f.step = "body" /\ f.owner = T.owner
                            => EndsRight(f) /\ (HasTx(f) => current'[w] # 0)
    BY <1>1, <1>2, <1>3, <1>6, <2>1, OpText
  <2>. HIDE DEF T
  <2>. QED
    BY <1>2, <1>5, <2>2, <2>3, <2>4, PutText DEF T
<1>7. CASE what = "begin"
  <2>1. Put(w, T.pc + 1, "body", T.owner) /\ current'[w] = Len(txs) + 1
    BY <1>1, <1>2, <1>3, <1>7, Puts DEF BeginTx
  <2>2. Unheard(w)'
    BY <1>3, <1>7 DEF Unheard
  <2>3. \A f \in Frames :
          f.method = T.method /\ f.pc = T.pc + 1 /\ f.step = "body" /\ f.owner = T.owner
            => EndsRight(f) /\ (HasTx(f) => current'[w] # 0)
    BY <1>3, <2>1 DEF EndsRight
  <2>. HIDE DEF T
  <2>. QED
    BY <1>2, <1>5, <2>1, <2>2, <2>3, PutText DEF T
<1>8. CASE what = "commit"
  <2>1. Put(w, T.pc, "before", T.owner) /\ current'[w] = current[w]
    BY <1>1, <1>2, <1>8, Puts DEF CommitTx, Steps
  <2>2. Unheard(w)'
    BY <1>3, <1>8 DEF Unheard
  <2>3. Methods[T.method].attribute \in Ending
    BY <1>3, <1>4, <1>8 DEF GoodMethod, Body
  <2>4. ASSUME NEW f \in Frames, f.method = T.method, f.pc = T.pc, f.step = "before",
               f.owner = T.owner
        PROVE  EndsRight(f) /\ (HasTx(f) => current'[w] # 0)
    <3>1. EndsRight(f)
      BY <1>3, <1>4, <1>8, <2>3, <2>4 DEF EndsRight, Body
    <3>2. HasTx(f) => HasTx(T)
      BY <1>4, <2>4 DEF HasTx
    <3>. QED
      BY <1>3, <2>1, <3>1, <3>2
  <2>. HIDE DEF T
  <2>. QED
    BY <1>2, <1>5, <2>1, <2>2, <2>4, PutText DEF T
<1>. QED
  BY <1>6, <1>7, <1>8

(* ... at the end of its transaction ...                                   *)
LEMMA CompletionText ==
  ASSUME Typed, NEW w \in Workers, TextInv(w),
         \/ BeforeCompletion(w) \/ Complete(w) \/ AfterCompletion(w)
         \/ LeaveOwner(w) \/ LeaveJoined(w) \/ LeaveCatch(w)
  PROVE  TextInv(w)'
<1>. DEFINE T == Top(w)
<1>1. stack[w] # <<>>
  BY DEF BeforeCompletion, Complete, AfterCompletion, LeaveOwner, LeaveJoined, LeaveCatch,
         Leaving, InBody
<1>2. /\ T \in Frames /\ EndsRight(T) /\ (HasTx(T) => current[w] # 0) /\ T.owner \in BOOLEAN
      /\ T.pc \in Nat \ {0} /\ Len(txs) \in Nat /\ current[w] \in 0..Len(txs)
      /\ GoodMethod(Methods[T.method], DOMAIN Methods)
      /\ current \in [Workers -> 0..Len(txs)] /\ Unheard(w)
  BY <1>1, TopText DEF Typed, TextInv
<1>3. UNCHANGED test
  BY DEF BeforeCompletion, Complete, AfterCompletion, LeaveOwner, LeaveJoined, LeaveCatch,
         scene, suite
<1>4. CASE AfterCompletion(w)
  <2>. DEFINE p == IF raised[w] = "none" THEN T.pc + 1 ELSE Len(Body(w)) + 1
              s == IF Finished(w) THEN "return" ELSE "body"
  <2>1. T.step = "after" /\ current'[w] = 0 /\ stack' = ReplaceTop(w, [T EXCEPT !.step = s, !.pc = p])
    <3>1. stack' = ReplaceTop(w,
            [T EXCEPT !.step = s, !.pc = IF raised[w] = "none" THEN @ + 1 ELSE Len(Body(w)) + 1])
      BY <1>4 DEF AfterCompletion
    <3>. QED
      BY <1>2, <1>4, <3>1 DEF AfterCompletion
  <2>2. s \in {"return", "body"} /\ s \in Steps /\ p \in Nat \ {0} /\ Len(Body(w)) \in Nat
    BY <1>2 DEF GoodMethod, Body, Steps
  <2>3. s = "body" => T.pc <= Len(Body(w))
    BY <1>2, <2>2 DEF Finished
  <2>4. p \in {T.pc + 1, Len(Body(w)) + 1}
    OBVIOUS
  <2>. HIDE DEF p, s
  <2>5. Put(w, p, s, T.owner)
    BY <1>1, <2>1, <2>2, Puts
  <2>6. Unheard(w)'
    BY <1>2, <2>1, UnheardKept
  <2>7. ASSUME NEW f \in Frames, f.method = T.method, f.pc = p, f.step = s, f.owner = T.owner
        PROVE  EndsRight(f) /\ ~HasTx(f)
    <3>1. EndsRight(f)
      BY <1>2, <2>2, <2>7 DEF EndsRight
    <3>2. ASSUME HasTx(f) PROVE FALSE
      <4>1. s = "body" /\ T.pc <= Len(Body(w))
        BY <2>2, <2>3, <2>7, <3>2 DEF HasTx
      <4>2. ~T.owner /\ T.pc \in DOMAIN Body(w) /\ Body(w)[T.pc][1] = "commit"
        BY <1>2, <2>1, <2>2, <4>1 DEF EndsRight, Body
      <4>3. p <= T.pc
        BY <2>7, <3>2, <4>2 DEF HasTx, Body
      <4>. QED
        BY <1>2, <2>2, <2>4, <4>1, <4>3
    <3>. QED
      BY <3>1, <3>2
  <2>. HIDE DEF T
  <2>. QED
    BY <1>1, <1>3, <2>5, <2>6, <2>7, PutText DEF T
<1>5. ASSUME NEW s \in {"complete", "after", "return", "before"}, Step(w, s),
             UNCHANGED current, UNCHANGED txs \/ \E x : SetTx(w, "status", x),
             \A f \in Frames :
               f.method = T.method /\ f.pc = T.pc /\ f.step = s /\ f.owner = T.owner
                 => EndsRight(f) /\ (HasTx(f) => HasTx(T))
      PROVE  TextInv(w)'
  <2>1. Put(w, T.pc, s, T.owner)
    BY <1>1, <1>5, Puts DEF Steps
  <2>2. Unheard(w)'
    BY <1>2, <1>5, UnheardKept
  <2>3. \A f \in Frames : f.method = T.method /\ f.pc = T.pc /\ f.step = s /\ f.owner = T.owner
                            => EndsRight(f) /\ (HasTx(f) => current'[w] # 0)
    BY <1>2, <1>5
  <2>. HIDE DEF T
  <2>. QED
    BY <1>1, <1>3, <2>1, <2>2, <2>3, PutText DEF T
<1>6. CASE BeforeCompletion(w) \/ Complete(w)
  <2>1. PICK s \in {"complete", "after"} :
          /\ Step(w, s) /\ UNCHANGED current /\ (UNCHANGED txs \/ \E x : SetTx(w, "status", x))
    BY <1>6 DEF BeforeCompletion, Complete, RollbackTx
  <2>2. T.step \in {"before", "complete"}
    BY <1>6 DEF BeforeCompletion, Complete
  <2>3. \A f \in Frames : f.method = T.method /\ f.pc = T.pc /\ f.step = s /\ f.owner = T.owner
                            => EndsRight(f) /\ (HasTx(f) => HasTx(T))
    BY <1>2, <2>1, <2>2 DEF EndsRight, HasTx
  <2>. QED
    BY <1>5, <2>1, <2>3
<1>7. CASE LeaveOwner(w) \/ LeaveCatch(w)
  <2>1. PICK s \in {"before", "after", "return"} :
          /\ Step(w, s) /\ UNCHANGED current /\ (UNCHANGED txs \/ \E x : SetTx(w, "status", x))
          /\ s = "return" \/ (s = "before" /\ LeaveOwner(w)) \/ s = "after"
    BY <1>7 DEF LeaveOwner, LeaveCatch, RollbackTx
  <2>2. T.step = "body" /\ T.pc > Len(Methods[T.method].body)
    BY <1>7 DEF LeaveOwner, LeaveCatch, Leaving, InBody, Finished, Body
  <2>3. T.owner \/ (LeaveCatch(w) /\ Methods[T.method].attribute = "CATCH")
    BY <1>7 DEF LeaveOwner, LeaveCatch, Attribute
  <2>4. T.owner => ~LeaveCatch(w)
    BY <1>2 DEF EndsRight, LeaveCatch, Attribute, Ending
  <2>5. LeaveOwner(w) => T.owner
    BY DEF LeaveOwner
  <2>6. ~T.owner => /\ 1 \in DOMAIN Methods[T.method].body
                    /\ Methods[T.method].body[1][1] = "begin"
                    /\ \A i \in DOMAIN Methods[T.method].body :
                         Methods[T.method].body[i][1] # "commit"
                    /\ T.pc > 1
    BY <1>2, <2>2, <2>3 DEF GoodMethod
  <2>7. ASSUME NEW f \in Frames, f.method = T.method, f.pc = T.pc, f.step = s, f.owner = T.owner
        PROVE  EndsRight(f) /\ (HasTx(f) => HasTx(T))
    <3>1. EndsRight(f)
      BY <1>2, <2>1, <2>2, <2>3, <2>4, <2>5, <2>7 DEF EndsRight
    <3>2. HasTx(T)
      BY <2>2, <2>6 DEF HasTx
    <3>. QED
      BY <3>1, <3>2
  <2>. QED
    BY <1>5, <2>1, <2>7
<1>8. CASE LeaveJoined(w)
  <2>1. /\ Step(w, "return") /\ UNCHANGED current
        /\ (UNCHANGED txs \/ \E x : SetTx(w, "status", x))
    BY <1>8 DEF LeaveJoined
  <2>2. \A f \in Frames : f.method = T.method /\ f.pc = T.pc /\ f.step = "return" /\ f.owner = T.owner
                            => EndsRight(f) /\ (HasTx(f) => HasTx(T))
    BY <1>2 DEF EndsRight, HasTx
  <2>. QED
    BY <1>5, <2>1, <2>2
<1>. QED
  BY <1>4, <1>6, <1>7, <1>8

(* The call of a method, and the return from one, by their frames.         *)
LEMMA CallIs ==
  ASSUME Typed, NEW w \in Workers, CallMethod(w)
  PROVE  \E f \in Frames :
           /\ Stacked(w, Len(stack[w]), f) /\ f.method = Argument(w) /\ f.pc = 1
           /\ f.step = "enter" /\ ~f.owner /\ f.outer = current[w]
<1>. DEFINE f == Frame(Argument(w), w)
<1>1. /\ stack[w] # <<>> /\ Argument(w) \in DOMAIN Methods
      /\ current[w] \in 0..Len(txs) /\ Len(txs) \in Nat
  BY AtFacts, Flat DEF CallMethod
<1>2. /\ f \in Frames /\ f.step = "enter" /\ f.outer = current[w] /\ f.method = Argument(w)
      /\ f.pc = 1 /\ ~f.owner
  BY <1>1 DEF Frame, Frames, Steps
<1>3. stack' = [stack EXCEPT ![w] = Append(@, f)]
  BY DEF CallMethod
<1>. HIDE DEF f
<1>4. Stacked(w, Len(stack[w]), f)
  BY <1>2, <1>3, Pushing DEF Typed
<1>. QED
  BY <1>2, <1>4

(* The return of the last call of a thread.                                *)
Leaves(w) ==
  /\ Len(stack[w]) = 1 /\ stack'[w] = <<>> /\ raised'[w] = "none" /\ UNCHANGED current
  /\ IF w \in Threads THEN thread' = "none" /\ outcome' = raised[w]
                      ELSE UNCHANGED <<thread, outcome>>

(* The return of a call to its caller, whose frame becomes f: it goes on,  *)
(* or has the exception and ends.                                          *)
Resumes(w, f) ==
  LET c == stack[w][Len(stack[w]) - 1]
      body == Methods[c.method].body
  IN /\ Len(stack[w]) >= 2 /\ UNCHANGED <<thread, outcome>> /\ current'[w] = Top(w).outer
     /\ Stacked(w, Len(stack[w]) - 2, f) /\ c \in Frames
     /\ f.method = c.method /\ f.outer = c.outer /\ f.step = c.step /\ f.owner = c.owner
     /\ \/ (raised[w] = "none" \/ body[c.pc][3]) /\ raised'[w] = "none" /\ f.pc = c.pc + 1
        \/ /\ raised[w] # "none" /\ ~body[c.pc][3]
           /\ raised'[w] # "none" /\ f.pc = Len(body) + 1

LEMMA ReturnIs ==
  ASSUME Typed, NEW w \in Workers, Return(w)
  PROVE  /\ stack[w] # <<>> /\ Top(w).step = "return" /\ Len(stack[w]) \in Nat \ {0}
         /\ Top(w) = stack[w][Len(stack[w])]
         /\ UNCHANGED <<test, jobs, txs, results>>
         /\ \A v \in Workers \ {w} : raised'[v] = raised[v]
         /\ Leaves(w) \/ \E f \in Frames : Resumes(w, f)
<1>. DEFINE L == Len(stack[w])
            callers == Front(stack[w])
<1>1. /\ stack[w] # <<>> /\ Top(w).step = "return"
      /\ UNCHANGED <<test, n, jobs, noted, calm, txs, results>>
  BY DEF Return
<1>2. /\ raised \in [Workers -> Exceptions] /\ current \in [Workers -> 0..Len(txs)]
      /\ stack \in [Workers -> Seq(Frames)] /\ stack[w] \in Seq(Frames)
      /\ L \in Nat \ {0} /\ Top(w) = stack[w][L]
      /\ \A k \in 1..L : stack[w][k] \in Frames
  BY <1>1, Flat, TopFacts DEF Typed
<1>3. /\ callers \in Seq(Frames) /\ Len(callers) = L - 1
      /\ \A k \in 1..L - 1 : callers[k] = stack[w][k]
  BY <1>1, <1>2, AppendFront
<1>4. CASE callers = <<>>
  <2>1. /\ stack' = [stack EXCEPT ![w] = <<>>]
        /\ IF w \in Threads THEN thread' = "none" /\ outcome' = raised[w]
                            ELSE UNCHANGED <<thread, outcome>>
        /\ raised' = [raised EXCEPT ![w] = "none"] /\ UNCHANGED current
    BY <1>4 DEF Return
  <2>2. L = 1
    BY <1>2, <1>3, <1>4
  <2>3. Leaves(w)
    BY <1>2, <2>1, <2>2 DEF Leaves
  <2>4. \A v \in Workers \ {w} : raised'[v] = raised[v]
    BY <1>2, <2>1
  <2>. QED
    BY <1>1, <1>2, <2>3, <2>4
<1>5. CASE callers # <<>>
  <2>. DEFINE c == Last(callers)
              body == Methods[c.method].body
              caught == raised[w] # "none" /\ body[c.pc][3]
              thrown == IF raised[w] \in {"none", "Required", "Transactional"}
                          THEN raised[w] ELSE "EJBException"
              p == IF thrown = "none" \/ caught THEN c.pc + 1 ELSE Len(body) + 1
              f == [c EXCEPT !.pc = p]
  <2>1. /\ stack' = [stack EXCEPT ![w] = Append(Front(callers), f)]
        /\ raised' = [raised EXCEPT ![w] = IF caught THEN "none" ELSE thrown]
        /\ current' = [current EXCEPT ![w] = Top(w).outer]
        /\ UNCHANGED <<thread, outcome>>
    <3>1. f = [c EXCEPT !.pc = IF thrown = "none" \/ caught THEN @ + 1 ELSE Len(body) + 1]
      OBVIOUS
    <3>. QED
      BY <1>5, <3>1 DEF Return
  <2>2. L >= 2 /\ c = stack[w][L - 1] /\ c \in Frames
    <3>1. Len(callers) # 0
      BY <1>3, <1>5, EmptySeq
    <3>. QED
      BY <1>2, <1>3, <3>1 DEF Last
  <2>3. p \in Nat \ {0}
    <3>1. c.method \in DOMAIN Methods /\ c.pc \in Nat
      BY <2>2 DEF Frames
    <3>2. Len(body) \in Nat
      BY <3>1, MethodFacts DEF GoodMethod
    <3>. QED
      BY <3>1, <3>2
  <2>4. thrown # "none" <=> raised[w] # "none"
    OBVIOUS
  <2>5. /\ raised'[w] = IF caught THEN "none" ELSE thrown
        /\ \A v \in Workers \ {w} : raised'[v] = raised[v]
        /\ current'[w] = Top(w).outer
    BY <1>2, <2>1
  <2>6. \/ (raised[w] = "none" \/ body[c.pc][3]) /\ raised'[w] = "none" /\ p = c.pc + 1
        \/ raised[w] # "none" /\ ~body[c.pc][3] /\ raised'[w] # "none" /\ p = Len(body) + 1
    <3>1. CASE raised[w] = "none"
      BY <2>4, <2>5, <3>1
    <3>2. CASE raised[w] # "none" /\ body[c.pc][3]
      BY <2>5, <3>2
    <3>3. CASE raised[w] # "none" /\ ~body[c.pc][3]
      BY <2>4, <2>5, <3>3
    <3>. QED
      BY <3>1, <3>2, <3>3
  <2>. HIDE DEF p, c, caught, thrown
  <2>7. /\ f \in Frames /\ f.outer = c.outer /\ f.step = c.step /\ f.owner = c.owner
        /\ f.method = c.method /\ f.pc = p
    BY <2>2, <2>3 DEF Frames
  <2>. HIDE DEF f, L
  <2>8. Stacked(w, L - 2, f)
    BY <1>1, <1>2, <1>5, <2>1, <2>7, Popping DEF L
  <2>9. Resumes(w, f)
    BY <2>1, <2>2, <2>5, <2>6, <2>7, <2>8 DEF Resumes, L
  <2>. QED
    BY <1>1, <1>2, <2>5, <2>7, <2>9 DEF L
<1>. QED
  BY <1>4, <1>5

(* ... and where it calls a method or comes back from one.                 *)
LEMMA StackText ==
  ASSUME Typed, NEW w \in Workers, ThreadInv(w), TextInv(w), CallMethod(w) \/ Return(w)
  PROVE  TextInv(w)'
<1>1. stack[w] # <<>> /\ Unheard(w)
  BY DEF CallMethod, Return, AtOp, InBody, TextInv
<1>2. /\ Len(stack[w]) \in Nat \ {0} /\ Top(w) = stack[w][Len(stack[w])]
      /\ Top(w) \in Frames
  BY <1>1, TopFacts DEF Typed
<1>3. CASE CallMethod(w)
  <2>. DEFINE k == Len(stack[w])
  <2>1. PICK f \in Frames :
           /\ Stacked(w, k, f) /\ f.method = Argument(w) /\ f.pc = 1
           /\ f.step = "enter" /\ ~f.owner /\ f.outer = current[w]
    BY <1>3, CallIs
  <2>2. UNCHANGED test /\ UNCHANGED txs /\ UNCHANGED current /\ AtOp(w, "call")
    BY <1>3 DEF CallMethod, scene, suite
  <2>3. Calling(stack[w][k], f.method) /\ f.outer = Working(w, k)
    <3>1. Top(w).pc \in DOMAIN Body(w) /\ Body(w)[Top(w).pc][1] = "call"
      BY <1>1, <2>2, OpText
    <3>. QED
      BY <1>2, <2>1, <3>1 DEF Calling, Argument, Body, Working
  <2>4. EndsRight(f) /\ ~HasTx(f)
    BY <2>1 DEF EndsRight, HasTx
  <2>5. Unheard(w)'
    BY <1>1, <2>2, UnheardKept
  <2>6. k \in 0..Len(stack[w]) /\ k # 0
    BY <1>2
  <2>. HIDE DEF k
  <2>. QED
    BY <2>1, <2>2, <2>3, <2>4, <2>5, <2>6, TextKept
<1>4. ASSUME Return(w), Leaves(w) PROVE TextInv(w)'
  <2>1. stack'[w] = <<>> /\ raised'[w] = "none" /\ current'[w] = current[w] /\ UNCHANGED txs
    BY <1>4, ReturnIs DEF Leaves
  <2>2. Unheard(w)'
    BY <1>1, <2>1, UnheardKept
  <2>3. Len(stack'[w]) = 0
    BY <2>1
  <2>. QED
    BY <2>1, <2>2, <2>3 DEF TextInv
<1>5. ASSUME Return(w), NEW f \in Frames, Resumes(w, f) PROVE TextInv(w)'
  <2>. DEFINE L == Len(stack[w])
              k == L - 2
              c == stack[w][L - 1]
  <2>1. /\ L >= 2 /\ current'[w] = Top(w).outer /\ Stacked(w, k, f) /\ c \in Frames
        /\ f.method = c.method /\ f.outer = c.outer /\ f.step = c.step /\ f.owner = c.owner
        /\ f.pc \in {c.pc + 1, Len(Methods[c.method].body) + 1}
    BY <1>5 DEF Resumes
  <2>2. UNCHANGED test /\ UNCHANGED txs
    BY <1>5, ReturnIs
  <2>3. /\ \A i \in 1..L : CallText(w, i) /\ Bottom(w, stack[w][1])
        /\ GoodMethod(Methods[c.method], DOMAIN Methods) /\ c.pc \in Nat \ {0}
        /\ L - 1 \in 1..L
    <3>1. c.method \in DOMAIN Methods /\ c.pc \in Nat \ {0}
      BY <2>1 DEF Frames
    <3>. QED
      BY <1>1, <1>2, <2>1, <3>1, MethodFacts DEF TextInv
  <2>4. EndsRight(c) /\ (HasTx(c) => Top(w).outer # 0) /\ Calling(c, Top(w).method)
    <3>1. CallText(w, L - 1) /\ L - 1 < Len(stack[w]) /\ L - 1 # Len(stack[w])
      BY <1>2, <2>3
    <3>2. L - 1 + 1 = Len(stack[w])
      BY <1>2
    <3>. QED
      BY <1>2, <3>1, <3>2 DEF CallText, Working
  <2>5. c.step = "body"
    BY <1>1, <1>2, <2>3, Known
  <2>6. EndsRight(f) /\ (HasTx(f) => HasTx(c))
    BY <2>1, <2>4, <2>5, Onward DEF Calling
  <2>7. HasTx(f) => current'[w] # 0
    BY <2>1, <2>4, <2>6
  <2>8. Unheard(w)'
    <3>1. w \in Pool => L = 1
      BY <1>1, PoolFacts
    <3>2. w \notin Pool
      <4>1. L >= 2
        BY <2>1
      <4>. HIDE DEF L
      <4>. QED
        BY <3>1, <4>1
    <3>. QED
      BY <3>2 DEF Unheard
  <2>9. k \in 0..Len(stack[w]) /\ (k # 0 => k \in 1..L /\ k < L /\ k # L)
        /\ k + 1 = L - 1 /\ (k = 0 => L - 1 = 1)
    <3>1. L >= 2 /\ L \in Nat
      BY <1>2, <2>1
    <3>. HIDE DEF L
    <3>2. k \in 0..L /\ (k # 0 => k \in 1..L /\ k < L /\ k # L)
      BY <3>1
    <3>3. k + 1 = L - 1 /\ (k = 0 => L - 1 = 1)
      BY <3>1
    <3>. QED
      BY <3>2, <3>3 DEF L
  <2>10. k # 0 => Calling(stack[w][k], f.method) /\ f.outer = Working(w, k)
    <3>1. k # 0 => CallText(w, k)
      BY <2>3, <2>9
    <3>. HIDE DEF k
    <3>. QED
      BY <2>1, <2>9, <3>1 DEF CallText, Working
  <2>11. k = 0 => IF w \in Threads THEN f.method = test' ELSE f.method = "beingCalled"
    <3>. HIDE DEF k
    <3>. QED
      BY <2>1, <2>2, <2>3, <2>9 DEF Bottom
  <2>. HIDE DEF k
  <2>. QED
    BY <2>1, <2>2, <2>6, <2>7, <2>8, <2>9, <2>10, <2>11, TextKept
<1>. QED
  BY <1>3, <1>4, <1>5, ReturnIs

(* A step leaves the other threads, and what they use, alone, and the test *)
(* that runs; a thread of the pool its thread and its outcome too.         *)
LEMMA OthersStay ==
  ASSUME Typed, CallsInv, NEW w \in Workers, Work(w) \/ EnterFails(w)
  PROVE  /\ \A v \in Workers \ {w} :
              /\ stack'[v] = stack[v] /\ current'[v] = current[v] /\ raised'[v] = raised[v]
              /\ \A i \in InUse(v) : txs'[i] = txs[i]
         /\ test' = test
         /\ w \notin Threads \/ ~Return(w) => UNCHANGED <<thread, outcome>>
<1>1. Good(w)
  BY EnterGood, OperationGood, CallGood, BeginGood, CompletionGood, LeaveGood, ReturnGood DEF Work
<1>2. Moves(w)
  <2>1. Typed'
    BY <1>1, GoodKept
  <2>. QED
    BY <1>1, <2>1, KindKept DEF Good, CallsInv
<1>3. \A v \in Workers \ {w} : raised'[v] = raised[v]
  <2>1. raised \in [Workers -> Exceptions]
    BY DEF Typed
  <2>2. CASE Return(w)
    BY <2>2, ReturnIs
  <2>3. CASE ~Return(w)
    <3>1. UNCHANGED raised \/ \E e : raised' = [raised EXCEPT ![w] = e]
      <4>1. CASE Enter(w) \/ EnterFails(w)
        BY <4>1 DEF Enter, EnterFails, EnterNew, EnterJoined, EnterWithout, EnterRefused, Runs
      <4>2. CASE \/ CallMethod(w) \/ StoreId(w) \/ Register(w) \/ BeginTx(w) \/ CommitTx(w)
                 \/ CallAsynchronously(w) \/ Sleep(w) \/ NoteTransaction(w)
        BY <4>2 DEF CallMethod, StoreId, Register, BeginTx, CommitTx, CallAsynchronously, Sleep,
                    NoteTransaction
      <4>3. CASE PersistEntity(w) \/ ExecuteUpdate(w) \/ Check(w)
        <5>1. UNCHANGED raised \/ \E e : Thrown(w, e)
          BY <4>3 DEF PersistEntity, ExecuteUpdate, Check
        <5>. QED
          BY <5>1 DEF Thrown
      <4>4. CASE BeforeCompletion(w) \/ Complete(w) \/ AfterCompletion(w)
        BY <4>4 DEF BeforeCompletion, Complete, AfterCompletion
      <4>5. CASE LeaveOwner(w) \/ LeaveJoined(w) \/ LeaveCatch(w)
        BY <4>5 DEF LeaveOwner, LeaveJoined, LeaveCatch
      <4>. QED
        BY <2>3, <4>1, <4>2, <4>3, <4>4, <4>5 DEF Work
    <3>. QED
      BY <2>1, <3>1
  <2>. QED
    BY <2>2, <2>3
<1>4. \A v \in Workers \ {w} : \A i \in InUse(v) : txs'[i] = txs[i]
  <2>. SUFFICES ASSUME NEW v \in Workers \ {w}, NEW i \in InUse(v) PROVE txs'[i] = txs[i]
    OBVIOUS
  <2>1. i \in 1..Len(txs) /\ i # current[w]
    BY InUseFacts DEF CallsInv, Apart
  <2>. QED
    BY <2>1, OwnTx
<1>5. test' = test
  BY DEF Work, Enter, EnterFails, EnterNew, EnterJoined, EnterWithout, EnterRefused, Runs,
         CallMethod, PersistEntity, StoreId, ExecuteUpdate, Register, BeginTx, CommitTx,
         CallAsynchronously, Sleep, NoteTransaction, Check, BeforeCompletion, Complete,
         AfterCompletion, LeaveOwner, LeaveJoined, LeaveCatch, Return, scene, suite
<1>6. w \notin Threads \/ ~Return(w) => UNCHANGED <<thread, outcome>>
  <2>1. CASE Return(w)
    BY <2>1, ReturnIs DEF Leaves, Resumes
  <2>2. CASE ~Return(w)
    BY <2>2 DEF Work, Enter, EnterFails, EnterNew, EnterJoined, EnterWithout, EnterRefused, Runs,
         CallMethod, PersistEntity, StoreId, ExecuteUpdate, Register, BeginTx, CommitTx,
         CallAsynchronously, Sleep, NoteTransaction, Check, BeforeCompletion, Complete,
         AfterCompletion, LeaveOwner, LeaveJoined, LeaveCatch, scene, suite
  <2>. QED
    BY <2>1, <2>2
<1>. QED
  BY <1>2, <1>3, <1>4, <1>5, <1>6 DEF Moves

(* The text of a thread that does not move.                                *)
LEMMA OtherText ==
  ASSUME Typed, NEW v \in Workers, TextInv(v),
         stack'[v] = stack[v], current'[v] = current[v], raised'[v] = raised[v],
         current[v] # 0 => txs'[current[v]].listeners = txs[current[v]].listeners,
         v \in Threads /\ stack[v] # <<>> => test' = test
  PROVE  TextInv(v)'
<1>1. \A k \in 1..Len(stack[v]) : CallText(v, k)'
  <2>. SUFFICES ASSUME NEW k \in 1..Len(stack[v]) PROVE CallText(v, k)'
    OBVIOUS
  <2>1. CallText(v, k) /\ Working(v, k)' = Working(v, k)
    BY DEF TextInv, Working
  <2>. QED
    BY <2>1 DEF CallText, EndsRight, HasTx, Calling
<1>2. stack'[v] # <<>> => Bottom(v, stack[v][1])'
  BY DEF TextInv, Bottom
<1>3. Unheard(v)'
  BY DEF TextInv, Unheard
<1>. QED
  BY <1>1, <1>2, <1>3 DEF TextInv

(* The start of a test, by its frame.                                      *)
LEMMA StartIs ==
  ASSUME Typed, CallsInv, NEW w \in Threads, NEW t \in DOMAIN Tests, StartTest(t, w)
  PROVE  /\ w \in Workers /\ w \notin Pool /\ thread = "none"
         /\ \A v \in Threads : stack[v] = <<>>
         /\ \E f \in Frames : /\ Stacked(w, 0, f) /\ f.method = t /\ f.pc = 1
                              /\ f.step = "body" /\ ~f.owner
         /\ raised' = raised /\ jobs' = jobs
         /\ \A v \in Workers \ {w} :
              /\ stack'[v] = stack[v] /\ current'[v] = current[v]
              /\ current[v] # 0 => txs'[current[v]] = txs[current[v]]
<1>1. w \in Workers /\ w \notin Pool /\ thread = "none" /\ raised' = raised /\ jobs' = jobs
  BY CallsAssumption DEF Workers, StartTest
<1>2. ASSUME NEW v \in Threads PROVE stack[v] = <<>>
  <2>1. v \in Workers /\ v # "none"
    BY CallsAssumption DEF Workers
  <2>. QED
    BY <1>1, <2>1 DEF CallsInv, RunsThere
<1>. DEFINE f == [Frame(t, w) EXCEPT !.outer = 0, !.step = "body"]
<1>3. f \in Frames /\ f.method = t /\ f.pc = 1 /\ f.step = "body" /\ ~f.owner
  <2>1. t \in DOMAIN Methods
    BY MethodFacts
  <2>2. current[w] \in Nat
    BY <1>1, Flat
  <2>. DEFINE g == Frame(t, w)
  <2>3. g \in Frames /\ g.method = t /\ g.pc = 1 /\ ~g.owner
    BY <2>1, <2>2 DEF Frame, Frames, Steps
  <2>. HIDE DEF g
  <2>4. f = [g EXCEPT !.outer = 0, !.step = "body"]
    BY DEF g
  <2>. QED
    BY <2>3, <2>4 DEF Frames, Steps
<1>4. stack' = [stack EXCEPT ![w] = <<f>>]
  BY DEF StartTest
<1>. HIDE DEF f
<1>5. Stacked(w, 0, f)
  <2>1. <<f>> \in Seq(Frames) /\ Len(<<f>>) = 1 /\ <<f>>[1] = f
    BY <1>3
  <2>. QED
    BY <1>1, <1>4, <2>1 DEF Stacked, Typed
<1>6. ASSUME NEW v \in Workers \ {w}
      PROVE  /\ stack'[v] = stack[v] /\ current'[v] = current[v]
             /\ current[v] # 0 => txs'[current[v]] = txs[current[v]]
  <2>1. /\ txs' = txs \/ txs' = [txs EXCEPT ![current[w]].status = "rolledback"]
        /\ current' = current \/ current' = [current EXCEPT ![w] = 0]
    BY DEF StartTest
  <2>2. current[v] # 0 => current[v] # current[w] /\ current[v] \in 1..Len(txs)
    <3>1. current[v] # 0 => current[v] \in InUse(v)
      BY <1>6, InUseFacts
    <3>2. current[v] # 0 /\ current[v] = current[w] => current[v] \in InUse(w)
      BY <1>1, InUseFacts
    <3>3. InUse(v) \cap InUse(w) = {}
      BY <1>1, <1>6 DEF CallsInv, Apart
    <3>. QED
      BY <1>6, <3>1, <3>2, <3>3, InUseFacts
  <2>3. txs \in Seq(Txs) /\ DOMAIN txs = 1..Len(txs) /\ current \in [Workers -> 0..Len(txs)]
        /\ stack \in [Workers -> Seq(Frames)]
    BY DEF Typed
  <2>. QED
    BY <1>4, <1>6, <2>1, <2>2, <2>3
<1>. QED
  BY <1>1, <1>2, <1>3, <1>5, <1>6

(* Every step of a thread keeps the text of all.                           *)
LEMMA WorkText ==
  ASSUME Typed, CallsInv, TextInvs, NEW w \in Workers, Work(w) \/ EnterFails(w)
  PROVE  TextInvs'
<1>1. TextInv(w)'
  BY EnterText, BodyText, CompletionText, StackText DEF Work, TextInvs, CallsInv
<1>2. ASSUME NEW v \in Workers \ {w} PROVE TextInv(v)'
  <2>1. /\ stack'[v] = stack[v] /\ current'[v] = current[v] /\ raised'[v] = raised[v]
        /\ test' = test /\ \A i \in InUse(v) : txs'[i] = txs[i]
    BY <1>2, OthersStay
  <2>2. current[v] # 0 => current[v] \in InUse(v)
    BY <1>2, InUseFacts
  <2>. QED
    BY <1>2, <2>1, <2>2, OtherText DEF TextInvs
<1>3. jobs' \in Seq({"beingCalled"} \X Nat)
  <2>. DEFINE J == {"beingCalled"} \X Nat
  <2>1. CASE CallAsynchronously(w)
    <3>1. AtOp(w, "async") /\ jobs' = Append(jobs, <<Argument(w), current[w]>>)
      BY <2>1 DEF CallAsynchronously
    <3>2. /\ stack[w] # <<>> /\ Top(w).pc \in DOMAIN Body(w) /\ Body(w)[Top(w).pc][1] = "async"
          /\ GoodMethod(Methods[Top(w).method], DOMAIN Methods) /\ current[w] \in Nat
      <4>1. stack[w] # <<>> /\ TextInv(w)
        BY <3>1 DEF AtOp, InBody, TextInvs
      <4>. QED
        BY <3>1, <4>1, OpText, TopText
    <3>3. Argument(w) = "beingCalled"
      BY <3>2 DEF GoodMethod, Argument, Body
    <3>4. <<Argument(w), current[w]>> \in J /\ jobs \in Seq(J)
      BY <3>2, <3>3 DEF TextInvs
    <3>. HIDE DEF J
    <3>5. jobs' \in Seq(J)
      BY <3>1, <3>4, AppendProperties
    <3>. QED
      BY <3>5 DEF J
  <2>2. CASE ~CallAsynchronously(w)
    <3>1. UNCHANGED jobs
      BY <2>2 DEF Work, Enter, EnterFails, EnterNew, EnterJoined, EnterWithout, EnterRefused, Runs,
         CallMethod, PersistEntity, StoreId, ExecuteUpdate, Register, BeginTx, CommitTx,
         Sleep, NoteTransaction, Check, BeforeCompletion, Complete,
         AfterCompletion, LeaveOwner, LeaveJoined, LeaveCatch, Return, scene
    <3>. QED
      BY <3>1 DEF TextInvs
  <2>. QED
    BY <2>1, <2>2
<1>. QED
  BY <1>1, <1>2, <1>3 DEF TextInvs

(* The start of a test, or of the asynchronous method.                     *)
LEMMA StartText ==
  ASSUME Typed, CallsInv, TextInvs,
         \/ \E t \in DOMAIN Tests, w \in Threads : StartTest(t, w)
         \/ \E w \in Pool : StartJob(w)
  PROVE  TextInvs'
<1>1. ASSUME NEW t \in DOMAIN Tests, NEW w \in Threads, StartTest(t, w) PROVE TextInvs'
  <2>1. /\ w \in Workers /\ w \notin Pool /\ \A v \in Threads : stack[v] = <<>>
        /\ raised' = raised /\ jobs' = jobs
        /\ \A v \in Workers \ {w} :
              /\ stack'[v] = stack[v] /\ current'[v] = current[v]
              /\ current[v] # 0 => txs'[current[v]] = txs[current[v]]
    BY <1>1, StartIs
  <2>2. PICK f \in Frames : /\ Stacked(w, 0, f) /\ f.method = t /\ f.pc = 1
                            /\ f.step = "body" /\ ~f.owner
    BY <1>1, StartIs
  <2>3. TextInv(w)'
    <3>1. EndsRight(f) /\ ~HasTx(f)
      BY <2>2 DEF EndsRight, HasTx
    <3>2. test' = t
      BY <1>1 DEF StartTest
    <3>3. Unheard(w)' /\ 0 \in 0..Len(stack[w])
      BY <2>1, Flat DEF Unheard
    <3>. QED
      BY <2>1, <2>2, <3>1, <3>2, <3>3, TextKept DEF TextInvs
  <2>4. ASSUME NEW v \in Workers \ {w} PROVE TextInv(v)'
    BY <2>1, <2>4, OtherText DEF TextInvs
  <2>. QED
    BY <2>1, <2>3, <2>4 DEF TextInvs
<1>2. ASSUME NEW w \in Pool, StartJob(w) PROVE TextInvs'
  <2>. DEFINE J == {"beingCalled"} \X Nat
              f == Frame(Head(jobs)[1], w)
  <2>1. /\ w \in Workers /\ w \notin Threads /\ jobs # <<>> /\ jobs \in Seq(J)
        /\ stack[w] = <<>> /\ stack' = [stack EXCEPT ![w] = <<f>>] /\ jobs' = Tail(jobs)
        /\ UNCHANGED test /\ UNCHANGED current /\ UNCHANGED raised /\ UNCHANGED txs
    BY <1>2, CallsAssumption DEF StartJob, Workers, TextInvs, suite
  <2>2. Head(jobs) \in J /\ Tail(jobs) \in Seq(J)
    <3>. HIDE DEF J, f
    <3>. QED
      BY <2>1, HeadTailProperties
  <2>3. /\ f \in Frames /\ f.method = "beingCalled" /\ f.pc = 1 /\ f.step = "enter"
        /\ ~f.owner
    <3>1. Head(jobs)[1] = "beingCalled" /\ "beingCalled" \in DOMAIN Methods /\ current[w] \in Nat
      <4>. DEFINE K == (DOMAIN Methods) \X Nat
      <4>1. Head(jobs) \in K
        <5>1. jobs \in Seq(K)
          BY DEF Typed
        <5>. HIDE DEF K, J, f
        <5>. QED
          BY <2>1, <5>1, HeadTailProperties
      <4>. QED
        BY <2>1, <2>2, <4>1, Flat
    <3>. QED
      BY <3>1 DEF Frame, Frames, Steps
  <2>. HIDE DEF f, J
  <2>4. Stacked(w, 0, f) /\ \A v \in Workers \ {w} : stack'[v] = stack[v]
    <3>1. <<f>> \in Seq(Frames) /\ Len(<<f>>) = 1 /\ <<f>>[1] = f
      BY <2>3
    <3>. QED
      BY <2>1, <3>1 DEF Stacked, Typed
  <2>5. TextInv(w)'
    <3>1. EndsRight(f) /\ ~HasTx(f)
      BY <2>3 DEF EndsRight, HasTx
    <3>2. Unheard(w)' /\ 0 \in 0..Len(stack[w])
      BY <2>1, UnheardKept, Flat DEF TextInvs, TextInv
    <3>. QED
      BY <2>1, <2>3, <2>4, <3>1, <3>2, TextKept DEF TextInvs
  <2>6. ASSUME NEW v \in Workers \ {w} PROVE TextInv(v)'
    BY <2>1, <2>4, <2>6, OtherText DEF TextInvs
  <2>. QED
    BY <2>1, <2>2, <2>5, <2>6 DEF TextInvs, J
<1>. QED
  BY <1>1, <1>2

-----------------------------------------------------------------------------
(* What listeners hear                                                     *)

SameHeard(r, s) == Heard \subseteq DOMAIN s /\ \A k \in Heard : s[k] = r[k]

(* What the helpers of the results leave as it is, and what they set.      *)
LEMMA HeardBy ==
  ASSUME NEW r, Heard \subseteq DOMAIN r, NEW ls, NEW st, NEW w, NEW i
  PROVE  /\ SameHeard(r, BeginHeard(r, ls))
         /\ SameHeard(r, Recorded(r, w, i))
         /\ LET b == BeforeHeard(r, ls)
            IN /\ Heard \subseteq DOMAIN b /\ b.after = r.after
               /\ b.afterCompletion = r.afterCompletion /\ b.committed = r.committed
               /\ b.before = IF "listener" \in ls THEN "active" ELSE r.before
               /\ b.beforeCompletion = IF "session" \in ls THEN "active" ELSE r.beforeCompletion
         /\ LET a == AfterHeard(r, ls, st)
            IN /\ Heard \subseteq DOMAIN a /\ a.before = r.before
               /\ a.beforeCompletion = r.beforeCompletion
               /\ a.after = IF "listener" \in ls THEN st ELSE r.after
               /\ a.afterCompletion = IF "session" \in ls THEN st ELSE r.afterCompletion
               /\ a.committed = IF "session" \in ls THEN IF st = "committed" THEN "yes" ELSE "no"
                                ELSE r.committed
<1>1. SameHeard(r, BeginHeard(r, ls))
  BY DEF SameHeard, BeginHeard, Heard
<1>2. SameHeard(r, Recorded(r, w, i))
  BY DEF SameHeard, Recorded, Heard
<1>3. LET b == BeforeHeard(r, ls)
      IN /\ Heard \subseteq DOMAIN b /\ b.after = r.after
         /\ b.afterCompletion = r.afterCompletion /\ b.committed = r.committed
         /\ b.before = IF "listener" \in ls THEN "active" ELSE r.before
         /\ b.beforeCompletion = IF "session" \in ls THEN "active" ELSE r.beforeCompletion
  <2>. DEFINE p == IF "listener" \in ls THEN [r EXCEPT !.before = "active"] ELSE r
  <2>1. /\ Heard \subseteq DOMAIN p /\ p.before = IF "listener" \in ls THEN "active" ELSE r.before
        /\ p.after = r.after /\ p.afterCompletion = r.afterCompletion
        /\ p.committed = r.committed /\ p.beforeCompletion = r.beforeCompletion
    BY DEF Heard
  <2>2. BeforeHeard(r, ls) = IF "session" \in ls THEN [p EXCEPT !.beforeCompletion = "active"] ELSE p
    BY DEF BeforeHeard
  <2>. HIDE DEF p
  <2>. QED
    BY <2>1, <2>2 DEF Heard
<1>4. LET a == AfterHeard(r, ls, st)
      IN /\ Heard \subseteq DOMAIN a /\ a.before = r.before
         /\ a.beforeCompletion = r.beforeCompletion
         /\ a.after = IF "listener" \in ls THEN st ELSE r.after
         /\ a.afterCompletion = IF "session" \in ls THEN st ELSE r.afterCompletion
         /\ a.committed = IF "session" \in ls THEN IF st = "committed" THEN "yes" ELSE "no"
                          ELSE r.committed
  <2>. DEFINE p == IF "listener" \in ls THEN [r EXCEPT !.after = st] ELSE r
              q == [p EXCEPT !.afterCompletion = st]
              yes == IF st = "committed" THEN "yes" ELSE "no"
  <2>1. /\ Heard \subseteq DOMAIN p /\ p.after = IF "listener" \in ls THEN st ELSE r.after
        /\ p.before = r.before /\ p.beforeCompletion = r.beforeCompletion
        /\ p.afterCompletion = r.afterCompletion /\ p.committed = r.committed
    BY DEF Heard
  <2>2. AfterHeard(r, ls, st) = IF "session" \in ls THEN [q EXCEPT !.committed = yes] ELSE p
    BY DEF AfterHeard
  <2>. HIDE DEF p, yes
  <2>3. /\ Heard \subseteq DOMAIN q /\ q.after = p.after /\ q.before = p.before
        /\ q.beforeCompletion = p.beforeCompletion /\ q.afterCompletion = st
    BY <2>1 DEF Heard
  <2>. HIDE DEF q
  <2>4. CASE "session" \in ls
    <3>1. AfterHeard(r, ls, st) = [q EXCEPT !.committed = yes]
      BY <2>2, <2>4
    <3>. QED
      BY <2>1, <2>3, <2>4, <3>1 DEF Heard, yes
  <2>5. CASE "session" \notin ls
    BY <2>1, <2>2, <2>5
  <2>. QED
    BY <2>4, <2>5
<1>. QED
  BY <1>1, <1>2, <1>3, <1>4

(* A step outside a completion leaves what has been heard, and all but the *)
(* one that stores it the identifier.                                      *)
LEMMA QuietStep ==
  ASSUME Typed, Heard \subseteq DOMAIN results, NEW w \in Workers, Work(w) \/ EnterFails(w),
         Top(w).step \notin {"before", "complete", "after"}
  PROVE  SameHeard(results, results') /\ (~StoreId(w) => results'.id = results.id)
<1>1. "id" \in DOMAIN results
  BY DEF Typed
<1>2. UNCHANGED results => SameHeard(results, results') /\ results'.id = results.id
  BY DEF SameHeard
<1>3. ASSUME NEW i, NEW r, r = Recorded(results, w, i)
      PROVE  /\ SameHeard(results, r) /\ r.id = results.id
             /\ SameHeard(results, BeginHeard(r, Session(Top(w).method)))
             /\ BeginHeard(r, Session(Top(w).method)).id = results.id
  <2>1. SameHeard(results, r) /\ "id" \in DOMAIN r /\ r.id = results.id
    BY <1>1, <1>3, HeardBy, RecordedKept
  <2>. DEFINE b == BeginHeard(r, Session(Top(w).method))
  <2>2. SameHeard(r, b) /\ b.id = r.id
    <3>1. Heard \subseteq DOMAIN r
      BY <2>1 DEF SameHeard
    <3>2. \A ls : SameHeard(r, BeginHeard(r, ls))
      BY <3>1, HeardBy
    <3>3. \A ls : BeginHeard(r, ls).id = r.id
      BY <2>1, IdKept
    <3>. QED
      BY <3>2, <3>3
  <2>. HIDE DEF b
  <2>3. SameHeard(results, b)
    BY <2>1, <2>2 DEF SameHeard
  <2>. QED
    BY <2>1, <2>2, <2>3 DEF b
<1>4. CASE EnterNew(w) \/ EnterJoined(w)
  BY <1>3, <1>4 DEF EnterNew, EnterJoined
<1>5. CASE EnterWithout(w)
  BY <1>3, <1>5 DEF EnterWithout
<1>6. CASE StoreId(w)
  BY <1>6 DEF StoreId, SameHeard, Heard
<1>7. CASE LeaveOwner(w) \/ LeaveJoined(w)
  <2>1. results' = Exited(w)
    BY <1>7 DEF LeaveOwner, LeaveJoined
  <2>. QED
    BY <1>1, <2>1 DEF Exited, SameHeard, Heard
<1>8. CASE \/ EnterRefused(w) \/ EnterFails(w) \/ CallMethod(w) \/ PersistEntity(w)
           \/ ExecuteUpdate(w) \/ Register(w) \/ BeginTx(w) \/ CommitTx(w)
           \/ CallAsynchronously(w) \/ Sleep(w) \/ NoteTransaction(w) \/ Check(w)
           \/ LeaveCatch(w) \/ Return(w)
  <2>1. UNCHANGED results
    BY <1>8 DEF EnterRefused, EnterFails, CallMethod, PersistEntity, ExecuteUpdate, Register,
                BeginTx, CommitTx, CallAsynchronously, Sleep, NoteTransaction, Check,
                LeaveCatch, Return
  <2>. QED
    BY <1>2, <2>1
<1>9. CASE BeforeCompletion(w) \/ Complete(w) \/ AfterCompletion(w)
  BY <1>9 DEF BeforeCompletion, Complete, AfterCompletion
<1>. QED
  BY <1>4, <1>5, <1>6, <1>7, <1>8, <1>9 DEF Work, Enter

(* What a thread of the pool does is not heard, and changes nothing of the *)
(* test that runs.                                                         *)
LEMMA PoolQuiet ==
  ASSUME Typed, CallsInv, TextInvs, Heard \subseteq DOMAIN results,
         NEW w \in Pool, Work(w) \/ EnterFails(w)
  PROVE  UNCHANGED <<results, test, thread, outcome>>
<1>1. w \in Workers /\ w \notin Threads /\ TextInv(w)
  BY CallsAssumption DEF Workers, TextInvs
<1>2. UNCHANGED <<test, thread, outcome>>
  BY <1>1, OthersStay
<1>3. stack[w] # <<>>
  BY DEF Work, Enter, EnterFails, CallMethod, PersistEntity, StoreId, ExecuteUpdate, Register,
         BeginTx, CommitTx, CallAsynchronously, Sleep, NoteTransaction, Check, BeforeCompletion,
         Complete, AfterCompletion, LeaveOwner, LeaveJoined, LeaveCatch, Leaving, Return, AtOp,
         InBody
<1>4. /\ Top(w).method = "beingCalled" /\ Attribute(w) = "REQUIRED"
      /\ \A what : AtOp(w, what) => what = "sleep"
      /\ "beingCalled" \notin Logged /\ Session("beingCalled") = {}
  BY <1>1, <1>3, PoolFacts
<1>5. /\ EndsRight(Top(w)) /\ (HasTx(Top(w)) => current[w] # 0) /\ Unheard(w)
      /\ GoodMethod(Methods[Top(w).method], DOMAIN Methods) /\ Top(w).pc \in Nat \ {0}
  BY <1>1, <1>3, TopText DEF TextInv
<1>6. Top(w).step \in {"before", "complete", "after"} => txs[current[w]].listeners = {}
  <2>1. ASSUME Top(w).step \in {"before", "complete", "after"}, ~Top(w).owner PROVE FALSE
    <3>1. /\ \A i \in DOMAIN Methods["beingCalled"].body :
               Methods["beingCalled"].body[i][1] = "sleep"
          /\ Methods["beingCalled"].attribute = "REQUIRED"
      BY BeingCalled
    <3>. QED
      BY <1>4, <1>5, <2>1, <3>1 DEF EndsRight
  <2>2. Top(w).step \in {"before", "complete", "after"} => current[w] # 0
    BY <1>5, <2>1 DEF HasTx
  <2>. QED
    BY <1>5, <2>2 DEF Unheard
<1>7. UNCHANGED results
  <2>1. CASE Enter(w) \/ EnterFails(w)
    <3>1. /\ \A i : Recorded(results, w, i) = results
          /\ BeginHeard(results, Session(Top(w).method)) = results
      BY <1>4 DEF Recorded, BeginHeard
    <3>2. CASE EnterNew(w) \/ EnterJoined(w)
      <4>1. \E i : results' = BeginHeard(Recorded(results, w, i), Session(Top(w).method))
        BY <3>2 DEF EnterNew, EnterJoined
      <4>. QED
        BY <3>1, <4>1
    <3>3. CASE EnterWithout(w)
      BY <3>1, <3>3 DEF EnterWithout
    <3>4. CASE EnterRefused(w) \/ EnterFails(w)
      BY <3>4 DEF EnterRefused, EnterFails
    <3>. QED
      BY <2>1, <3>2, <3>3, <3>4 DEF Enter
  <2>2. CASE BeforeCompletion(w) \/ Complete(w) \/ AfterCompletion(w)
    <3>1. txs[current[w]].listeners = {}
      BY <1>6, <2>2 DEF BeforeCompletion, Complete, AfterCompletion
    <3>2. \/ UNCHANGED results \/ results' = BeforeHeard(results, txs[current[w]].listeners)
          \/ results' = AfterHeard(results, txs[current[w]].listeners,
                                   Announced(txs[current[w]].status))
      BY <2>2 DEF BeforeCompletion, Complete, AfterCompletion
    <3>3. BeforeHeard(results, txs[current[w]].listeners) = results
      BY <3>1 DEF BeforeHeard
    <3>4. \A s : AfterHeard(results, txs[current[w]].listeners, s) = results
      BY <3>1 DEF AfterHeard
    <3>. QED
      BY <3>2, <3>3, <3>4
  <2>3. CASE LeaveOwner(w) \/ LeaveJoined(w) \/ LeaveCatch(w) \/ Sleep(w) \/ Return(w)
    BY <1>4, <2>3 DEF LeaveOwner, LeaveJoined, LeaveCatch, Exited, Sleep, Return
  <2>4. CASE \/ CallMethod(w) \/ PersistEntity(w) \/ StoreId(w) \/ ExecuteUpdate(w)
             \/ Register(w) \/ BeginTx(w) \/ CommitTx(w) \/ CallAsynchronously(w)
             \/ NoteTransaction(w) \/ Check(w)
    BY <1>4, <2>4 DEF CallMethod, PersistEntity, StoreId, ExecuteUpdate, Register, BeginTx,
                      CommitTx, CallAsynchronously, NoteTransaction, Check
  <2>. QED
    BY <2>1, <2>2, <2>3, <2>4 DEF Work
<1>. QED
  BY <1>2, <1>7

(* What has been heard after a step of the thread of the test.             *)
LEMMA HeardByTest ==
  ASSUME Typed, TextInvs, HeardInv, NEW w \in Threads, w = thread, w \in Workers,
         stack[w] # <<>>, Work(w) \/ EnterFails(w)
  PROVE  HeardInv'
<1>1. /\ Heard \subseteq DOMAIN results
      /\ (results.committed = "yes") <=> (results.afterCompletion = "committed")
  BY DEF HeardInv
<1>2. CASE Top(w).step \notin {"before", "complete", "after"}
  <2>1. SameHeard(results, results')
    BY <1>1, <1>2, QuietStep
  <2>2. /\ Heard \subseteq DOMAIN results' /\ results'.committed = results.committed
        /\ results'.before = results.before /\ results'.after = results.after
        /\ results'.beforeCompletion = results.beforeCompletion
        /\ results'.afterCompletion = results.afterCompletion
    BY <2>1 DEF SameHeard, Heard
  <2>3. \A l : ~Completing(l)
    BY <1>2 DEF Completing
  <2>. QED
    BY <1>1, <2>2, <2>3 DEF HeardInv
<1>3. CASE Top(w).step \in {"before", "complete", "after"}
  <2>1. /\ Top(w).owner \in BOOLEAN /\ Top(w).pc \in Nat \ {0} /\ current[w] # 0
        /\ txs[current[w]] \in Txs /\ current[w] \in 1..Len(txs) /\ DOMAIN txs = 1..Len(txs)
    <3>1. /\ EndsRight(Top(w)) /\ (HasTx(Top(w)) => current[w] # 0)
          /\ Top(w).owner \in BOOLEAN /\ Top(w).pc \in Nat \ {0}
          /\ current[w] \in 0..Len(txs) /\ Len(txs) \in Nat
          /\ current[w] # 0 => txs[current[w]] \in Txs
          /\ GoodMethod(Methods[Top(w).method], DOMAIN Methods)
      BY TopText DEF TextInvs
    <3>2. HasTx(Top(w))
      BY <1>3, <3>1 DEF EndsRight, HasTx, GoodMethod
    <3>3. DOMAIN txs = 1..Len(txs)
      BY DEF Typed
    <3>. QED
      BY <3>1, <3>2, <3>3
  <2>2. /\ thread' = thread
        /\ \A s \in Steps : Step(w, s) => Put(w, Top(w).pc, s, Top(w).owner)
    BY <1>3, Puts DEF Work, EnterFails, Enter, CallMethod, PersistEntity, StoreId, ExecuteUpdate,
       Register, BeginTx, CommitTx, CallAsynchronously, Sleep, NoteTransaction, Check,
       BeforeCompletion, Complete, AfterCompletion, LeaveOwner, LeaveJoined, LeaveCatch, Leaving,
       Return, AtOp, InBody, scene, suite
  <2>. DEFINE ls == txs[current[w]].listeners
  <2>3. ASSUME NEW s \in {"complete", "after"}, Step(w, s), current' = current,
               UNCHANGED txs \/ \E x : SetTx(w, "status", x), NEW l
        PROVE  l \in ls => Completing(l)'
    <3>1. stack'[w] # <<>> /\ Top(w)'.step = s
      <4>1. Put(w, Top(w).pc, s, Top(w).owner)
        BY <2>2, <2>3 DEF Steps
      <4>. QED
        BY <4>1, PutTop
    <3>2. txs'[current[w]].listeners = ls
      <4>1. ASSUME NEW x, SetTx(w, "status", x) PROVE txs'[current[w]].listeners = ls
        BY <2>1, <4>1 DEF SetTx, Txs
      <4>. QED
        BY <2>3, <4>1
    <3>3. thread' = w /\ current'[w] = current[w] /\ w \in Threads
      BY <2>2, <2>3
    <3>. QED
      BY <3>1, <3>2, <3>3 DEF Completing
  <2>4. ~Work(w) => FALSE
    BY <1>3 DEF EnterFails
  <2>5. CASE BeforeCompletion(w)
    <3>1. CASE results' = BeforeHeard(results, ls) /\ Step(w, "complete") /\ UNCHANGED txs
      <4>1. current' = current
        BY <2>5 DEF BeforeCompletion
      <4>2. /\ Heard \subseteq DOMAIN results' /\ results'.after = results.after
            /\ results'.afterCompletion = results.afterCompletion
            /\ results'.committed = results.committed
            /\ results'.before = IF "listener" \in ls THEN "active" ELSE results.before
            /\ results'.beforeCompletion =
                 IF "session" \in ls THEN "active" ELSE results.beforeCompletion
        <5>. HIDE DEF ls
        <5>1. LET b == BeforeHeard(results, ls)
              IN /\ Heard \subseteq DOMAIN b /\ b.after = results.after
                 /\ b.afterCompletion = results.afterCompletion
                 /\ b.committed = results.committed
                 /\ b.before = IF "listener" \in ls THEN "active" ELSE results.before
                 /\ b.beforeCompletion =
                      IF "session" \in ls THEN "active" ELSE results.beforeCompletion
          BY <1>1, HeardBy
        <5>. QED
          BY <3>1, <5>1
      <4>3. \A l : l \in ls => Completing(l)'
        BY <2>3, <3>1, <4>1
      <4>4. \A l : ~Completing(l)
        BY <2>5 DEF BeforeCompletion, Completing
      <4>. QED
        BY <1>1, <4>2, <4>3, <4>4 DEF HeardInv
    <3>2. CASE RollbackTx(w) /\ UNCHANGED results
      <4>1. \A l : ~Completing(l)
        BY <2>5 DEF BeforeCompletion, Completing
      <4>. QED
        BY <1>1, <3>2, <4>1 DEF HeardInv
    <3>. QED
      BY <2>5, <3>1, <3>2 DEF BeforeCompletion
  <2>6. CASE Complete(w)
    <3>1. /\ Step(w, "after") /\ current' = current /\ UNCHANGED results
          /\ \E x : SetTx(w, "status", x)
      BY <2>6 DEF Complete
    <3>2. \A l : Completing(l) => Completing(l)'
      <4>1. \A l : Completing(l) => l \in ls
        BY DEF Completing
      <4>. QED
        BY <2>3, <3>1, <4>1
    <3>. QED
      BY <1>1, <3>1, <3>2 DEF HeardInv
  <2>7. CASE AfterCompletion(w)
    <3>. DEFINE st == Announced(txs[current[w]].status)
    <3>1. results' = AfterHeard(results, ls, st) /\ st # "none"
      BY <2>1, <2>7 DEF AfterCompletion, Announced, Txs, Statuses, Live, Ended
    <3>. HIDE DEF st
    <3>2. \A l : Completing(l) => l \in ls
      BY DEF Completing
    <3>. HIDE DEF ls
    <3>3. /\ Heard \subseteq DOMAIN results' /\ results'.before = results.before
          /\ results'.beforeCompletion = results.beforeCompletion
          /\ results'.after = IF "listener" \in ls THEN st ELSE results.after
          /\ results'.afterCompletion = IF "session" \in ls THEN st ELSE results.afterCompletion
          /\ results'.committed = IF "session" \in ls
                                    THEN IF st = "committed" THEN "yes" ELSE "no"
                                    ELSE results.committed
      BY <1>1, <3>1, HeardBy
    <3>. QED
      BY <1>1, <3>1, <3>2, <3>3 DEF HeardInv
  <2>. QED
    BY <1>3, <2>4, <2>5, <2>6, <2>7 DEF Work, Enter, CallMethod, PersistEntity, StoreId,
       ExecuteUpdate, Register, BeginTx, CommitTx, CallAsynchronously, Sleep, NoteTransaction,
       Check, LeaveOwner, LeaveJoined, LeaveCatch, Leaving, Return, AtOp, InBody
<1>. QED
  BY <1>2, <1>3

-----------------------------------------------------------------------------
(* The course of a test with a listener                                    *)

(* What the assertions of the tests of reports are.                        *)
LEMMA AssertedIs ==
  ASSUME NEW w
  PROVE  /\ test \in Listeners => (Asserted(w) <=> results.before # "none" /\ results.after # "none")
         /\ test \in {"testRethrow", "testCatch"} => Asserted(w)
         /\ test = "testNewTxn" /\ Told => (Asserted(w) <=> current[w] = 0)
<1>1. ASSUME test \in Listeners
      PROVE  Asserted(w) <=> results.before # "none" /\ results.after # "none"
  BY <1>1 DEF Asserted, Listeners, RequiredTests, JoinTests, ApartTests, NeverTests
<1>2. ASSUME test \in {"testRethrow", "testCatch"} PROVE Asserted(w)
  BY <1>2 DEF Asserted, Listeners, RequiredTests, JoinTests, ApartTests, NeverTests
<1>3. ASSUME test = "testNewTxn", Told PROVE Asserted(w) <=> current[w] = 0
  <2>1. InDatabase(results.id)
    BY <1>3 DEF Told, InDatabase
  <2>. QED
    BY <1>3, <2>1 DEF Asserted, Listeners, RequiredTests, JoinTests, ApartTests, NeverTests
<1>. QED
  BY <1>1, <1>2, <1>3

(* What the announcement of a completion sets.                             *)
LEMMA AnnouncedBy ==
  ASSUME NEW r, Heard \subseteq DOMAIN r, NEW ls
  PROVE  /\ BeforeHeard(r, ls).after = r.after
         /\ BeforeHeard(r, ls).before = IF "listener" \in ls THEN "active" ELSE r.before
<1>1. LET b == BeforeHeard(r, ls)
      IN /\ Heard \subseteq DOMAIN b /\ b.after = r.after
         /\ b.afterCompletion = r.afterCompletion /\ b.committed = r.committed
         /\ b.before = IF "listener" \in ls THEN "active" ELSE r.before
         /\ b.beforeCompletion = IF "session" \in ls THEN "active" ELSE r.beforeCompletion
  BY HeardBy
<1>. QED
  BY <1>1

(* The operation of each step in a body.                                   *)
LEMMA Ops ==
  ASSUME NEW w
  PROVE  /\ CallMethod(w) => AtOp(w, "call")
         /\ PersistEntity(w) => AtOp(w, "persist")
         /\ StoreId(w) => AtOp(w, "store")
         /\ ExecuteUpdate(w) => AtOp(w, "sql")
         /\ Register(w) => AtOp(w, "register")
         /\ BeginTx(w) => AtOp(w, "begin")
         /\ CommitTx(w) => AtOp(w, "commit")
         /\ CallAsynchronously(w) => AtOp(w, "async")
         /\ Sleep(w) => AtOp(w, "sleep")
         /\ NoteTransaction(w) => AtOp(w, "note")
         /\ Check(w) => AtOp(w, "check")
  BY DEF CallMethod, PersistEntity, StoreId, ExecuteUpdate, Register, BeginTx, CommitTx,
         CallAsynchronously, Sleep, NoteTransaction, Check

(* The frame of a test that makes one call and checks: it is in its body   *)
(* or it returns.                                                          *)
LEMMA TestText ==
  ASSUME Typed, NEW w \in Workers, TextInv(w), stack[w] # <<>>, Len(stack[w]) = 1,
         NEW names, CallsAndChecks(Methods[Top(w).method], names),
         Top(w).pc = 1 => Top(w).step = "body"
  PROVE  /\ Top(w).step \in {"body", "return"} /\ ~Top(w).owner /\ Len(Body(w)) = 2
         /\ Attribute(w) = "TEST"
         /\ \A what : AtOp(w, what) =>
              \/ what = "call" /\ Top(w).pc = 1
              \/ what = "check" /\ Top(w).pc = 2 /\ ~Body(w)[2][3]
         /\ Work(w) \/ EnterFails(w) =>
              CallMethod(w) \/ Check(w) \/ LeaveJoined(w) \/ Return(w)
<1>1. /\ EndsRight(Top(w)) /\ GoodMethod(Methods[Top(w).method], DOMAIN Methods)
      /\ Top(w).pc \in Nat \ {0} /\ Top(w) \in Frames /\ Top(w).owner \in BOOLEAN
  BY TopText
<1>2. /\ Attribute(w) = "TEST" /\ Len(Body(w)) = 2 /\ DOMAIN Body(w) = 1..2
      /\ Body(w)[1][1] = "call" /\ Body(w)[2][1] = "check" /\ ~Body(w)[2][3]
  BY <1>1 DEF CallsAndChecks, Attribute, Body, GoodMethod
<1>3. ~Top(w).owner
  BY <1>1, <1>2 DEF EndsRight, Ending, Attribute
<1>4. Top(w).step \notin {"before", "complete", "after", "enter"}
  <2>1. \A i \in DOMAIN Body(w) : Body(w)[i][1] # "commit"
    BY <1>2
  <2>2. Top(w).step # "enter"
    BY <1>1 DEF EndsRight
  <2>. QED
    BY <1>1, <1>2, <1>3, <2>1, <2>2 DEF EndsRight, Attribute, Body
<1>5. Top(w).step \in {"body", "return"}
  BY <1>1, <1>4 DEF Frames, Steps
<1>6. ASSUME NEW what, AtOp(w, what)
      PROVE  \/ what = "call" /\ Top(w).pc = 1
             \/ what = "check" /\ Top(w).pc = 2 /\ ~Body(w)[2][3]
  <2>1. Top(w).pc \in 1..2 /\ Body(w)[Top(w).pc][1] = what
    BY <1>2, <1>6, OpText
  <2>2. Top(w).pc = 1 \/ Top(w).pc = 2
    BY <2>1
  <2>. QED
    BY <1>2, <2>1, <2>2
<1>7. Work(w) \/ EnterFails(w) => CallMethod(w) \/ Check(w) \/ LeaveJoined(w) \/ Return(w)
  <2>1. ~Enter(w) /\ ~EnterFails(w)
    BY <1>5 DEF Enter, EnterFails
  <2>2. /\ ~PersistEntity(w) /\ ~StoreId(w) /\ ~ExecuteUpdate(w) /\ ~Register(w) /\ ~BeginTx(w)
        /\ ~CommitTx(w) /\ ~CallAsynchronously(w) /\ ~Sleep(w) /\ ~NoteTransaction(w)
    <3>1. \A what \in {"persist", "store", "sql", "register", "begin", "commit", "async", "sleep",
                        "note"} : ~AtOp(w, what)
      BY <1>6
    <3>. QED
      BY <3>1, Ops
  <2>3. ~BeforeCompletion(w) /\ ~Complete(w) /\ ~AfterCompletion(w)
    BY <1>5 DEF BeforeCompletion, Complete, AfterCompletion
  <2>4. ~LeaveOwner(w) /\ ~LeaveCatch(w)
    BY <1>2, <1>3 DEF LeaveOwner, LeaveCatch
  <2>. QED
    BY <2>1, <2>2, <2>3, <2>4 DEF Work
<1>. QED
  BY <1>2, <1>3, <1>5, <1>6, <1>7

(* The steps of the test itself.                                           *)
LEMMA ListenerTest ==
  ASSUME Typed, TextInvs, HeardInv, NEW w \in Threads, w \in Workers, test \in Listeners,
         thread = w, stack[w] # <<>>, ListenerInv(w), Work(w) \/ EnterFails(w), Len(stack[w]) = 1
  PROVE  \/ thread' = "none" /\ HeardCommit(outcome)'
         \/ thread' = w /\ stack'[w] # <<>> /\ ListenerInv(w)'
<1>1. TextInv(w) /\ Heard \subseteq DOMAIN results
  BY DEF TextInvs, HeardInv
<1>2. Bottom(w, stack[w][1]) /\ Top(w) = stack[w][Len(stack[w])] /\ Top(w).method = test
      /\ Top(w).pc \in Nat \ {0} /\ raised \in [Workers -> Exceptions]
  BY <1>1, TopText, TopFacts DEF Bottom, Typed
<1>3. CallsAndChecks(Methods[Top(w).method], Synchronizers)
  BY <1>2, BodiesOf
<1>4. /\ HeardCommit(raised[w])
      /\ results.after = "committed" => Top(w).step = "return" \/ Top(w).pc > 1
      /\ Top(w).pc = 1 => Top(w).step = "body" /\ raised[w] = "none"
  BY DEF ListenerInv
<1>5. /\ Top(w).step \in {"body", "return"} /\ ~Top(w).owner /\ Len(Body(w)) = 2
      /\ Attribute(w) = "TEST"
      /\ \A what : AtOp(w, what) =>
           \/ what = "call" /\ Top(w).pc = 1
           \/ what = "check" /\ Top(w).pc = 2 /\ ~Body(w)[2][3]
      /\ CallMethod(w) \/ Check(w) \/ LeaveJoined(w) \/ Return(w)
  BY <1>1, <1>3, <1>4, TestText
<1>6. SameHeard(results, results')
  BY <1>1, <1>5, QuietStep
<1>7. results'.before = results.before /\ results'.after = results.after
  BY <1>6 DEF SameHeard, Heard
<1>8. CASE CallMethod(w)
  <2>1. PICK f \in Frames :
           /\ Stacked(w, 1, f) /\ f.method = Argument(w) /\ f.pc = 1
           /\ f.step = "enter" /\ ~f.owner /\ f.outer = current[w]
    BY <1>8, CallIs
  <2>2. Top(w).pc = 1 /\ thread' = thread /\ raised' = raised
    BY <1>5, <1>8 DEF CallMethod, scene, suite
  <2>3. stack'[w] # <<>> /\ Len(stack'[w]) = 2 /\ Top(w)' = f
    <3>1. 1 \in Nat /\ 1 + 1 = 2
      OBVIOUS
    <3>2. stack'[w] # <<>> /\ Len(stack'[w]) = 1 + 1 /\ Top(w)' = f
      <4>. DEFINE k == 1
      <4>1. Stacked(w, k, f) /\ k \in Nat
        BY <2>1
      <4>. HIDE DEF k
      <4>2. stack'[w] # <<>> /\ Len(stack'[w]) = k + 1 /\ Top(w)' = f
        BY <4>1, StackedTop
      <4>. QED
        BY <4>2 DEF k
    <3>. QED
      BY <3>1, <3>2
  <2>4. results.after # "committed" /\ raised[w] = "none"
    BY <1>4, <2>2
  <2>5. ListenerInv(w)'
    BY <1>7, <2>1, <2>2, <2>3, <2>4 DEF ListenerInv, HeardCommit
  <2>. QED
    BY <2>2, <2>3, <2>5
<1>9. CASE Check(w)
  <2>1. AtOp(w, "check") /\ thread' = thread /\ Top(w).pc = 2 /\ ~Body(w)[2][3]
        /\ IF Asserted(w) THEN Advance(w) /\ UNCHANGED raised ELSE Thrown(w, "Assertion")
    BY <1>5, <1>9 DEF Check, scene, suite
  <2>2. Put(w, 3, "body", Top(w).owner)
    <3>1. 2 + 1 = 3 /\ Len(Body(w)) + 1 = 3 /\ ~Body(w)[Top(w).pc][3]
      BY <1>5, <2>1
    <3>2. CASE Asserted(w)
      <4>1. Put(w, Top(w).pc + 1, "body", Top(w).owner)
        BY <2>1, <3>2, Puts
      <4>. QED
        BY <2>1, <3>1, <4>1
    <3>3. CASE ~Asserted(w)
      <4>1. Put(w, Len(Body(w)) + 1, "body", Top(w).owner)
        BY <2>1, <3>1, <3>3, Puts
      <4>. QED
        BY <3>1, <4>1
    <3>. QED
      BY <3>2, <3>3
  <2>3. stack'[w] # <<>> /\ Len(stack'[w]) = 1 /\ Top(w)'.pc = 3 /\ Top(w)'.step = "body"
    BY <2>2, PutTop
  <2>4. results.after = "committed" => raised'[w] = "none" /\ results.before # "none"
    <3>1. CASE Asserted(w)
      BY <1>4, <2>1, <3>1 DEF HeardCommit
    <3>2. CASE ~Asserted(w)
      <4>1. results.after # "committed"
        BY <1>4, <3>2, AssertedIs DEF HeardCommit
      <4>. QED
        BY <4>1
    <3>. QED
      BY <3>1, <3>2
  <2>5. ListenerInv(w)'
    BY <1>7, <2>3, <2>4 DEF ListenerInv, HeardCommit
  <2>. QED
    BY <2>1, <2>3, <2>5
<1>10. CASE LeaveJoined(w)
  <2>1. Step(w, "return") /\ thread' = thread /\ raised' = raised /\ Top(w).pc > 2
    BY <1>5, <1>10 DEF LeaveJoined, scene, suite, Leaving, Finished
  <2>2. Put(w, Top(w).pc, "return", Top(w).owner)
    BY <2>1, Puts DEF Steps
  <2>3. /\ stack'[w] # <<>> /\ Len(stack'[w]) = 1 /\ Top(w)'.pc = Top(w).pc
        /\ Top(w)'.step = "return"
    BY <2>2, PutTop
  <2>4. ListenerInv(w)'
    BY <1>2, <1>4, <1>7, <2>1, <2>3 DEF ListenerInv, HeardCommit
  <2>. QED
    BY <2>1, <2>3, <2>4
<1>11. CASE Return(w)
  <2>1. Leaves(w)
    BY <1>11, ReturnIs DEF Resumes
  <2>2. thread' = "none" /\ outcome' = raised[w]
    BY <2>1 DEF Leaves
  <2>. QED
    BY <1>4, <1>7, <2>2 DEF HeardCommit
<1>. QED
  BY <1>5, <1>8, <1>9, <1>10, <1>11

(* The frame of the bean that registers the listener.                      *)
LEMMA SynchronizerText ==
  ASSUME Typed, NEW w \in Threads, w \in Workers, TextInv(w), stack[w] # <<>>,
         test \in Listeners, Len(stack[w]) # 1
  PROVE  /\ Len(stack[w]) = 2 /\ Attribute(w) = "REQUIRED" /\ Len(Body(w)) = 1
         /\ \A what : AtOp(w, what) =>
              what = "register" /\ Top(w).pc = 1 /\ Argument(w) = "listener"
         /\ Top(w).step \in {"before", "complete", "after"} => Top(w).pc > 1
         /\ stack[w][1].pc = 1 /\ Len(Methods[stack[w][1].method].body) = 2
         /\ Work(w) \/ EnterFails(w) =>
              \/ Top(w).step = "enter" /\ (EnterNew(w) \/ EnterJoined(w) \/ EnterFails(w))
              \/ Register(w) \/ LeaveOwner(w) \/ LeaveJoined(w) \/ Return(w)
              \/ BeforeCompletion(w) \/ Complete(w) \/ AfterCompletion(w)
<1>. DEFINE L == Len(stack[w])
            c == stack[w][1]
            m == stack[w][2].method
<1>1. /\ EndsRight(Top(w)) /\ GoodMethod(Methods[Top(w).method], DOMAIN Methods)
      /\ Top(w).pc \in Nat \ {0} /\ L \in Nat \ {0} /\ Top(w) = stack[w][L]
      /\ \A i \in 1..L - 1 : Calling(stack[w][i], stack[w][i + 1].method)
      /\ Bottom(w, c)
  BY TopText, TopFacts DEF Typed
<1>2. L >= 2 /\ 1 \in 1..L - 1 /\ (L # 2 => 2 \in 1..L - 1)
  <2>1. L \in Nat \ {0} /\ L # 1
    BY <1>1
  <2>. HIDE DEF L
  <2>. QED
    BY <2>1
<1>3. Calling(c, m) /\ c.method = test
  <2>1. Calling(stack[w][1], stack[w][1 + 1].method)
    BY <1>1, <1>2
  <2>. QED
    BY <1>1, <2>1 DEF Bottom
<1>4. c.pc = 1 /\ m \in Synchronizers /\ Len(Methods[c.method].body) = 2
  <2>1. CallsAndChecks(Methods[test], Synchronizers)
    BY BodiesOf
  <2>2. GoodMethod(Methods[test], DOMAIN Methods)
    <3>1. c \in Frames
      BY <1>2, Flat
    <3>. QED
      BY <1>3, <3>1, MethodFacts DEF Frames
  <2>3. c.pc \in 1..2
    BY <1>3, <2>1, <2>2 DEF Calling, CallsAndChecks, GoodMethod
  <2>4. c.pc = 1 \/ c.pc = 2
    BY <2>3
  <2>. QED
    BY <1>3, <2>1, <2>4 DEF Calling, CallsAndChecks
<1>5. /\ Methods[m].attribute = "REQUIRED" /\ Len(Methods[m].body) = 1
      /\ Methods[m].body[1][1] = "register" /\ Methods[m].body[1][2] = "listener"
  BY <1>4, BodiesOf
<1>6. DOMAIN Methods[m].body = 1..1
  <2>1. stack[w][2] \in Frames
    BY <1>2, Flat
  <2>2. GoodMethod(Methods[m], DOMAIN Methods)
    BY <2>1, MethodFacts DEF Frames
  <2>. QED
    BY <1>5, <2>2 DEF GoodMethod
<1>7. \A o : ~Calling(stack[w][2], o)
  BY <1>5, <1>6 DEF Calling
<1>8. L = 2
  <2>1. L # 2 => Calling(stack[w][2], stack[w][2 + 1].method)
    BY <1>1, <1>2
  <2>. QED
    BY <1>7, <2>1
<1>9. Top(w).method = m
  BY <1>1, <1>8
<1>10. Attribute(w) = "REQUIRED" /\ Len(Body(w)) = 1 /\ DOMAIN Body(w) = 1..1
       /\ Body(w)[1][1] = "register" /\ Body(w)[1][2] = "listener"
  BY <1>5, <1>6, <1>9 DEF Attribute, Body
<1>11. ASSUME NEW what, AtOp(w, what)
       PROVE  what = "register" /\ Top(w).pc = 1 /\ Argument(w) = "listener"
  <2>1. Top(w).pc \in 1..1 /\ Body(w)[Top(w).pc][1] = what
    BY <1>10, <1>11, OpText
  <2>2. Top(w).pc = 1
    BY <2>1
  <2>. QED
    BY <1>10, <2>1, <2>2 DEF Argument
<1>12. Top(w).step \in {"before", "complete", "after"} => Top(w).pc > 1
  BY <1>1, <1>10 DEF EndsRight, Attribute, Body
<1>13. Work(w) \/ EnterFails(w) =>
         \/ Top(w).step = "enter" /\ (EnterNew(w) \/ EnterJoined(w) \/ EnterFails(w))
         \/ Register(w) \/ LeaveOwner(w) \/ LeaveJoined(w) \/ Return(w)
         \/ BeforeCompletion(w) \/ Complete(w) \/ AfterCompletion(w)
  <2>1. ~EnterWithout(w) /\ ~EnterRefused(w) /\ ~LeaveCatch(w)
    BY <1>10 DEF EnterWithout, EnterRefused, LeaveCatch
  <2>2. /\ ~CallMethod(w) /\ ~PersistEntity(w) /\ ~StoreId(w) /\ ~ExecuteUpdate(w)
        /\ ~BeginTx(w) /\ ~CommitTx(w) /\ ~CallAsynchronously(w) /\ ~Sleep(w)
        /\ ~NoteTransaction(w) /\ ~Check(w)
    <3>1. \A what \in {"call", "persist", "store", "sql", "begin", "commit", "async", "sleep",
                        "note", "check"} : ~AtOp(w, what)
      BY <1>11
    <3>. QED
      BY <3>1, Ops
  <2>. QED
    BY <2>1, <2>2 DEF Work, Enter, EnterFails
<1>. QED
  BY <1>4, <1>8, <1>10, <1>11, <1>12, <1>13

(* The steps of the bean that registers the listener.                      *)
LEMMA SynchronizerRun ==
  ASSUME Typed, TextInvs, HeardInv, NEW w \in Threads, w \in Workers, test \in Listeners,
         thread = w, stack[w] # <<>>, ListenerInv(w), Work(w) \/ EnterFails(w), Len(stack[w]) # 1
  PROVE  thread' = w /\ stack'[w] # <<>> /\ ListenerInv(w)'
<1>. DEFINE T == Top(w)
            i == current[w]
            ls == txs[i].listeners
<1>1. TextInv(w) /\ Heard \subseteq DOMAIN results
  BY DEF TextInvs, HeardInv
<1>2. /\ EndsRight(T) /\ (HasTx(T) => i # 0) /\ T.pc \in Nat \ {0} /\ T.owner \in BOOLEAN
      /\ T \in Frames /\ Len(txs) \in Nat /\ i \in 0..Len(txs) /\ (i # 0 => txs[i] \in Txs)
      /\ raised \in [Workers -> Exceptions] /\ current \in [Workers -> 0..Len(txs)]
      /\ txs \in Seq(Txs) /\ DOMAIN txs = 1..Len(txs)
  BY <1>1, TopText DEF Typed
<1>3. /\ Len(stack[w]) = 2 /\ Attribute(w) = "REQUIRED" /\ Len(Body(w)) = 1
      /\ \A what : AtOp(w, what) =>
           what = "register" /\ T.pc = 1 /\ Argument(w) = "listener"
      /\ T.step \in {"before", "complete", "after"} => T.pc > 1
      /\ stack[w][1].pc = 1 /\ Len(Methods[stack[w][1].method].body) = 2
      /\ \/ T.step = "enter" /\ (EnterNew(w) \/ EnterJoined(w) \/ EnterFails(w))
         \/ Register(w) \/ LeaveOwner(w) \/ LeaveJoined(w) \/ Return(w)
         \/ BeforeCompletion(w) \/ Complete(w) \/ AfterCompletion(w)
  BY <1>1, SynchronizerText
<1>4. /\ HeardCommit(raised[w])
      /\ results.after = "committed" => T.step = "return"
      /\ T.step \in {"body", "before", "complete", "after"} => i # 0
      /\ (T.step = "body" /\ T.pc > 1) \/ T.step = "before" => "listener" \in ls
      /\ T.step = "complete" => results.before # "none"
      /\ T.step \in {"enter", "body", "before", "complete"} => raised[w] = "none"
      /\ T.step = "after" /\ txs[i].status = "committed" =>
           results.before # "none" /\ raised[w] = "none"
  BY <1>3 DEF ListenerInv
<1>5. T.step \notin {"before", "complete", "after"} =>
        results'.before = results.before /\ results'.after = results.after
  <2>. SUFFICES ASSUME T.step \notin {"before", "complete", "after"}
                PROVE  results'.before = results.before /\ results'.after = results.after
    OBVIOUS
  <2>1. SameHeard(results, results')
    BY <1>1, QuietStep
  <2>. QED
    BY <2>1 DEF SameHeard, Heard
<1>6. ASSUME NEW p, NEW s, NEW o, Put(w, p, s, o), thread' = thread,
             results'.after = "committed" =>
               s = "return" /\ raised'[w] = "none" /\ results'.before # "none",
             s \in {"body", "before", "complete", "after"} => current'[w] # 0,
             (s = "body" /\ p > 1) \/ s = "before" => "listener" \in txs'[current'[w]].listeners,
             s = "complete" => results'.before # "none",
             s \in {"enter", "body", "before", "complete"} => raised'[w] = "none",
             s = "after" /\ txs'[current'[w]].status = "committed" =>
               results'.before # "none" /\ raised'[w] = "none"
      PROVE  thread' = w /\ stack'[w] # <<>> /\ ListenerInv(w)'
  <2>1. stack'[w] # <<>> /\ Len(stack'[w]) = 2 /\ Top(w)'.pc = p /\ Top(w)'.step = s
    BY <1>3, <1>6, PutTop
  <2>. QED
    BY <1>6, <2>1 DEF ListenerInv, HeardCommit
<1>7. ASSUME NEW s \in Steps, Step(w, s) PROVE Put(w, T.pc, s, T.owner)
  BY <1>7, Puts
<1>. HIDE DEF T, i, ls
<1>8. CASE T.step = "enter" /\ (EnterNew(w) \/ EnterJoined(w) \/ EnterFails(w))
  <2>1. T.step = "enter" /\ T.pc = 1 /\ thread' = thread
    BY <1>2, <1>8 DEF EnterNew, EnterJoined, EnterFails, Runs, scene, suite, EndsRight
  <2>2. results'.after # "committed" /\ raised[w] = "none"
    BY <1>4, <1>5, <2>1
  <2>3. CASE EnterNew(w) \/ EnterJoined(w)
    <3>1. PICK o \in BOOLEAN : Put(w, 1, "body", o)
      <4>1. stack[w] # <<>> /\ \E o \in BOOLEAN : Entered(w, o)
        BY <2>3 DEF EnterNew, EnterJoined
      <4>. QED
        BY <2>1, <4>1, Puts DEF T
    <3>2. current'[w] # 0 /\ raised' = raised
      <4>1. \E j \in {Len(txs) + 1, current[w]} : Runs(w, j) /\ j # 0
        <5>1. Len(txs) + 1 # 0
          BY <1>2
        <5>. QED
          BY <2>3, <5>1 DEF EnterNew, EnterJoined
      <4>. QED
        BY <1>2, <4>1 DEF Runs
    <3>. QED
      BY <1>6, <2>1, <2>2, <3>1, <3>2
  <2>4. CASE EnterFails(w)
    <3>1. Step(w, "return")
      BY <2>4 DEF EnterFails
    <3>2. Put(w, 1, "return", T.owner)
      BY <1>7, <2>1, <3>1 DEF Steps
    <3>. QED
      BY <1>6, <2>1, <2>2, <3>2
  <2>. QED
    BY <1>8, <2>3, <2>4
<1>9. CASE Register(w)
  <2>1. AtOp(w, "register") /\ Advance(w) /\ SetTx(w, "listeners", ls \union {Argument(w)})
        /\ thread' = thread /\ raised' = raised /\ current' = current
    BY <1>9 DEF Register, scene, suite, ls, i
  <2>2. T.step = "body" /\ T.pc = 1 /\ Argument(w) = "listener"
    BY <1>3, <2>1 DEF AtOp, InBody, T
  <2>3. Put(w, 2, "body", T.owner)
    <3>1. Put(w, T.pc + 1, "body", T.owner)
      BY <2>1, Puts DEF T
    <3>2. T.pc + 1 = 2
      BY <2>2
    <3>. QED
      BY <3>1, <3>2
  <2>4. "listener" \in txs'[i].listeners
    BY <1>2, <1>4, <2>1, <2>2 DEF SetTx, Txs, i
  <2>. QED
    BY <1>4, <1>5, <1>6, <2>1, <2>2, <2>3, <2>4 DEF i
<1>10. CASE LeaveOwner(w) \/ LeaveJoined(w)
  <2>1. /\ T.step = "body" /\ T.pc > 1 /\ thread' = thread /\ raised' = raised
        /\ current' = current
    <3>1. Leaving(w) /\ thread' = thread /\ raised' = raised /\ current' = current
      BY <1>10 DEF LeaveOwner, LeaveJoined, scene, suite
    <3>. QED
      BY <1>3, <3>1 DEF Leaving, InBody, Finished, T
  <2>2. results'.after # "committed" /\ raised[w] = "none" /\ i # 0 /\ "listener" \in ls
    BY <1>4, <1>5, <2>1
  <2>3. \/ Step(w, "return")
        \/ Step(w, "before") /\ UNCHANGED txs
        \/ Step(w, "after") /\ SetTx(w, "status", "rolledback")
    BY <1>10 DEF LeaveOwner, LeaveJoined, RollbackTx
  <2>4. CASE Step(w, "return")
    BY <1>6, <1>7, <2>1, <2>2, <2>4 DEF Steps
  <2>5. CASE Step(w, "before") /\ UNCHANGED txs
    <3>1. Put(w, T.pc, "before", T.owner)
      BY <1>7, <2>5 DEF Steps
    <3>. QED
      BY <1>6, <2>1, <2>2, <2>5, <3>1 DEF i, ls
  <2>6. CASE Step(w, "after") /\ SetTx(w, "status", "rolledback")
    <3>1. Put(w, T.pc, "after", T.owner)
      BY <1>7, <2>6 DEF Steps
    <3>2. txs'[i].status = "rolledback"
      BY <1>2, <2>2, <2>6 DEF SetTx, Txs, i
    <3>. QED
      BY <1>6, <2>1, <2>2, <3>1, <3>2 DEF i
  <2>. QED
    BY <2>3, <2>4, <2>5, <2>6
<1>11. CASE BeforeCompletion(w)
  <2>1. /\ T.step = "before" /\ thread' = thread /\ current' = current
        /\ \/ /\ results' = BeforeHeard(results, ls) /\ Step(w, "complete")
              /\ raised' = raised
           \/ /\ UNCHANGED results /\ Step(w, "after") /\ SetTx(w, "status", "rolledback")
              /\ raised' = [raised EXCEPT ![w] = "Rollback"]
    BY <1>11 DEF BeforeCompletion, RollbackTx, scene, suite, T, i, ls
  <2>2. results.after # "committed" /\ raised[w] = "none" /\ i # 0 /\ "listener" \in ls
    BY <1>4, <2>1
  <2>3. CASE results' = BeforeHeard(results, ls) /\ Step(w, "complete") /\ raised' = raised
    <3>1. Put(w, T.pc, "complete", T.owner)
      BY <1>7, <2>3 DEF Steps
    <3>2. /\ results'.after = results.after
          /\ results'.before = IF "listener" \in ls THEN "active" ELSE results.before
      BY <1>1, <2>3, AnnouncedBy
    <3>3. results'.after # "committed" /\ results'.before # "none"
      BY <2>2, <2>3, <3>2
    <3>. QED
      BY <1>6, <2>1, <2>2, <2>3, <3>1, <3>3 DEF i
  <2>4. CASE UNCHANGED results /\ Step(w, "after") /\ SetTx(w, "status", "rolledback")
    <3>1. Put(w, T.pc, "after", T.owner)
      BY <1>7, <2>4 DEF Steps
    <3>2. txs'[i].status = "rolledback"
      BY <1>2, <2>2, <2>4 DEF SetTx, Txs, i
    <3>. QED
      BY <1>6, <2>1, <2>2, <2>4, <3>1, <3>2 DEF i
  <2>. QED
    BY <2>1, <2>3, <2>4
<1>12. CASE Complete(w)
  <2>1. /\ T.step = "complete" /\ thread' = thread /\ current' = current
        /\ UNCHANGED results /\ Step(w, "after")
        /\ \/ SetTx(w, "status", "committed") /\ raised' = raised
           \/ SetTx(w, "status", "rolledback") \/ SetTx(w, "status", "kept")
    BY <1>12 DEF Complete, scene, suite, T
  <2>2. results'.after # "committed" /\ raised[w] = "none" /\ i # 0 /\ results'.before # "none"
    BY <1>4, <2>1
  <2>3. Put(w, T.pc, "after", T.owner)
    BY <1>7, <2>1 DEF Steps
  <2>4. txs'[i].status \in {"rolledback", "kept"} \/ raised' = raised
    BY <1>2, <2>1, <2>2 DEF SetTx, Txs, i
  <2>. QED
    BY <1>6, <2>1, <2>2, <2>3, <2>4 DEF i
<1>13. CASE AfterCompletion(w)
  <2>. DEFINE st == Announced(txs[i].status)
              p == IF raised[w] = "none" THEN T.pc + 1 ELSE Len(Body(w)) + 1
  <2>1. /\ T.step = "after" /\ thread' = thread /\ raised' = raised
        /\ results' = AfterHeard(results, ls, st)
    BY <1>13 DEF AfterCompletion, scene, suite, T, i, ls
  <2>2. stack' = ReplaceTop(w, [T EXCEPT !.step = "return", !.pc = p])
    <3>1. Finished(w)
      BY <1>2, <1>3, <2>1 DEF Finished, T
    <3>2. stack' = ReplaceTop(w, [T EXCEPT !.step = "return",
                     !.pc = IF raised[w] = "none" THEN @ + 1 ELSE Len(Body(w)) + 1])
      BY <1>13, <3>1 DEF AfterCompletion, T
    <3>. QED
      BY <1>2, <3>2
  <2>3. Put(w, p, "return", T.owner)
    <3>1. p \in Nat \ {0}
      BY <1>2, <1>3
    <3>. HIDE DEF p
    <3>. QED
      BY <2>2, <3>1, Puts DEF T, Steps
  <2>. HIDE DEF st, p
  <2>4. LET a == AfterHeard(results, ls, st)
        IN a.before = results.before
           /\ a.after = IF "listener" \in ls THEN st ELSE results.after
    BY <1>1, HeardBy
  <2>5. results'.after = "committed" => st = "committed" /\ results'.before = results.before
    BY <1>4, <2>1, <2>4
  <2>6. results'.after = "committed" => raised'[w] = "none" /\ results'.before # "none"
    BY <1>4, <2>1, <2>5 DEF st, Announced
  <2>. QED
    BY <1>6, <2>1, <2>3, <2>6
<1>14. CASE Return(w)
  <2>1. PICK f \in Frames : Resumes(w, f)
    BY <1>3, <1>14, ReturnIs DEF Leaves
  <2>2. T.step = "return"
    BY <1>14, ReturnIs DEF T
  <2>3. /\ thread' = thread /\ Stacked(w, 0, f) /\ f.pc > 1
        /\ raised[w] = "none" => raised'[w] = "none"
    <3>1. Len(stack[w]) - 1 = 1 /\ Len(stack[w]) - 2 = 0
      BY <1>3
    <3>. QED
      BY <1>3, <2>1, <3>1 DEF Resumes
  <2>4. stack'[w] # <<>> /\ Len(stack'[w]) = 1 /\ Top(w)' = f
    <3>. DEFINE k == 0
    <3>1. Stacked(w, k, f) /\ k \in Nat
      BY <2>3
    <3>. HIDE DEF k
    <3>2. stack'[w] # <<>> /\ Len(stack'[w]) = k + 1 /\ Top(w)' = f
      BY <3>1, StackedTop
    <3>. QED
      BY <3>2 DEF k
  <2>5. results.after = "committed" => raised[w] = "none" /\ results.before # "none"
    BY <1>4 DEF HeardCommit
  <2>6. results'.after = results.after /\ results'.before = results.before
    BY <1>5, <2>2
  <2>. QED
    BY <2>3, <2>4, <2>5, <2>6 DEF ListenerInv, HeardCommit
<1>. QED
  BY <1>3, <1>8, <1>9, <1>10, <1>11, <1>12, <1>13, <1>14

-----------------------------------------------------------------------------
(* The course of a test with an entity                                     *)

(* Only the operation that stores the identifier changes it.               *)
LEMMA IdentifierKept ==
  ASSUME Typed, HeardInv, NEW w \in Workers, Work(w) \/ EnterFails(w), ~StoreId(w)
  PROVE  results'.id = results.id
<1>1. Heard \subseteq DOMAIN results /\ "id" \in DOMAIN results
  BY DEF HeardInv, Typed
<1>2. CASE Top(w).step \notin {"before", "complete", "after"}
  BY <1>1, <1>2, QuietStep
<1>3. CASE Top(w).step \in {"before", "complete", "after"}
  <2>1. BeforeCompletion(w) \/ Complete(w) \/ AfterCompletion(w)
    <3>1. ~Enter(w) /\ ~EnterFails(w) /\ ~LeaveOwner(w) /\ ~LeaveJoined(w) /\ ~LeaveCatch(w)
          /\ ~Return(w)
      BY <1>3 DEF Enter, EnterFails, LeaveOwner, LeaveJoined, LeaveCatch, Leaving, InBody, Return
    <3>2. \A what : ~AtOp(w, what)
      BY <1>3 DEF AtOp, InBody
    <3>. QED
      BY <3>1, <3>2, Ops DEF Work
  <2>2. \/ UNCHANGED results \/ results' = BeforeHeard(results, txs[current[w]].listeners)
        \/ results' = AfterHeard(results, txs[current[w]].listeners,
                                 Announced(txs[current[w]].status))
    BY <2>1 DEF BeforeCompletion, Complete, AfterCompletion
  <2>. QED
    BY <1>1, <2>2, IdKept
<1>. QED
  BY <1>2, <1>3

(* A test that a fault has hit stays disturbed.                            *)
LEMMA DisturbedStays ==
  ASSUME NEW w \in Workers, Work(w) \/ EnterFails(w) \/ StartJob(w)
  PROVE  disturbed => disturbed'
<1>1. UNCHANGED calm \/ Fault(w)
  BY DEF Work, EnterFails, StartJob, Enter, EnterNew, EnterJoined, EnterWithout, EnterRefused, Runs,
     CallMethod, PersistEntity, StoreId, ExecuteUpdate, Register, BeginTx, CommitTx,
     CallAsynchronously, Sleep, NoteTransaction, Check, BeforeCompletion, Complete,
     AfterCompletion, LeaveOwner, LeaveJoined, LeaveCatch, Return
<1>. QED
  BY <1>1 DEF Fault, calm

(* The steps of the test itself.                                           *)
LEMMA EntityTest ==
  ASSUME Typed, TextInvs, HeardInv, NEW w \in Threads, w \in Workers, test \in Entities,
         thread = w, stack[w] # <<>>, EntityInv(w), Work(w) \/ EnterFails(w), Len(stack[w]) = 1
  PROVE  \/ thread' = "none" /\ Reported(outcome)'
         \/ thread' = w /\ stack'[w] # <<>> /\ EntityInv(w)'
<1>1. TextInv(w)
  BY DEF TextInvs
<1>2. Bottom(w, stack[w][1]) /\ Top(w) = stack[w][Len(stack[w])] /\ Top(w).method = test
      /\ Top(w).pc \in Nat \ {0} /\ raised \in [Workers -> Exceptions]
      /\ current \in [Workers -> 0..Len(txs)]
  BY <1>1, TopText, TopFacts DEF Bottom, Typed
<1>3. CallsAndChecks(Methods[Top(w).method], Callers)
  BY <1>2, BodiesOf
<1>4. /\ current[w] = 0
      /\ Top(w).pc = 1 => results.id = 0 /\ raised[w] = "none" /\ Top(w).step = "body"
      /\ Top(w).pc > 1 => Reported(raised[w])
  BY DEF EntityInv, TestCourse
<1>5. /\ Top(w).step \in {"body", "return"} /\ ~Top(w).owner /\ Len(Body(w)) = 2
      /\ Attribute(w) = "TEST"
      /\ \A what : AtOp(w, what) =>
           \/ what = "call" /\ Top(w).pc = 1
           \/ what = "check" /\ Top(w).pc = 2 /\ ~Body(w)[2][3]
      /\ CallMethod(w) \/ Check(w) \/ LeaveJoined(w) \/ Return(w)
  BY <1>1, <1>3, <1>4, TestText
<1>6. results'.id = results.id /\ (disturbed => disturbed')
  <2>1. ~AtOp(w, "store")
    BY <1>5
  <2>. QED
    BY <2>1, Ops, IdentifierKept, DisturbedStays
<1>7. ASSUME NEW p, NEW s, NEW o, Put(w, p, s, o), thread' = thread, txs' = txs,
             current' = current, p > 1, Reported(raised'[w])
      PROVE  thread' = w /\ stack'[w] # <<>> /\ EntityInv(w)'
  <2>1. stack'[w] # <<>> /\ Len(stack'[w]) = 1 /\ Top(w)'.pc = p /\ Top(w)'.step = s
    BY <1>7, PutTop
  <2>2. Reported(raised[w])' /\ p # 1
    BY <1>2, <1>6, <1>7 DEF Reported, Told, Void
  <2>. QED
    BY <1>4, <1>7, <2>1, <2>2 DEF EntityInv, TestCourse
<1>8. CASE CallMethod(w)
  <2>1. PICK f \in Frames :
           /\ Stacked(w, 1, f) /\ f.method = Argument(w) /\ f.pc = 1
           /\ f.step = "enter" /\ ~f.owner /\ f.outer = current[w]
    BY <1>8, CallIs
  <2>2. Top(w).pc = 1 /\ thread' = thread /\ raised' = raised /\ current' = current
    BY <1>5, <1>8 DEF CallMethod, scene, suite
  <2>3. stack'[w] # <<>> /\ Len(stack'[w]) = 2 /\ stack'[w][2] = f
    <3>. DEFINE k == 1
    <3>1. Stacked(w, k, f) /\ k \in Nat
      BY <2>1
    <3>. HIDE DEF k
    <3>2. stack'[w] # <<>> /\ Len(stack'[w]) = k + 1 /\ stack'[w][k + 1] = f
      BY <3>1, StackedTop
    <3>. QED
      BY <3>2 DEF k
  <2>4. results.id = 0 /\ raised[w] = "none"
    BY <1>4, <2>2
  <2>5. CallerCourse(w)'
    BY <1>4, <1>6, <2>1, <2>2, <2>3, <2>4 DEF CallerCourse
  <2>. QED
    BY <2>2, <2>3, <2>5 DEF EntityInv
<1>9. CASE Check(w)
  <2>1. AtOp(w, "check") /\ thread' = thread /\ Top(w).pc = 2 /\ ~Body(w)[2][3]
        /\ txs' = txs /\ current' = current
        /\ IF Asserted(w) THEN Advance(w) /\ UNCHANGED raised ELSE Thrown(w, "Assertion")
    BY <1>5, <1>9 DEF Check, scene, suite
  <2>2. 2 + 1 = 3 /\ Len(Body(w)) + 1 = 3 /\ ~Body(w)[Top(w).pc][3]
    BY <1>5, <2>1
  <2>3. CASE Asserted(w)
    <3>1. Put(w, Top(w).pc + 1, "body", Top(w).owner)
      BY <2>1, <2>3, Puts
    <3>2. Put(w, 3, "body", Top(w).owner)
      BY <2>1, <2>2, <3>1
    <3>3. Reported(raised'[w])
      BY <1>4, <2>1, <2>3
    <3>. QED
      BY <1>7, <2>1, <3>2, <3>3
  <2>4. CASE ~Asserted(w)
    <3>1. Put(w, Len(Body(w)) + 1, "body", Top(w).owner)
          /\ raised' = [raised EXCEPT ![w] = "Assertion"]
      BY <2>1, <2>2, <2>4, Puts
    <3>2. ~Told
      <4>1. test \in {"testRethrow", "testCatch", "testNewTxn"}
        BY DEF Entities, OnDatasourceConnectionFailTestCase
      <4>. QED
        BY <1>4, <2>4, <4>1, AssertedIs
    <3>3. Void /\ raised'[w] = "Assertion"
      BY <1>2, <1>4, <2>1, <3>1, <3>2 DEF Reported
    <3>4. Reported(raised'[w])
      BY <3>3 DEF Reported
    <3>5. Put(w, 3, "body", Top(w).owner)
      BY <2>2, <3>1
    <3>. QED
      BY <1>7, <2>1, <3>4, <3>5
  <2>. QED
    BY <2>3, <2>4
<1>10. CASE LeaveJoined(w)
  <2>1. Step(w, "return") /\ thread' = thread /\ raised' = raised /\ Top(w).pc > 2
        /\ txs' = txs /\ current' = current
    BY <1>5, <1>10 DEF LeaveJoined, scene, suite, Leaving, Finished
  <2>2. Put(w, Top(w).pc, "return", Top(w).owner)
    BY <2>1, Puts DEF Steps
  <2>3. Top(w).pc > 1
    BY <1>2, <2>1
  <2>4. Reported(raised'[w])
    BY <1>4, <2>1, <2>3
  <2>. QED
    BY <1>7, <2>1, <2>2, <2>3, <2>4
<1>11. CASE Return(w)
  <2>1. Leaves(w) /\ Top(w).step = "return" /\ txs' = txs
    BY <1>11, ReturnIs DEF Resumes
  <2>2. thread' = "none" /\ outcome' = raised[w]
    BY <2>1 DEF Leaves
  <2>3. Top(w).pc > 1
    BY <1>2, <1>4, <2>1
  <2>. QED
    BY <1>4, <1>6, <2>1, <2>2, <2>3 DEF Reported, Told, Void
<1>. QED
  BY <1>5, <1>8, <1>9, <1>10, <1>11

(* The frames of a bean that stores an entity, and of the bean it calls.   *)
LEMMA CallerText ==
  ASSUME Typed, NEW w \in Threads, w \in Workers, TextInv(w), stack[w] # <<>>,
         test \in Entities, Len(stack[w]) # 1
  PROVE  /\ stack[w][1].pc = 1 /\ ~Methods[stack[w][1].method].body[1][3]
         /\ Len(Methods[stack[w][1].method].body) = 2
         /\ stack[w][2] \in Frames /\ stack[w][2].method \in Callers
         /\ Len(stack[w]) \in {2, 3} /\ Top(w) = stack[w][Len(stack[w])]
         /\ Len(stack[w]) = 2 =>
              /\ Attribute(w) = "REQUIRED" /\ Len(Body(w)) = 3 /\ ~Body(w)[2][3]
              /\ \A what : AtOp(w, what) =>
                   \/ what = "call" /\ Top(w).pc = 1
                   \/ what = "persist" /\ Top(w).pc = 2
                   \/ what = "store" /\ Top(w).pc = 3
         /\ Len(stack[w]) = 3 =>
              /\ stack[w][2].pc = 1 /\ Len(Methods[stack[w][2].method].body) = 3
              /\ \A what : AtOp(w, what) => what = "sql"
<1>. DEFINE L == Len(stack[w])
            c == stack[w][1]
            d == stack[w][2]
            m == stack[w][2].method
<1>1. /\ L \in Nat \ {0} /\ Top(w) = stack[w][L]
      /\ \A i \in 1..L - 1 : Calling(stack[w][i], stack[w][i + 1].method)
      /\ Bottom(w, c) /\ \A i \in 1..L : stack[w][i] \in Frames
      /\ GoodMethod(Methods[Top(w).method], DOMAIN Methods) /\ Top(w).pc \in Nat \ {0}
  BY TopText, TopFacts, Flat DEF Typed
<1>2. L >= 2 /\ 1 \in 1..L - 1 /\ (L # 2 => 2 \in 1..L - 1) /\ 1 \in 1..L /\ 2 \in 1..L
      /\ (L # 2 /\ L # 3 => 3 \in 1..L - 1) /\ (L # 2 => 3 \in 1..L)
  <2>1. L \in Nat \ {0} /\ L # 1
    BY <1>1
  <2>. HIDE DEF L
  <2>. QED
    BY <2>1
<1>3. Calling(c, m) /\ c.method = test
  <2>1. Calling(stack[w][1], stack[w][1 + 1].method)
    BY <1>1, <1>2
  <2>. QED
    BY <1>1, <2>1 DEF Bottom
<1>4. c.pc = 1 /\ m \in Callers /\ Len(Methods[c.method].body) = 2
      /\ ~Methods[c.method].body[1][3]
  <2>1. CallsAndChecks(Methods[test], Callers)
    BY BodiesOf
  <2>2. GoodMethod(Methods[test], DOMAIN Methods)
    BY <1>1, <1>2, <1>3, MethodFacts DEF Frames
  <2>3. c.pc \in 1..2
    BY <1>3, <2>1, <2>2 DEF Calling, CallsAndChecks, GoodMethod
  <2>4. c.pc = 1 \/ c.pc = 2
    BY <2>3
  <2>. QED
    BY <1>3, <2>1, <2>4 DEF Calling, CallsAndChecks
<1>5. /\ Methods[m].attribute = "REQUIRED" /\ Len(Methods[m].body) = 3
      /\ Methods[m].body[1][1] = "call" /\ Methods[m].body[1][2] \in Creators
      /\ Methods[m].body[2][1] = "persist" /\ ~Methods[m].body[2][3]
      /\ Methods[m].body[3][1] = "store"
  BY <1>4, BodiesOf
<1>6. DOMAIN Methods[m].body = 1..3
  <2>1. GoodMethod(Methods[m], DOMAIN Methods)
    BY <1>1, <1>2, MethodFacts DEF Frames
  <2>. QED
    BY <1>5, <2>1 DEF GoodMethod
<1>7. ASSUME NEW o, Calling(d, o) PROVE d.pc = 1 /\ o \in Creators
  <2>1. d.pc = 1 \/ d.pc = 2 \/ d.pc = 3
    BY <1>6, <1>7 DEF Calling
  <2>. QED
    BY <1>5, <1>7, <2>1 DEF Calling
<1>8. ASSUME L # 2
      PROVE  /\ L = 3 /\ d.pc = 1 /\ Top(w).method \in Creators
  <2>. DEFINE o == stack[w][3].method
  <2>1. Calling(stack[w][2], stack[w][2 + 1].method)
    BY <1>1, <1>2, <1>8
  <2>2. d.pc = 1 /\ o \in Creators
    BY <1>7, <2>1
  <2>3. Len(Methods[o].body) = 1 /\ Methods[o].body[1][1] = "sql"
    BY <2>2, BodiesOf
  <2>4. DOMAIN Methods[o].body = 1..1
    <3>1. GoodMethod(Methods[o], DOMAIN Methods)
      BY <1>1, <1>2, <1>8, MethodFacts DEF Frames
    <3>. QED
      BY <2>3, <3>1 DEF GoodMethod
  <2>5. L # 3 => Calling(stack[w][3], stack[w][3 + 1].method)
    BY <1>1, <1>2, <1>8
  <2>6. L = 3
    BY <2>3, <2>4, <2>5 DEF Calling
  <2>. QED
    BY <1>1, <2>2, <2>6
<1>9. ASSUME L = 2
      PROVE  /\ Attribute(w) = "REQUIRED" /\ Len(Body(w)) = 3 /\ ~Body(w)[2][3]
             /\ \A what : AtOp(w, what) =>
                  \/ what = "call" /\ Top(w).pc = 1
                  \/ what = "persist" /\ Top(w).pc = 2
                  \/ what = "store" /\ Top(w).pc = 3
  <2>1. Top(w).method = m
    BY <1>1, <1>9
  <2>2. Attribute(w) = "REQUIRED" /\ Body(w) = Methods[m].body
    BY <1>5, <2>1 DEF Attribute, Body
  <2>3. ASSUME NEW what, AtOp(w, what)
        PROVE  \/ what = "call" /\ Top(w).pc = 1
               \/ what = "persist" /\ Top(w).pc = 2
               \/ what = "store" /\ Top(w).pc = 3
    <3>1. Top(w).pc \in 1..3 /\ Body(w)[Top(w).pc][1] = what
      BY <1>6, <2>2, <2>3, OpText
    <3>2. Top(w).pc = 1 \/ Top(w).pc = 2 \/ Top(w).pc = 3
      BY <3>1
    <3>. QED
      BY <1>5, <2>2, <3>1, <3>2
  <2>. QED
    BY <1>5, <2>2, <2>3
<1>10. ASSUME L # 2, NEW what, AtOp(w, what) PROVE what = "sql"
  <2>1. Len(Body(w)) = 1 /\ Body(w)[1][1] = "sql"
    BY <1>8, <1>10, BodiesOf DEF Body
  <2>2. DOMAIN Body(w) = 1..1
    BY <1>1, <2>1 DEF GoodMethod, Body
  <2>3. Top(w).pc \in 1..1 /\ Body(w)[Top(w).pc][1] = what
    BY <1>10, <2>2, OpText
  <2>4. Top(w).pc = 1
    BY <2>3
  <2>. QED
    BY <2>1, <2>3, <2>4
<1>11. L \in {2, 3} /\ d \in Frames
  BY <1>1, <1>2, <1>8
<1>12. L = 3 => L # 2
  OBVIOUS
<1>. QED
  BY <1>1, <1>4, <1>5, <1>8, <1>9, <1>10, <1>11, <1>12

(* The steps of the bean that stores an entity.                            *)
LEMMA CallerRun ==
  ASSUME Typed, TextInvs, HeardInv, NEW w \in Threads, w \in Workers, test \in Entities,
         thread = w, stack[w] # <<>>, EntityInv(w), Work(w) \/ EnterFails(w), Len(stack[w]) = 2
  PROVE  thread' = w /\ stack'[w] # <<>> /\ EntityInv(w)'
<1>. DEFINE T == Top(w)
            i == current[w]
            id == results.id
<1>1. TextInv(w) /\ Len(stack[w]) # 1
  BY DEF TextInvs
<1>2. /\ EndsRight(T) /\ (HasTx(T) => i # 0) /\ T.pc \in Nat \ {0} /\ T.owner \in BOOLEAN
      /\ T \in Frames /\ Len(txs) \in Nat /\ i \in 0..Len(txs) /\ (i # 0 => txs[i] \in Txs)
      /\ raised \in [Workers -> Exceptions] /\ current \in [Workers -> 0..Len(txs)]
      /\ txs \in Seq(Txs) /\ DOMAIN txs = 1..Len(txs)
      /\ "id" \in DOMAIN results
  BY <1>1, TopText DEF Typed
<1>3. /\ stack[w][1].pc = 1 /\ ~Methods[stack[w][1].method].body[1][3]
      /\ Len(Methods[stack[w][1].method].body) = 2
      /\ T = stack[w][2]
      /\ Attribute(w) = "REQUIRED" /\ Len(Body(w)) = 3 /\ ~Body(w)[2][3]
      /\ \A what : AtOp(w, what) =>
           \/ what = "call" /\ T.pc = 1
           \/ what = "persist" /\ T.pc = 2
           \/ what = "store" /\ T.pc = 3
  BY <1>1, CallerText
<1>4. /\ T.outer = 0
      /\ T.step = "enter" => id = 0 /\ raised[w] = "none" /\ i = 0
      /\ T.step \in {"body", "before", "complete", "after"} => T.owner
      /\ T.step = "body" =>
           /\ T.pc <= 3 => id = 0 /\ raised[w] = "none"
           /\ T.pc = 3 => txs[i].entity /\ txs[i].status = "active"
           /\ T.pc > 3 => IF raised[w] = "none"
                            THEN id = i /\ txs[i].entity /\ txs[i].status = "active"
                            ELSE id = 0
      /\ T.step \in {"before", "complete"} => raised[w] = "none" /\ id = i /\ txs[i].entity
      /\ T.step = "after" =>
           IF raised[w] = "none"
             THEN id = i /\ txs[i].entity /\ txs[i].status = "committed"
             ELSE /\ id \in {0, i}
                  /\ \/ txs[i].status = "rolledback"
                     \/ txs[i].status = "kept" /\ disturbed
      /\ T.step = "return" => Reported(raised[w])
  BY <1>1, <1>3 DEF EntityInv, CallerCourse, Working
<1>5. T.step \in {"body", "before", "complete", "after"} => i # 0
  BY <1>2, <1>4 DEF HasTx
<1>6. T.step \in {"before", "complete", "after"} => T.pc > Len(Body(w))
  BY <1>2, <1>4 DEF EndsRight, Body
<1>7. (~StoreId(w) => results'.id = id) /\ (disturbed => disturbed')
  BY IdentifierKept, DisturbedStays
<1>8. ASSUME NEW p, NEW s, NEW o, Put(w, p, s, o), thread' = thread,
             s # "enter",
             s \in {"body", "before", "complete", "after"} => o = TRUE,
             s = "body" =>
               /\ p <= 3 => results'.id = 0 /\ raised'[w] = "none"
               /\ p = 3 => txs'[current'[w]].entity /\ txs'[current'[w]].status = "active"
               /\ p > 3 => IF raised'[w] = "none"
                             THEN /\ results'.id = current'[w] /\ txs'[current'[w]].entity
                                  /\ txs'[current'[w]].status = "active"
                             ELSE results'.id = 0,
             s \in {"before", "complete"} =>
               raised'[w] = "none" /\ results'.id = current'[w] /\ txs'[current'[w]].entity,
             s = "after" =>
               IF raised'[w] = "none"
                 THEN /\ results'.id = current'[w] /\ txs'[current'[w]].entity
                      /\ txs'[current'[w]].status = "committed"
                 ELSE /\ results'.id \in {0, current'[w]}
                      /\ \/ txs'[current'[w]].status = "rolledback"
                         \/ txs'[current'[w]].status = "kept" /\ disturbed',
             s = "return" => Reported(raised[w])'
      PROVE  thread' = w /\ stack'[w] # <<>> /\ EntityInv(w)'
  <2>1. /\ stack'[w] # <<>> /\ Len(stack'[w]) = 2 /\ Top(w)' = stack'[w][2]
        /\ stack'[w][2].pc = p /\ stack'[w][2].step = s /\ stack'[w][2].owner = o
        /\ stack'[w][2].outer = T.outer
    BY <1>8, PutTop
  <2>2. CallerCourse(w)'
    BY <1>4, <1>8, <2>1 DEF CallerCourse, Working
  <2>. QED
    BY <1>1, <1>8, <2>1, <2>2 DEF EntityInv
<1>9. ASSUME NEW p \in {1, 3, 4}, Put(w, p, "body", TRUE), thread' = thread,
              p # 4 => results'.id = 0 /\ raised'[w] = "none",
              p = 3 => txs'[current'[w]].entity /\ txs'[current'[w]].status = "active",
              p = 4 => IF raised'[w] = "none"
                         THEN /\ results'.id = current'[w] /\ txs'[current'[w]].entity
                              /\ txs'[current'[w]].status = "active"
                         ELSE results'.id = 0
       PROVE  thread' = w /\ stack'[w] # <<>> /\ EntityInv(w)'
  <2>1. (p <= 3 <=> p # 4) /\ (p > 3 <=> p = 4)
    OBVIOUS
  <2>. QED
    BY <1>8, <1>9, <2>1
<1>10. ASSUME NEW s \in Steps, Step(w, s) PROVE Put(w, T.pc, s, T.owner)
  BY <1>10, Puts
<1>11. \/ T.step = "enter" /\ (EnterNew(w) \/ EnterFails(w))
       \/ CallMethod(w) \/ PersistEntity(w) \/ StoreId(w) \/ LeaveOwner(w) \/ Return(w)
       \/ BeforeCompletion(w) \/ Complete(w) \/ AfterCompletion(w)
  <2>1. ~EnterWithout(w) /\ ~LeaveCatch(w) /\ ~EnterRefused(w)
    BY <1>3 DEF EnterWithout, EnterRefused, LeaveCatch
  <2>2. T.step = "enter" => ~EnterJoined(w)
    BY <1>4 DEF EnterJoined
  <2>3. ~LeaveJoined(w)
    BY <1>4 DEF LeaveJoined, Leaving, InBody
  <2>4. \A what \in {"sql", "register", "begin", "commit", "async", "sleep", "note", "check"} :
          ~AtOp(w, what)
    BY <1>3
  <2>5. /\ ~ExecuteUpdate(w) /\ ~Register(w) /\ ~BeginTx(w) /\ ~CommitTx(w)
        /\ ~CallAsynchronously(w) /\ ~Sleep(w) /\ ~NoteTransaction(w) /\ ~Check(w)
    BY <2>4, Ops
  <2>. QED
    BY <2>1, <2>2, <2>3, <2>5 DEF Work, Enter, EnterFails
<1>. HIDE DEF T, i, id
<1>12. CASE T.step = "enter" /\ EnterNew(w)
  <2>1. T.pc = 1 /\ id = 0 /\ raised[w] = "none"
    BY <1>2, <1>4, <1>12 DEF EndsRight
  <2>2. /\ thread' = thread /\ raised' = raised /\ Put(w, T.pc, "body", TRUE)
    BY <1>12, Puts DEF EnterNew, Runs, scene, suite, T
  <2>3. results'.id = 0
    <3>1. ~StoreId(w)
      BY <1>12 DEF StoreId, AtOp, InBody, T
    <3>. QED
      BY <1>7, <2>1, <3>1
  <2>4. Put(w, 1, "body", TRUE)
    BY <2>1, <2>2
  <2>5. results'.id = 0 /\ raised'[w] = "none" /\ thread' = thread
    BY <2>1, <2>2, <2>3
  <2>6. 1 \in {1, 3, 4} /\ 1 # 3 /\ 1 # 4
    OBVIOUS
  <2>. QED
    BY <1>9, <2>4, <2>5, <2>6, Zenon
<1>13. CASE T.step = "enter" /\ EnterFails(w)
  <2>1. id = 0 /\ Step(w, "return") /\ thread' = thread /\ raised'[w] # "none"
        /\ results' = results
    BY <1>2, <1>4, <1>13 DEF EnterFails, scene, suite
  <2>2. Put(w, T.pc, "return", T.owner)
    BY <1>10, <2>1 DEF Steps
  <2>3. Reported(raised[w])'
    BY <2>1 DEF Reported, Void, id
  <2>. QED
    BY <1>8, <2>1, <2>2, <2>3
<1>14. CASE PersistEntity(w)
  <2>1. /\ AtOp(w, "persist") /\ thread' = thread /\ results' = results /\ current' = current
        /\ \/ txs[i].status = "active" /\ SetTx(w, "entity", TRUE) /\ Advance(w) /\ raised' = raised
           \/ Thrown(w, "Runtime") /\ txs' = txs
    BY <1>14 DEF PersistEntity, scene, suite, i
  <2>2. T.pc = 2 /\ T.step = "body"
    BY <1>3, <2>1 DEF AtOp, InBody, T
  <2>3. id = 0 /\ raised[w] = "none" /\ i # 0 /\ T.owner /\ T.pc + 1 = 3
        /\ Len(Body(w)) + 1 = 4 /\ ~Body(w)[T.pc][3] /\ T.owner = TRUE
    BY <1>2, <1>3, <1>4, <1>5, <2>2
  <2>4. CASE txs[i].status = "active" /\ SetTx(w, "entity", TRUE) /\ Advance(w)
             /\ raised' = raised
    <3>1. Put(w, T.pc + 1, "body", T.owner)
      BY <2>4, Puts DEF T
    <3>2. Put(w, 3, "body", TRUE)
      BY <2>3, <3>1
    <3>3. txs'[i].entity /\ txs'[i].status = "active"
      BY <1>2, <2>3, <2>4 DEF SetTx, Txs, i
    <3>4. /\ results'.id = 0 /\ raised'[w] = "none" /\ thread' = thread
          /\ txs'[current'[w]].entity /\ txs'[current'[w]].status = "active"
      BY <2>1, <2>3, <2>4, <3>3 DEF i, id
    <3>5. 3 \in {1, 3, 4} /\ 3 # 4
      OBVIOUS
    <3>. QED
      BY <1>9, <3>2, <3>4, <3>5, Zenon
  <2>5. CASE Thrown(w, "Runtime") /\ txs' = txs
    <3>1. Put(w, Len(Body(w)) + 1, "body", T.owner)
          /\ raised' = [raised EXCEPT ![w] = "Runtime"]
      BY <2>3, <2>5, Puts DEF T
    <3>2. Put(w, 4, "body", TRUE) /\ raised'[w] = "Runtime"
      BY <1>2, <2>3, <3>1
    <3>. QED
      BY <1>9, <2>1, <2>3, <3>2 DEF id
  <2>. QED
    BY <2>1, <2>4, <2>5
<1>15. CASE StoreId(w)
  <2>1. /\ AtOp(w, "store") /\ thread' = thread /\ current' = current /\ raised' = raised
        /\ txs' = txs /\ Advance(w) /\ results' = [results EXCEPT !.id = i]
    BY <1>15 DEF StoreId, scene, suite, i
  <2>2. T.pc = 3 /\ T.step = "body"
    BY <1>3, <2>1 DEF AtOp, InBody, T
  <2>3. /\ raised[w] = "none" /\ i # 0 /\ T.owner = TRUE /\ T.pc + 1 = 4
        /\ txs[i].entity /\ txs[i].status = "active"
    BY <1>2, <1>4, <1>5, <2>2
  <2>4. Put(w, T.pc + 1, "body", T.owner)
    BY <2>1, Puts DEF T
  <2>5. Put(w, 4, "body", TRUE)
    BY <2>3, <2>4
  <2>6. results'.id = i
    BY <1>2, <2>1
  <2>. QED
    BY <1>9, <2>1, <2>3, <2>5, <2>6 DEF i
<1>16. CASE LeaveOwner(w)
  <2>1. /\ Leaving(w) /\ thread' = thread /\ current' = current /\ raised' = raised
        /\ IF raised[w] = "none" /\ txs[i].status = "active"
             THEN Step(w, "before") /\ UNCHANGED txs
             ELSE SetTx(w, "status", "rolledback") /\ Step(w, "after")
    BY <1>16 DEF LeaveOwner, RollbackTx, scene, suite, i
  <2>2. T.step = "body" /\ T.pc > 3 /\ ~StoreId(w)
    BY <1>3, <2>1 DEF Leaving, InBody, Finished, T, StoreId, AtOp
  <2>3. /\ IF raised[w] = "none" THEN id = i /\ txs[i].entity /\ txs[i].status = "active"
                                 ELSE id = 0
        /\ results'.id = id /\ i # 0 /\ T.owner = TRUE
    BY <1>2, <1>4, <1>5, <1>7, <2>2
  <2>4. CASE raised[w] = "none"
    <3>1. Put(w, T.pc, "before", T.owner) /\ txs' = txs
      BY <1>10, <2>1, <2>3, <2>4 DEF Steps
    <3>. QED
      BY <1>8, <2>1, <2>3, <2>4, <3>1 DEF i
  <2>5. CASE raised[w] # "none"
    <3>1. Put(w, T.pc, "after", T.owner) /\ SetTx(w, "status", "rolledback")
      BY <1>10, <2>1, <2>5 DEF Steps
    <3>2. txs'[i].status = "rolledback"
      BY <1>2, <2>3, <3>1 DEF SetTx, Txs, i
    <3>. QED
      BY <1>8, <2>1, <2>3, <2>5, <3>1, <3>2 DEF i
  <2>. QED
    BY <2>4, <2>5
<1>17. CASE BeforeCompletion(w)
  <2>1. /\ T.step = "before" /\ thread' = thread /\ current' = current
        /\ \/ Step(w, "complete") /\ UNCHANGED txs /\ raised' = raised
           \/ /\ SetTx(w, "status", "rolledback") /\ Step(w, "after")
              /\ raised' = [raised EXCEPT ![w] = "Rollback"]
    BY <1>17 DEF BeforeCompletion, RollbackTx, scene, suite, T
  <2>2. /\ raised[w] = "none" /\ id = i /\ txs[i].entity /\ i # 0 /\ T.owner = TRUE
        /\ results'.id = id
    <3>1. ~StoreId(w)
      BY <2>1 DEF StoreId, AtOp, InBody, T
    <3>. QED
      BY <1>2, <1>4, <1>5, <1>7, <2>1, <3>1
  <2>3. CASE Step(w, "complete") /\ UNCHANGED txs /\ raised' = raised
    <3>1. Put(w, T.pc, "complete", T.owner)
      BY <1>10, <2>3 DEF Steps
    <3>. QED
      BY <1>8, <2>1, <2>2, <2>3, <3>1 DEF i
  <2>4. CASE /\ SetTx(w, "status", "rolledback") /\ Step(w, "after")
             /\ raised' = [raised EXCEPT ![w] = "Rollback"]
    <3>1. Put(w, T.pc, "after", T.owner)
      BY <1>10, <2>4 DEF Steps
    <3>2. txs'[i].status = "rolledback" /\ raised'[w] = "Rollback"
      BY <1>2, <2>2, <2>4 DEF SetTx, Txs, i
    <3>. QED
      BY <1>8, <2>1, <2>2, <3>1, <3>2 DEF i
  <2>. QED
    BY <2>1, <2>3, <2>4
<1>18. CASE Complete(w)
  <2>1. /\ T.step = "complete" /\ thread' = thread /\ current' = current /\ Step(w, "after")
        /\ \/ SetTx(w, "status", "committed") /\ raised' = raised
           \/ /\ SetTx(w, "status", "rolledback") \/ SetTx(w, "status", "kept")
              /\ disturbed' = TRUE
              /\ raised' = [raised EXCEPT ![w] = "Rollback"]
    BY <1>18 DEF Complete, Fault, scene, suite, T
  <2>2. /\ raised[w] = "none" /\ id = i /\ txs[i].entity /\ i # 0 /\ T.owner = TRUE
        /\ results'.id = id
    <3>1. ~StoreId(w)
      BY <2>1 DEF StoreId, AtOp, InBody, T
    <3>. QED
      BY <1>2, <1>4, <1>5, <1>7, <2>1, <3>1
  <2>3. Put(w, T.pc, "after", T.owner)
    BY <1>10, <2>1 DEF Steps
  <2>4. CASE SetTx(w, "status", "committed") /\ raised' = raised
    <3>1. txs'[i].status = "committed" /\ txs'[i].entity
      BY <1>2, <2>2, <2>4 DEF SetTx, Txs, i
    <3>. QED
      BY <1>8, <2>1, <2>2, <2>3, <2>4, <3>1 DEF i
  <2>5. CASE /\ SetTx(w, "status", "rolledback") \/ SetTx(w, "status", "kept")
             /\ disturbed' = TRUE
             /\ raised' = [raised EXCEPT ![w] = "Rollback"]
    <3>1. /\ txs'[i].status \in {"rolledback", "kept"} /\ disturbed'
          /\ raised'[w] = "Rollback"
      BY <1>2, <2>2, <2>5 DEF SetTx, Txs, i
    <3>. QED
      BY <1>8, <2>1, <2>2, <2>3, <3>1 DEF i
  <2>. QED
    BY <2>1, <2>4, <2>5
<1>19. CASE AfterCompletion(w)
  <2>. DEFINE p == IF raised[w] = "none" THEN T.pc + 1 ELSE Len(Body(w)) + 1
  <2>1. T.step = "after" /\ thread' = thread /\ raised' = raised /\ txs' = txs
    BY <1>19 DEF AfterCompletion, scene, suite, T
  <2>2. stack' = ReplaceTop(w, [T EXCEPT !.step = "return", !.pc = p])
    <3>1. Finished(w)
      BY <1>6, <2>1 DEF Finished, T
    <3>2. stack' = ReplaceTop(w, [T EXCEPT !.step = "return",
                     !.pc = IF raised[w] = "none" THEN @ + 1 ELSE Len(Body(w)) + 1])
      BY <1>19, <3>1 DEF AfterCompletion, T
    <3>. QED
      BY <1>2, <3>2
  <2>3. Put(w, p, "return", T.owner)
    <3>1. p \in Nat \ {0}
      BY <1>2, <1>3
    <3>. HIDE DEF p
    <3>. QED
      BY <2>2, <3>1, Puts DEF T, Steps
  <2>. HIDE DEF p
  <2>4. results'.id = id /\ i # 0
    <3>1. ~StoreId(w)
      BY <2>1 DEF StoreId, AtOp, InBody, T
    <3>. QED
      BY <1>5, <1>7, <2>1, <3>1
  <2>5. Reported(raised[w])'
    BY <1>4, <1>7, <2>1, <2>4 DEF Reported, Told, Void
  <2>. QED
    BY <1>8, <2>1, <2>3, <2>5
<1>20. CASE CallMethod(w)
  <2>1. PICK f \in Frames :
           /\ Stacked(w, 2, f) /\ f.method = Argument(w) /\ f.pc = 1
           /\ f.step = "enter" /\ ~f.owner /\ f.outer = current[w]
    BY <1>20, CallIs
  <2>2. /\ AtOp(w, "call") /\ thread' = thread /\ raised' = raised /\ current' = current
        /\ txs' = txs /\ results' = results
    BY <1>20 DEF CallMethod, scene, suite
  <2>3. T.pc = 1 /\ T.step = "body"
    BY <1>3, <2>2 DEF AtOp, InBody, T
  <2>4. /\ stack'[w] # <<>> /\ Len(stack'[w]) = 3 /\ stack'[w][3] = f
        /\ stack'[w][2] = stack[w][2]
    <3>. DEFINE k == 2
    <3>1. Stacked(w, k, f) /\ k \in Nat /\ 2 \in 1..k
      BY <2>1
    <3>. HIDE DEF k
    <3>2. /\ stack'[w] # <<>> /\ Len(stack'[w]) = k + 1 /\ stack'[w][k + 1] = f
          /\ stack'[w][2] = stack[w][2]
      BY <3>1, StackedTop
    <3>. QED
      BY <3>2 DEF k
  <2>5. id = 0 /\ T.owner /\ T.outer = 0
    BY <1>4, <2>3
  <2>6. CallerCourse(w)'
    BY <1>3, <2>2, <2>3, <2>4, <2>5 DEF CallerCourse, id
  <2>. QED
    BY <2>2, <2>4, <2>6 DEF EntityInv
<1>21. CASE Return(w)
  <2>1. PICK f \in Frames : Resumes(w, f)
    BY <1>1, <1>21, ReturnIs DEF Leaves
  <2>2. T.step = "return" /\ txs' = txs /\ results' = results
    BY <1>21, ReturnIs DEF T
  <2>3. /\ thread' = thread /\ Stacked(w, 0, f) /\ f.pc > 1 /\ current'[w] = 0
        /\ raised[w] = "none" <=> raised'[w] = "none"
    <3>1. Len(stack[w]) - 1 = 1 /\ Len(stack[w]) - 2 = 0
      OBVIOUS
    <3>2. current'[w] = T.outer
      BY <2>1 DEF Resumes, T
    <3>. QED
      BY <1>3, <1>4, <2>1, <3>1, <3>2 DEF Resumes
  <2>4. stack'[w] # <<>> /\ Len(stack'[w]) = 1 /\ Top(w)' = f
    <3>. DEFINE k == 0
    <3>1. Stacked(w, k, f) /\ k \in Nat
      BY <2>3
    <3>. HIDE DEF k
    <3>2. stack'[w] # <<>> /\ Len(stack'[w]) = k + 1 /\ Top(w)' = f
      BY <3>1, StackedTop
    <3>. QED
      BY <3>2 DEF k
  <2>5. Reported(raised[w])'
    BY <1>4, <1>7, <2>2, <2>3 DEF Reported, Told, Void
  <2>6. TestCourse(w)'
    BY <2>3, <2>4, <2>5 DEF TestCourse
  <2>. QED
    BY <2>3, <2>4, <2>6 DEF EntityInv
<1>. QED
  BY <1>11, <1>12, <1>13, <1>14, <1>15, <1>16, <1>17, <1>18, <1>19, <1>20, <1>21

(* The steps of the bean it calls.                                         *)
LEMMA CreatorRun ==
  ASSUME Typed, CallsInv, TextInvs, HeardInv, NEW w \in Threads, w \in Workers,
         test \in Entities, thread = w, stack[w] # <<>>, EntityInv(w),
         Work(w) \/ EnterFails(w), Len(stack[w]) = 3
  PROVE  thread' = w /\ stack'[w] # <<>> /\ EntityInv(w)'
<1>. DEFINE d == stack[w][2]
<1>1. TextInv(w) /\ ThreadInv(w) /\ Len(stack[w]) # 1 /\ Len(stack[w]) # 2
  BY DEF TextInvs, CallsInv
<1>2. /\ d \in Frames /\ d.pc = 1 /\ Len(Methods[d.method].body) = 3
      /\ Top(w) = stack[w][3] /\ \A what : AtOp(w, what) => what = "sql"
  BY <1>1, CallerText
<1>3. d.step = "body"
  <2>1. 2 \in 1..Len(stack[w]) /\ 2 < Len(stack[w])
    OBVIOUS
  <2>. QED
    BY <1>1, <2>1, Known
<1>4. d.outer = 0 /\ results.id = 0 /\ d.owner
  BY <1>1, <1>2, <1>3 DEF EntityInv, CallerCourse
<1>5. results'.id = 0
  <2>1. ~StoreId(w)
    BY <1>2, Ops
  <2>. QED
    BY <1>4, <2>1, IdentifierKept
<1>6. CASE Return(w)
  <2>1. PICK f \in Frames : Resumes(w, f)
    BY <1>1, <1>6, ReturnIs DEF Leaves
  <2>2. /\ thread' = thread /\ Stacked(w, 1, f) /\ f.step = "body" /\ f.outer = 0
        /\ f.owner
        /\ \/ f.pc = 2 /\ raised'[w] = "none"
           \/ f.pc = 4 /\ raised'[w] # "none"
    <3>1. Len(stack[w]) - 1 = 2 /\ Len(stack[w]) - 2 = 1 /\ d.pc + 1 = 2
          /\ Len(Methods[d.method].body) + 1 = 4
      BY <1>2
    <3>2. /\ thread' = thread /\ Stacked(w, 1, f) /\ f.step = d.step /\ f.outer = d.outer
          /\ f.owner = d.owner
      BY <2>1, <3>1 DEF Resumes
    <3>3. \/ raised'[w] = "none" /\ f.pc = d.pc + 1
          \/ raised'[w] # "none" /\ f.pc = Len(Methods[d.method].body) + 1
      BY <2>1, <3>1 DEF Resumes
    <3>. QED
      BY <1>3, <1>4, <3>1, <3>2, <3>3
  <2>3. stack'[w] # <<>> /\ Len(stack'[w]) = 2 /\ stack'[w][2] = f
    <3>. DEFINE k == 1
    <3>1. Stacked(w, k, f) /\ k \in Nat
      BY <2>2
    <3>. HIDE DEF k
    <3>2. stack'[w] # <<>> /\ Len(stack'[w]) = k + 1 /\ stack'[w][k + 1] = f
      BY <3>1, StackedTop
    <3>. QED
      BY <3>2 DEF k
  <2>4. CallerCourse(w)'
    BY <1>5, <2>2, <2>3 DEF CallerCourse
  <2>. QED
    BY <2>2, <2>3, <2>4 DEF EntityInv
<1>7. CASE ~Return(w)
  <2>1. thread' = thread
    BY <1>7, OthersStay
  <2>2. \E p, s, o : Put(w, p, s, o)
    <3>. DEFINE Some == \E p, s, o : Put(w, p, s, o)
    <3>. SUFFICES Some
      OBVIOUS
    <3>1. /\ \A s \in Steps : Step(w, s) => Some
          /\ \A o \in BOOLEAN : Entered(w, o) => Some
          /\ \A e : Thrown(w, e) => Some
          /\ \A s \in Steps, p \in Nat \ {0} :
               stack' = ReplaceTop(w, [Top(w) EXCEPT !.step = s, !.pc = p]) => Some
      BY Puts
    <3>. HIDE DEF Some
    <3>2. CASE Enter(w) \/ EnterFails(w)
      BY <3>1, <3>2 DEF Enter, EnterNew, EnterJoined, EnterWithout, EnterRefused, EnterFails, Steps
    <3>3. CASE ExecuteUpdate(w)
      BY <3>1, <3>3 DEF ExecuteUpdate
    <3>4. CASE BeforeCompletion(w) \/ Complete(w) \/ LeaveOwner(w) \/ LeaveJoined(w)
               \/ LeaveCatch(w)
      <4>1. \E s \in {"before", "complete", "after", "return"} : Step(w, s)
        BY <3>4 DEF BeforeCompletion, Complete, LeaveOwner, LeaveJoined, LeaveCatch, RollbackTx
      <4>. QED
        BY <3>1, <4>1 DEF Steps
    <3>5. CASE AfterCompletion(w)
      <4>. DEFINE p == IF raised[w] = "none" THEN Top(w).pc + 1 ELSE Len(Body(w)) + 1
                  s == IF Finished(w) THEN "return" ELSE "body"
      <4>1. Top(w).pc \in Nat \ {0} /\ Len(Body(w)) \in Nat /\ Top(w) \in Frames
        BY <1>1, TopText DEF GoodMethod, Body
      <4>2. stack' = ReplaceTop(w,
              [Top(w) EXCEPT !.step = s,
                             !.pc = IF raised[w] = "none" THEN @ + 1 ELSE Len(Body(w)) + 1])
        BY <3>5 DEF AfterCompletion
      <4>3. stack' = ReplaceTop(w, [Top(w) EXCEPT !.step = s, !.pc = p])
        BY <4>1, <4>2
      <4>4. s \in Steps /\ p \in Nat \ {0}
        BY <4>1 DEF Steps
      <4>. HIDE DEF s, p
      <4>. QED
        BY <3>1, <4>3, <4>4
    <3>6. CASE \/ CallMethod(w) \/ PersistEntity(w) \/ StoreId(w) \/ Register(w) \/ BeginTx(w)
               \/ CommitTx(w) \/ CallAsynchronously(w) \/ Sleep(w) \/ NoteTransaction(w)
               \/ Check(w)
      <4>1. \A what \in {"call", "persist", "store", "register", "begin", "commit", "async",
                          "sleep", "note", "check"} : ~AtOp(w, what)
        BY <1>2
      <4>. QED
        BY <3>6, <4>1, Ops
    <3>. QED
      BY <1>7, <3>2, <3>3, <3>4, <3>5, <3>6 DEF Work
  <2>3. /\ stack'[w] # <<>> /\ Len(stack'[w]) = 3 /\ stack'[w][2] = d
    BY <2>2, PutTop
  <2>4. CallerCourse(w)'
    BY <1>2, <1>3, <1>4, <1>5, <2>3 DEF CallerCourse
  <2>. QED
    BY <2>1, <2>3, <2>4 DEF EntityInv
<1>. QED
  BY <1>6, <1>7

-----------------------------------------------------------------------------
(* What a test reports, whoever moves                                      *)

(* A call at the end of a transaction has one.                             *)
LEMMA CompletesOwn ==
  ASSUME Typed, NEW w \in Workers, TextInv(w), stack[w] # <<>>,
         Top(w).step \in {"before", "complete", "after"}
  PROVE  current[w] # 0
<1>1. /\ EndsRight(Top(w)) /\ (HasTx(Top(w)) => current[w] # 0)
      /\ Top(w).owner \in BOOLEAN /\ Top(w).pc \in Nat \ {0}
      /\ GoodMethod(Methods[Top(w).method], DOMAIN Methods)
  BY TopText
<1>2. HasTx(Top(w))
  BY <1>1 DEF EndsRight, HasTx, GoodMethod
<1>. QED
  BY <1>1, <1>2

(* A step that leaves the thread of the test, what it uses and what has    *)
(* ended alone.                                                            *)
LEMMA RunKept ==
  ASSUME Typed, TextInvs, HeardInv, RunInv, UNCHANGED <<results, test, thread, outcome>>,
         disturbed => disturbed',
         thread \in Threads =>
           /\ stack'[thread] = stack[thread] /\ current'[thread] = current[thread]
           /\ raised'[thread] = raised[thread]
           /\ \A i \in InUse(thread) : txs'[i] = txs[i],
         \A j \in 1..Len(txs) : txs[j].status \in Ended => txs'[j] = txs[j]
  PROVE  HeardInv' /\ RunInv'
<1>1. /\ results' = results /\ test' = test /\ thread' = thread /\ outcome' = outcome
      /\ thread \in Threads \union {"none"} /\ results.id \in 0..Len(txs) /\ Len(txs) \in Nat
      /\ raised \in [Workers -> Exceptions]
  BY DEF Typed
<1>2. ASSUME NEW l, Completing(l) PROVE Completing(l)'
  <2>1. /\ thread \in Threads /\ stack[thread] # <<>> /\ Top(thread).step \in {"complete", "after"}
        /\ l \in txs[current[thread]].listeners /\ thread \in Workers
    BY <1>2 DEF Completing, Workers
  <2>2. current[thread] # 0
    BY <2>1, CompletesOwn DEF TextInvs
  <2>3. current[thread] \in InUse(thread)
    BY <2>1, <2>2, InUseFacts
  <2>4. Top(thread)' = Top(thread)
    BY <1>1, <2>1 DEF Top, Last
  <2>5. /\ stack'[thread] = stack[thread] /\ current'[thread] = current[thread]
        /\ txs'[current[thread]] = txs[current[thread]]
    BY <2>1, <2>3
  <2>. QED
    BY <1>1, <2>1, <2>4, <2>5 DEF Completing
<1>3. HeardInv'
  BY <1>1, <1>2 DEF HeardInv
<1>4. /\ Told => Told'
      /\ Void => Void'
  <2>1. results.id # 0 => results.id \in 1..Len(txs)
    BY <1>1
  <2>. QED
    BY <1>1, <2>1 DEF Told, Void, Ended
<1>. SUFFICES RunInv'
  BY <1>3
<1>5. CASE thread = "none"
  <2>1. /\ test \in Listeners => HeardCommit(outcome)
        /\ test \in Entities => Reported(outcome)
    BY <1>5 DEF RunInv
  <2>2. Reported(outcome) => Reported(outcome)'
    BY <1>1, <1>4 DEF Reported
  <2>3. HeardCommit(outcome) => HeardCommit(outcome)'
    BY <1>1 DEF HeardCommit
  <2>. QED
    BY <1>1, <1>5, <2>1, <2>2, <2>3 DEF RunInv
<1>6. CASE thread # "none"
  <2>. DEFINE w == thread
  <2>1. /\ w \in Threads /\ w \in Workers /\ stack[w] # <<>> /\ w' = w
        /\ stack'[w] = stack[w] /\ current'[w] = current[w] /\ raised'[w] = raised[w]
        /\ \A i \in InUse(w) : txs'[i] = txs[i]
    BY <1>1, <1>6 DEF RunInv, Workers
  <2>2. Top(w)' = Top(w) /\ Working(w, 2)' = Working(w, 2)
    BY <2>1 DEF Top, Last, Working
  <2>3. current[w] # 0 => txs'[current[w]] = txs[current[w]]
    BY <2>1, InUseFacts
  <2>4. test \in Listeners => ListenerInv(w)'
    <3>1. test \in Listeners => ListenerInv(w)
      BY <1>6 DEF RunInv
    <3>. HIDE DEF w
    <3>. QED
      BY <1>1, <2>1, <2>2, <2>3, <3>1 DEF ListenerInv, HeardCommit
  <2>5. test \in Entities => EntityInv(w)'
    <3>. SUFFICES ASSUME test \in Entities PROVE EntityInv(w)'
      OBVIOUS
    <3>1. EntityInv(w)
      BY <1>6 DEF RunInv
    <3>2. Reported(raised[w]) => Reported(raised[w])'
      BY <1>4, <2>1 DEF Reported
    <3>. HIDE DEF w
    <3>3. CASE Len(stack[w]) = 1
      BY <2>1, <2>2, <1>1, <3>1, <3>2, <3>3 DEF EntityInv, TestCourse
    <3>4. CASE Len(stack[w]) # 1
      <4>. DEFINE i == Working(w, 2)
                  f == stack[w][2]
      <4>1. 2 \in 1..Len(stack[w]) /\ f \in Frames
        <5>1. Len(stack[w]) \in Nat /\ Len(stack[w]) # 0
          BY <2>1, Flat
        <5>2. \A l \in Nat : l # 0 /\ l # 1 => 2 \in 1..l
          OBVIOUS
        <5>3. 2 \in 1..Len(stack[w])
          BY <3>4, <5>1, <5>2, Zenon
        <5>. QED
          BY <2>1, <5>3, Flat
      <4>2. i # 0 => i \in InUse(w)
        <5>1. CASE 2 = Len(stack[w])
          BY <2>1, <5>1, InUseFacts DEF Working
        <5>2. CASE 2 # Len(stack[w])
          <6>. DEFINE L == Len(stack[w])
          <6>1. L \in Nat /\ 2 \in 1..L /\ 2 # L
            BY <2>1, <4>1, <5>2, Flat
          <6>2. 2 + 1 \in 1..Len(stack[w])
            <7>. HIDE DEF L
            <7>1. 2 + 1 \in 1..L
              BY <6>1
            <7>. QED
              BY <7>1 DEF L
          <6>. QED
            BY <2>1, <5>2, <6>2, InUseFacts DEF Working
        <5>. QED
          BY <5>1, <5>2
      <4>3. f.owner /\ f.step \in {"body", "before", "complete", "after"} => i # 0
        <5>1. CallText(w, 2)
          BY <2>1, <4>1 DEF TextInvs, TextInv
        <5>. QED
          BY <5>1 DEF CallText, HasTx
      <4>4. i # 0 => txs'[i] = txs[i]
        BY <2>1, <4>2
      <4>5. CallerCourse(w)
        BY <3>1, <3>4 DEF EntityInv
      <4>6. i' = i /\ f' = f /\ (f.step \in {"body", "before", "complete", "after"} => txs'[i] = txs[i])
        BY <2>1, <2>2, <4>3, <4>4, <4>5 DEF CallerCourse
      <4>7. CallerCourse(w)'
        <5>. HIDE DEF i, f
        <5>. QED
          BY <1>1, <2>1, <2>2, <3>2, <4>5, <4>6 DEF CallerCourse, i, f
      <4>. QED
        BY <2>1, <3>4, <4>7 DEF EntityInv
    <3>. QED
      BY <3>3, <3>4
  <2>6. thread' # "none" /\ stack'[thread'] # <<>> /\ test' = test
    BY <1>1, <1>6, <2>1
  <2>7. (test \in Listeners => ListenerInv(thread)') /\ (test \in Entities => EntityInv(thread)')
    BY <2>4, <2>5
  <2>. HIDE DEF w
  <2>. QED
    BY <2>6, <2>7 DEF RunInv
<1>. QED
  BY <1>3, <1>5, <1>6

(* A step of a thread of the pool.                                         *)
LEMMA PoolRun ==
  ASSUME Typed, CallsInv, TextInvs, HeardInv, RunInv, NEW w \in Pool,
         Work(w) \/ EnterFails(w) \/ StartJob(w)
  PROVE  HeardInv' /\ RunInv'
<1>1. w \in Workers /\ w \notin Threads /\ Heard \subseteq DOMAIN results
  BY CallsAssumption DEF Workers, HeardInv
<1>2. thread \in Threads => thread \in Workers \ {w}
  BY <1>1 DEF Workers
<1>3. CASE Work(w) \/ EnterFails(w)
  <2>1. UNCHANGED <<results, test, thread, outcome>>
    BY <1>1, <1>3, PoolQuiet
  <2>2. ASSUME NEW j \in 1..Len(txs), txs[j].status \in Ended PROVE txs'[j] = txs[j]
    <3>1. j # current[w] => txs'[j] = txs[j]
      BY <1>1, <1>3, OwnTx
    <3>2. CASE j = current[w]
      <4>1. ~Alive(current[w])
        BY <2>2, <3>2 DEF Alive, Live, Ended
      <4>2. stack[w] # <<>> /\ Top(w).step = "after"
        BY <1>1, <4>1 DEF CallsInv, ThreadInv
      <4>. QED
        BY <1>1, <1>3, <4>2, OwnTx
    <3>. QED
      BY <3>1, <3>2
  <2>3. thread \in Threads =>
          /\ stack'[thread] = stack[thread] /\ current'[thread] = current[thread]
          /\ raised'[thread] = raised[thread]
          /\ \A i \in InUse(thread) : txs'[i] = txs[i]
    BY <1>1, <1>2, <1>3, OthersStay
  <2>. QED
    BY <1>1, <1>3, <2>1, <2>2, <2>3, DisturbedStays, RunKept
<1>4. CASE StartJob(w)
  <2>1. /\ UNCHANGED <<results, test, thread, outcome>> /\ UNCHANGED <<txs, current, raised>>
        /\ \E s : stack' = [stack EXCEPT ![w] = s]
    BY <1>4 DEF StartJob, suite
  <2>2. thread \in Threads => stack'[thread] = stack[thread]
    BY <1>2, <2>1 DEF Typed
  <2>3. thread \in Threads =>
          /\ stack'[thread] = stack[thread] /\ current'[thread] = current[thread]
          /\ raised'[thread] = raised[thread]
          /\ \A i \in InUse(thread) : txs'[i] = txs[i]
    BY <2>1, <2>2
  <2>4. \A j \in 1..Len(txs) : txs[j].status \in Ended => txs'[j] = txs[j]
    BY <2>1
  <2>. QED
    BY <1>1, <1>4, <2>1, <2>3, <2>4, DisturbedStays, RunKept
<1>. QED
  BY <1>3, <1>4

(* A step of the thread of the test.                                       *)
LEMMA TestRun ==
  ASSUME Typed, CallsInv, TextInvs, HeardInv, RunInv, NEW w \in Threads,
         Work(w) \/ EnterFails(w)
  PROVE  HeardInv' /\ RunInv'
<1>1. w \in Workers /\ w # "none" /\ stack[w] # <<>>
  <2>1. w \in Workers /\ w # "none"
    BY CallsAssumption DEF Workers
  <2>2. stack[w] # <<>>
    BY DEF Work, Enter, EnterFails, CallMethod, PersistEntity, StoreId, ExecuteUpdate, Register,
         BeginTx, CommitTx, CallAsynchronously, Sleep, NoteTransaction, Check, BeforeCompletion,
         Complete, AfterCompletion, LeaveOwner, LeaveJoined, LeaveCatch, Leaving, Return, AtOp,
         InBody
  <2>. QED
    BY <2>1, <2>2
<1>2. thread = w
  BY <1>1 DEF CallsInv, RunsThere
<1>3. HeardInv' /\ test' = test
  BY <1>1, <1>2, HeardByTest, OthersStay
<1>4. \/ thread' = "none"
      \/ thread' = w /\ stack'[w] # <<>>
  <2>1. Good(w)
    BY <1>1, EnterGood, OperationGood, CallGood, BeginGood, CompletionGood, LeaveGood, ReturnGood
       DEF Work
  <2>2. w \notin Pool
    BY CallsAssumption
  <2>3. thread' = thread \/ thread' = "none"
    BY <1>1, <1>2, <2>1, <2>2 DEF Good, ThreadStep
  <2>4. CASE Return(w)
    <3>1. CASE Leaves(w)
      BY <3>1 DEF Leaves
    <3>2. ASSUME NEW f \in Frames, Resumes(w, f) PROVE thread' = w /\ stack'[w] # <<>>
      <4>. DEFINE k == Len(stack[w]) - 2
      <4>1. thread' = thread /\ Stacked(w, k, f) /\ Len(stack[w]) >= 2
        BY <3>2 DEF Resumes
      <4>2. k \in Nat
        <5>1. Len(stack[w]) \in Nat
          BY <1>1, Flat
        <5>. QED
          BY <4>1, <5>1
      <4>. HIDE DEF k
      <4>3. stack'[w] # <<>>
        BY <1>1, <4>1, <4>2, StackedTop
      <4>. QED
        BY <1>2, <4>1, <4>3
    <3>. QED
      BY <1>1, <2>4, <3>1, <3>2, ReturnIs
  <2>5. CASE ~Return(w)
    <3>1. thread' = thread
      BY <1>1, <2>5, OthersStay
    <3>2. stack'[w] # <<>>
      <4>1. Top(w).step # "return"
        BY <2>5, Ops DEF Work, Enter, EnterFails, AtOp, InBody, BeforeCompletion, Complete,
           AfterCompletion, LeaveOwner, LeaveJoined, LeaveCatch, Leaving
      <4>2. ~Finishes(w)
        BY <4>1 DEF Finishes
      <4>3. PICK f \in Frames : \/ GoesOn(w, f) \/ Settles(w, f) \/ Changes(w, f) \/ Calls(w, f)
                               \/ ComesBack(w, f) \/ Starts(w, f)
        BY <2>1, <4>2 DEF Good, Kinds
      <4>4. ~ComesBack(w, f)
        BY <4>1 DEF ComesBack
      <4>5. \/ Stacked(w, Len(stack[w]) - 1, f) \/ Stacked(w, Len(stack[w]), f)
            \/ Stacked(w, 0, f)
        BY <4>3, <4>4 DEF GoesOn, Settles, Changes, Calls, Starts
      <4>6. Len(stack[w]) \in Nat \ {0}
        BY <1>1, Flat
      <4>7. Len(stack[w]) - 1 \in Nat /\ Len(stack[w]) \in Nat /\ 0 \in Nat
        BY <4>6
      <4>8. \E k \in Nat : Stacked(w, k, f)
        BY <4>5, <4>7, Zenon
      <4>. QED
        BY <1>1, <4>8, StackedTop
    <3>. QED
      BY <1>2, <3>1, <3>2
  <2>. QED
    BY <2>4, <2>5
<1>5. ASSUME test \in Listeners
      PROVE  \/ thread' = "none" /\ HeardCommit(outcome)'
             \/ thread' = w /\ stack'[w] # <<>> /\ ListenerInv(w)'
  <2>1. ListenerInv(w)
    BY <1>1, <1>2, <1>5 DEF RunInv
  <2>. QED
    BY <1>1, <1>2, <1>5, <2>1, ListenerTest, SynchronizerRun
<1>6. ASSUME test \in Entities
      PROVE  \/ thread' = "none" /\ Reported(outcome)'
             \/ thread' = w /\ stack'[w] # <<>> /\ EntityInv(w)'
  <2>1. EntityInv(w) /\ TextInv(w)
    BY <1>1, <1>2, <1>6 DEF RunInv, TextInvs
  <2>2. Len(stack[w]) = 1 \/ Len(stack[w]) = 2 \/ Len(stack[w]) = 3
    BY <1>1, <1>6, <2>1, CallerText
  <2>. QED
    BY <1>1, <1>2, <1>6, <2>1, <2>2, EntityTest, CallerRun, CreatorRun
<1>7. CASE thread' = "none"
  BY <1>1, <1>3, <1>5, <1>6, <1>7 DEF RunInv
<1>8. CASE thread' = w /\ stack'[w] # <<>>
  <2>1. (test \in Listeners => ListenerInv(w)') /\ (test \in Entities => EntityInv(w)')
    BY <1>1, <1>5, <1>6, <1>8
  <2>. QED
    BY <1>1, <1>3, <1>8, <2>1 DEF RunInv
<1>. QED
  BY <1>4, <1>7, <1>8

(* The start of a test.                                                    *)
LEMMA StartRun ==
  ASSUME Typed, CallsInv, TextInvs, HeardInv, NEW t \in DOMAIN Tests, NEW w \in Threads,
         StartTest(t, w)
  PROVE  HeardInv' /\ RunInv'
<1>. DEFINE left == current[w]
            cleared == IF t \in DOMAIN AsynchronousCallTestCase THEN results ELSE NoResults
<1>1. /\ w \in Workers /\ w # "none" /\ thread = "none" /\ stack[w] = <<>>
      /\ raised[w] = "none" /\ raised' = raised
      /\ thread' = w /\ test' = t
  BY StartIs, CallsAssumption DEF StartTest, TextInvs, TextInv, Workers
<1>2. PICK f \in Frames : /\ Stacked(w, 0, f) /\ f.method = t /\ f.pc = 1
                          /\ f.step = "body" /\ ~f.owner
  BY StartIs
<1>3. stack'[w] # <<>> /\ Len(stack'[w]) = 1 /\ Top(w)' = f
  <2>. DEFINE k == 0
  <2>1. Stacked(w, k, f) /\ k \in Nat
    BY <1>2
  <2>. HIDE DEF k
  <2>2. stack'[w] # <<>> /\ Len(stack'[w]) = k + 1 /\ Top(w)' = f
    BY <1>1, <2>1, StackedTop
  <2>. QED
    BY <2>2 DEF k
<1>4. /\ \/ /\ left # 0 /\ t \notin Listeners /\ current'[w] = 0
            /\ results' = AfterHeard(cleared, txs[left].listeners, "rolledback")
         \/ (left = 0 \/ t \in Listeners) /\ results' = cleared /\ current' = current
  <2>1. current \in [Workers -> 0..Len(txs)]
    BY DEF Typed
  <2>. HIDE DEF cleared
  <2>. QED
    BY <1>1, <2>1 DEF StartTest, cleared
<1>5. /\ Heard \subseteq DOMAIN cleared /\ "id" \in DOMAIN cleared
      /\ cleared.committed = "yes" <=> cleared.afterCompletion = "committed"
      /\ cleared.before # "none" => cleared.after # "none"
      /\ cleared.beforeCompletion # "none" => cleared.afterCompletion # "none"
  <2>1. CASE t \in DOMAIN AsynchronousCallTestCase
    <3>1. \A l : ~Completing(l)
      BY <1>1, CallsAssumption DEF Completing
    <3>2. cleared = results
      BY <2>1
    <3>. HIDE DEF cleared
    <3>. QED
      BY <3>1, <3>2 DEF HeardInv, Typed
  <2>2. CASE t \notin DOMAIN AsynchronousCallTestCase
    BY <2>2 DEF NoResults, Heard
  <2>. QED
    BY <2>1, <2>2
<1>6. t \in Listeners \union Entities => cleared = NoResults
  BY DEF AsynchronousCallTestCase, Listeners, Entities, OnDatasourceConnectionFailTestCase
<1>. HIDE DEF cleared
<1>7. /\ Heard \subseteq DOMAIN results'
      /\ results'.committed = "yes" <=> results'.afterCompletion = "committed"
      /\ results'.before # "none" => results'.after # "none"
      /\ results'.beforeCompletion # "none" => results'.afterCompletion # "none"
      /\ results'.id = cleared.id
  <2>1. CASE results' = cleared
    BY <1>5, <2>1
  <2>2. CASE results' = AfterHeard(cleared, txs[left].listeners, "rolledback")
    <3>. DEFINE ls == txs[left].listeners
                r == cleared
    <3>1. r.id = AfterHeard(r, ls, "rolledback").id
      BY <1>5, IdKept
    <3>. HIDE DEF ls, r
    <3>2. LET a == AfterHeard(r, ls, "rolledback")
          IN /\ Heard \subseteq DOMAIN a /\ a.before = r.before
             /\ a.beforeCompletion = r.beforeCompletion
             /\ a.after = IF "listener" \in ls THEN "rolledback" ELSE r.after
             /\ a.afterCompletion = IF "session" \in ls THEN "rolledback" ELSE r.afterCompletion
             /\ a.committed = IF "session" \in ls
                                THEN IF "rolledback" = "committed" THEN "yes" ELSE "no"
                                ELSE r.committed
      <4>1. Heard \subseteq DOMAIN r
        BY <1>5 DEF r
      <4>. QED
        BY <4>1, HeardBy
    <3>3. results' = AfterHeard(r, ls, "rolledback")
      BY <2>2 DEF r, ls
    <3>. QED
      BY <1>5, <3>1, <3>2, <3>3 DEF r
  <2>. QED
    BY <1>4, <2>1, <2>2
<1>8. HeardInv'
  BY <1>7 DEF HeardInv
<1>9. ASSUME t \in Listeners PROVE ListenerInv(w)'
  <2>1. results' = NoResults
    BY <1>4, <1>6, <1>9
  <2>2. results'.after = "none"
    BY <2>1 DEF NoResults
  <2>. QED
    BY <1>1, <1>2, <1>3, <2>2 DEF ListenerInv, HeardCommit
<1>10. ASSUME t \in Entities PROVE EntityInv(w)'
  <2>1. t \notin Listeners
    BY <1>10 DEF Listeners, Entities, OnDatasourceConnectionFailTestCase
  <2>2. current'[w] = 0
    BY <1>4, <2>1
  <2>3. results'.id = 0
    BY <1>6, <1>7, <1>10 DEF NoResults
  <2>. QED
    BY <1>1, <1>2, <1>3, <2>2, <2>3 DEF EntityInv, TestCourse
<1>. QED
  BY <1>1, <1>3, <1>8, <1>9, <1>10 DEF RunInv

-----------------------------------------------------------------------------
(* Theorems                                                                *)

ReportInv == TextInvs /\ HeardInv /\ RunInv

(* Before the first test nothing has been reported.                        *)
LEMMA ReportInit ==
  Init => ReportInv
<1>. SUFFICES ASSUME Init PROVE ReportInv
  OBVIOUS
<1>1. /\ test = "none" /\ thread = "none" /\ stack = [w \in Workers |-> <<>>]
      /\ current = [w \in Workers |-> 0] /\ raised = [w \in Workers |-> "none"]
      /\ txs = <<>> /\ jobs = <<>> /\ results = NoResults
  BY DEF Init
<1>2. TextInvs
  BY <1>1 DEF TextInvs, TextInv, Unheard
<1>3. HeardInv
  BY <1>1 DEF HeardInv, NoResults, Heard
<1>4. RunInv
  BY <1>1 DEF RunInv, Listeners, Entities, OnDatasourceConnectionFailTestCase
<1>. QED
  BY <1>2, <1>3, <1>4 DEF ReportInv

(* Every step keeps the course of the test that runs.                      *)
LEMMA ReportInductive ==
  Typed /\ CallsInv /\ ReportInv /\ [Next]_vars => ReportInv'
<1>. SUFFICES ASSUME Typed, CallsInv, TextInvs, HeardInv, RunInv, [Next]_vars
              PROVE  TextInvs' /\ HeardInv' /\ RunInv'
  BY DEF ReportInv
<1>1. ASSUME NEW t \in DOMAIN Tests, NEW w \in Threads, StartTest(t, w)
      PROVE  TextInvs' /\ HeardInv' /\ RunInv'
  BY <1>1, StartText, StartRun
<1>2. ASSUME NEW w \in Workers, Work(w) \/ EnterFails(w)
      PROVE  TextInvs' /\ HeardInv' /\ RunInv'
  <2>1. TextInvs'
    BY <1>2, WorkText
  <2>2. HeardInv' /\ RunInv'
    BY <1>2, TestRun, PoolRun DEF Workers
  <2>. QED
    BY <2>1, <2>2
<1>3. ASSUME NEW w \in Pool, StartJob(w)
      PROVE  TextInvs' /\ HeardInv' /\ RunInv'
  BY <1>3, StartText, PoolRun
<1>4. CASE UNCHANGED vars
  <2>1. /\ UNCHANGED <<test, thread, stack, current, raised, outcome>>
        /\ UNCHANGED <<txs, jobs, results, disturbed>>
    BY <1>4 DEF vars
  <2>2. TextInvs'
    <3>1. ASSUME NEW v \in Workers PROVE TextInv(v)'
      <4>1. TextInv(v)
        BY DEF TextInvs
      <4>. QED
        BY <2>1, <4>1, OtherText
    <3>2. (jobs \in Seq({"beingCalled"} \X Nat))'
      BY <2>1 DEF TextInvs
    <3>. QED
      BY <3>1, <3>2 DEF TextInvs
  <2>3. HeardInv' /\ RunInv'
    BY <2>1, RunKept
  <2>. QED
    BY <2>2, <2>3
<1>. QED
  BY <1>1, <1>2, <1>3, <1>4 DEF Next

(* The course of every test, for any threads, pool, tests and faults: each *)
(* call goes where its text says, a completion that is announced goes on,  *)
(* a commit is heard last of all, and an identifier is stored only for an  *)
(* entity in a transaction whose end the caller is told.                   *)
THEOREM ReportInvariant == Spec => []ReportInv
<1>1. Init => Typed /\ CallsInv /\ ReportInv
  BY CallsInit, ReportInit
<1>2. (Typed /\ CallsInv /\ ReportInv) /\ [Next]_vars => (Typed /\ CallsInv /\ ReportInv)'
  BY CallsInductive, ReportInductive
<1>. QED
  BY <1>1, <1>2, PTL DEF Spec

(* ReportsAgree: whoever called CallerBean without an exception finds its  *)
(* entity committed, whoever got one finds it in the database only if the  *)
(* commit itself has failed, and the listeners hear what the caller hears, *)
(* however the tests, the asynchronous methods and the faults interleave.  *)
THEOREM ReportsAgreeHolds == Spec => []ReportsAgree
<1>1. Typed /\ ReportInv => ReportsAgree
  <2>. SUFFICES ASSUME Typed, HeardInv, RunInv, HasEnded PROVE EntityAsReported /\ CallbacksAgree
    BY DEF ReportInv, ReportsAgree, EntityAsReported, CallbacksAgree
  <2>1. thread = "none" /\ thread \notin Threads
    BY CallsAssumption DEF HasEnded
  <2>2. /\ test \in Listeners => HeardCommit(outcome)
        /\ test \in Entities => Reported(outcome)
    BY <2>1 DEF RunInv
  <2>3. \A l : ~Completing(l)
    BY <2>1 DEF Completing
  <2>4. EntityAsReported
    <3>1. Entities = {"testRethrow", "testCatch", "testNewTxn"}
      BY DEF Entities, OnDatasourceConnectionFailTestCase
    <3>. QED
      BY <2>2, <3>1 DEF EntityAsReported, InDatabase, Reported, Told, Void
  <2>5. CallbacksAgree
    BY <2>2, <2>3 DEF CallbacksAgree, HeardInv, HeardCommit
  <2>. QED
    BY <2>4, <2>5
<1>. QED
  BY <1>1, CallsInvariant, ReportInvariant, PTL

=============================================================================
