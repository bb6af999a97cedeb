--------------------------- MODULE JmsSessionProofs ---------------------------
(***************************************************************************)
(* LeavesNothing and AssertionsHold of JmsSession, for any number of tests, *)
(* faults and kills.                                                       *)
(*                                                                         *)
(* The invariant says where a test that nothing has disturbed is.  In its  *)
(* setUp (SetUpInv) a null received means that the queue is empty.  After  *)
(* it the test is in a phase of its course (CourseInv): what its session   *)
(* has sent and taken, the consumers it has, and which message is on its   *)
(* way, in the queue or in the buffer of the consumer that can have it.    *)
(* The argument has four parts: each test has a course, from a broker      *)
(* without messages of it to one without (CoursesExist); a call that the   *)
(* broker serves leads from phase to phase (PhaseServed); a delivery,      *)
(* whenever it comes, leaves the phase as it is (PhaseDelivered); and in a *)
(* phase the assertions find what they expect (CourseAsserts).             *)
(*                                                                         *)
(* transactedWithRollback has a course up to its last commit only, which   *)
(* puts its message + "2" on the broker (OnlySecond).                      *)
(***************************************************************************)
EXTENDS JmsSession, SequenceTheorems, WellFoundedInduction, TLAPS

-----------------------------------------------------------------------------
(* The texts of the tests                                                  *)

(* The calls of a test after its setUp.                                    *)
BodyCalls ==
  { <<"getConnection">>, <<"start">>, <<"stop">>, <<"acknowledge">>, <<"commit">>,
    <<"rollback">>, <<"close">>, <<"assertNull">> }
    \union {"createSession"} \X Sessions \X Modes
    \union {"createConsumer", "receive", "closeSession"} \X Sessions
    \union {"send", "assertText"} \X {1, 2}

(* A receive follows the creation of its consumer.                         *)
WellMade(c) ==
  /\ c \in Seq(BodyCalls)
  /\ \A i \in DOMAIN c : c[i][1] = "receive" =>
       i > 1 /\ c[i - 1] = <<"createConsumer", c[i][2]>>

(* c is a followed by b, position by position.                             *)
Joins(c, a, b) ==
  /\ Len(c) = Len(a) + Len(b)
  /\ \A i \in 1..Len(a) : c[i] = a[i]
  /\ \A i \in 1..Len(b) : c[Len(a) + i] = b[i]

(* What two pieces of a script make.                                       *)
LEMMA Joined ==
  ASSUME NEW S, NEW a \in Seq(S), NEW b \in Seq(S)
  PROVE  a \o b \in Seq(S) /\ Joins(a \o b, a, b)
<1>1. a \o b \in Seq(S) /\ Len(a \o b) = Len(a) + Len(b)
      /\ \A i \in 1..Len(a) + Len(b) :
           (a \o b)[i] = IF i <= Len(a) THEN a[i] ELSE b[i - Len(a)]
  BY ConcatProperties
<1>2. Len(a) \in Nat /\ Len(b) \in Nat
  OBVIOUS
<1>3. \A i \in 1..Len(b) : Len(a) + i \in 1..Len(a) + Len(b) /\ ~(Len(a) + i <= Len(a))
                           /\ Len(a) + i - Len(a) = i
  BY <1>2
<1>. QED
  BY <1>1, <1>2, <1>3 DEF Joins

(* Two well-made pieces make a well-made script.                           *)
LEMMA WellMadeJoined ==
  ASSUME NEW a, NEW b, WellMade(a), WellMade(b)
  PROVE  WellMade(a \o b)
<1>1. a \in Seq(BodyCalls) /\ b \in Seq(BodyCalls)
  BY DEF WellMade
<1>. DEFINE A == Len(a)  c == a \o b
<1>2. /\ c \in Seq(BodyCalls) /\ Len(c) = A + Len(b) /\ A \in Nat /\ Len(b) \in Nat
      /\ \A i \in 1..A : c[i] = a[i]
      /\ \A i \in 1..Len(b) : c[A + i] = b[i]
  BY <1>1, Joined DEF Joins
<1>3. /\ \A i \in 1..A : a[i][1] = "receive" =>
           i > 1 /\ a[i - 1] = <<"createConsumer", a[i][2]>>
      /\ \A i \in 1..Len(b) : b[i][1] = "receive" =>
           i > 1 /\ b[i - 1] = <<"createConsumer", b[i][2]>>
  BY <1>1 DEF WellMade
<1>. HIDE DEF c, A, BodyCalls
<1>4. ASSUME NEW i \in 1..Len(c), c[i][1] = "receive"
      PROVE  i > 1 /\ c[i - 1] = <<"createConsumer", c[i][2]>>
  <2>1. CASE i <= A
    <3>1. i \in 1..A /\ a[i][1] = "receive" /\ c[i] = a[i]
      BY <1>2, <1>4, <2>1
    <3>2. i > 1 /\ a[i - 1] = <<"createConsumer", a[i][2]>>
      BY <1>3, <3>1
    <3>3. i - 1 \in 1..A
      BY <3>1, <3>2, <1>2
    <3>. QED
      BY <3>1, <3>2, <3>3, <1>2
  <2>2. CASE ~(i <= A)
    <3>. DEFINE j == i - A
    <3>1. j \in 1..Len(b) /\ i = A + j
      BY <1>2, <2>2
    <3>. HIDE DEF j
    <3>2. c[i] = b[j]
      BY <3>1, <1>2
    <3>3. j > 1 /\ b[j - 1] = <<"createConsumer", b[j][2]>>
      BY <3>1, <3>2, <1>3, <1>4
    <3>4. j - 1 \in 1..Len(b) /\ A + (j - 1) = i - 1 /\ i > 1
      BY <3>1, <3>3, <1>2
    <3>5. c[i - 1] = b[j - 1]
      BY <3>4, <1>2
    <3>. QED
      BY <3>2, <3>3, <3>4, <3>5
  <2>. QED
    BY <2>1, <2>2
<1>5. WellMade(c)
  BY <1>2, <1>4 DEF WellMade
<1>. QED
  BY <1>5 DEF c

(* A call that is no receive is a well-made piece.                         *)
LEMMA CallWellMade ==
  ASSUME NEW call \in BodyCalls, call[1] # "receive"
  PROVE  WellMade(<<call>>)
  BY DEF WellMade

(* The calls the tests are made of are calls.                              *)
LEMMA CallsKnown ==
  /\ \A op \in {"getConnection", "start", "stop", "acknowledge", "commit", "rollback",
                "close", "assertNull"} : <<op>> \in BodyCalls /\ <<op>>[1] = op
  /\ \A s \in Sessions, mode \in Modes :
       <<"createSession", s, mode>> \in BodyCalls
  /\ \A s \in Sessions :
       /\ <<"createConsumer", s>> \in BodyCalls
       /\ <<"receive", s>> \in BodyCalls
       /\ <<"closeSession", s>> \in BodyCalls
  /\ \A k \in {1, 2} : <<"send", k>> \in BodyCalls /\ <<"assertText", k>> \in BodyCalls
  BY DEF BodyCalls

(* The pieces of the tests are well made.                                  *)
LEMMA PiecesWellMade ==
  /\ \A k \in {1, 2} : WellMade(SendMessage(k)) /\ WellMade(AssertText(k))
  /\ \A s \in Sessions : WellMade(ReceiveMessage(s)) /\ WellMade(CloseSession(s))
  /\ \A s \in Sessions, mode \in Modes : WellMade(CreateSession(s, mode))
  /\ \A op \in {"getConnection", "start", "stop", "acknowledge", "commit", "rollback",
                "close", "assertNull"} : WellMade(Do(op))
  /\ WellMade(Reconnect)
  /\ WellMade(<< <<"start">>, <<"createConsumer", "session">>, <<"receive", "session">>,
                 <<"commit">>, <<"stop">> >>)
<1>1. \A k \in {1, 2} : WellMade(SendMessage(k)) /\ WellMade(AssertText(k))
  BY CallsKnown, CallWellMade DEF SendMessage, AssertText
<1>2. \A s \in Sessions : WellMade(CloseSession(s))
  BY CallsKnown, CallWellMade DEF CloseSession
<1>3. \A s \in Sessions, mode \in Modes : WellMade(CreateSession(s, mode))
  BY CallsKnown, CallWellMade DEF CreateSession
<1>4. \A op \in {"getConnection", "start", "stop", "acknowledge", "commit", "rollback",
                "close", "assertNull"} : WellMade(Do(op))
  BY CallsKnown, CallWellMade DEF Do
<1>5. ASSUME NEW s \in Sessions PROVE WellMade(ReceiveMessage(s))
  <2>. HIDE DEF BodyCalls
  <2>a. /\ <<"start">> \in BodyCalls /\ <<"stop">> \in BodyCalls
        /\ <<"createConsumer", s>> \in BodyCalls /\ <<"receive", s>> \in BodyCalls
    BY CallsKnown
  <2>1. ReceiveMessage(s) \in Seq(BodyCalls)
    BY <2>a DEF ReceiveMessage
  <2>. QED
    BY <2>1 DEF WellMade, ReceiveMessage
<1>6. WellMade(Reconnect)
  <2>1. Reconnect \in Seq(BodyCalls)
    BY CallsKnown DEF Reconnect
  <2>. QED
    BY <2>1 DEF WellMade, Reconnect
<1>7. WellMade(<< <<"start">>, <<"createConsumer", "session">>, <<"receive", "session">>,
                 <<"commit">>, <<"stop">> >>)
  <2>. DEFINE c == << <<"start">>, <<"createConsumer", "session">>, <<"receive", "session">>,
                 <<"commit">>, <<"stop">> >>
  <2>1. c \in Seq(BodyCalls)
    BY CallsKnown DEF Sessions
  <2>. QED
    BY <2>1 DEF WellMade
<1>. QED
  BY <1>1, <1>2, <1>3, <1>4, <1>5, <1>6, <1>7

(* Each test is well made.                                                 *)
LEMMA BodiesWellMade == \A t \in Tests : WellMade(Bodies[t])
<1>. DEFINE J == \A a, b : WellMade(a) /\ WellMade(b) => WellMade(a \o b)
<1>1. J
  BY WellMadeJoined
<1>2. /\ {"session", "helper"} = Sessions
      /\ {"AUTO", "DUPS_OK", "CLIENT", "TRANSACTED"} = Modes
  BY DEF Sessions, Modes
<1>3. WellMade(GetMessageFromQueue)
  BY <1>1, <1>2, PiecesWellMade DEF GetMessageFromQueue
<1>4. WellMade(CheckQueue(1)) /\ WellMade(CheckQueueIsEmpty)
  BY <1>1, <1>2, <1>3, PiecesWellMade DEF CheckQueue, CheckQueueIsEmpty
<1>5. WellMade(HowTo)
  BY <1>1, <1>2, PiecesWellMade DEF HowTo
<1>6. WellMade(SessionWithAutoAck)
  BY <1>1, <1>2, <1>4, PiecesWellMade DEF SessionWithAutoAck
<1>7. WellMade(SessionWithDuplAck)
  BY <1>1, <1>2, PiecesWellMade DEF SessionWithDuplAck
<1>8. WellMade(SessionWithClientAck)
  BY <1>1, <1>2, <1>4, PiecesWellMade DEF SessionWithClientAck
<1>9. WellMade(SessionTransacted)
  BY <1>1, <1>2, <1>4, PiecesWellMade DEF SessionTransacted
<1>10. WellMade(TransactionChaining)
  BY <1>1, <1>2, <1>4, PiecesWellMade DEF TransactionChaining
<1>11. WellMade(TransactedWithRollback)
  BY <1>1, <1>2, <1>4, PiecesWellMade DEF TransactedWithRollback
<1>12. WellMade(TransactedWithConnectionClosed)
  BY <1>1, <1>2, <1>4, PiecesWellMade DEF TransactedWithConnectionClosed
<1>. QED
  BY <1>5, <1>6, <1>7, <1>8, <1>9, <1>10, <1>11, <1>12 DEF Tests, Bodies

(* All calls of the scripts.                                               *)
Calls == BodyCalls \union { <<"whileReceived">> }

(* setUp, position by position.                                            *)
LEMMA SetUpText ==
  /\ SetUp \in Seq(Calls) /\ Len(SetUp) = 8
  /\ SetUp[1] = <<"getConnection">>
  /\ SetUp[2] = <<"createSession", "helper", "AUTO">>
  /\ SetUp[3] = <<"start">>
  /\ SetUp[4] = <<"createConsumer", "helper">>
  /\ SetUp[5] = <<"receive", "helper">>
  /\ SetUp[6] = <<"stop">>
  /\ SetUp[7] = <<"closeSession", "helper">>
  /\ SetUp[8] = <<"whileReceived">>
<1>1. /\ <<"getConnection">> \in Calls /\ <<"start">> \in Calls /\ <<"stop">> \in Calls
      /\ <<"createSession", "helper", "AUTO">> \in Calls
      /\ <<"createConsumer", "helper">> \in Calls /\ <<"receive", "helper">> \in Calls
      /\ <<"closeSession", "helper">> \in Calls /\ <<"whileReceived">> \in Calls
  BY CallsKnown DEF Calls, Sessions, Modes
<1>. HIDE DEF Calls
<1>. DEFINE g == Do("getConnection")       c == CreateSession("helper", "AUTO")
            r == ReceiveMessage("helper")  e == CloseSession("helper")
            w == Do("whileReceived")       cr == c \o r
            cre == cr \o e                 gcre == g \o cre
<1>2. /\ g \in Seq(Calls) /\ Len(g) = 1 /\ g[1] = <<"getConnection">>
      /\ w \in Seq(Calls) /\ Len(w) = 1 /\ w[1] = <<"whileReceived">>
  BY <1>1 DEF Do
<1>3. c \in Seq(Calls) /\ Len(c) = 1 /\ c[1] = <<"createSession", "helper", "AUTO">>
  BY <1>1 DEF CreateSession
<1>4. e \in Seq(Calls) /\ Len(e) = 1 /\ e[1] = <<"closeSession", "helper">>
  BY <1>1 DEF CloseSession
<1>5. /\ r \in Seq(Calls) /\ Len(r) = 4
      /\ r[1] = <<"start">> /\ r[2] = <<"createConsumer", "helper">>
      /\ r[3] = <<"receive", "helper">> /\ r[4] = <<"stop">>
  BY <1>1 DEF ReceiveMessage
<1>. HIDE DEF g, c, r, e, w
<1>6. /\ cr \in Seq(Calls) /\ Len(cr) = 5 /\ cr[1] = c[1]
      /\ cr[1 + 1] = r[1] /\ cr[1 + 2] = r[2] /\ cr[1 + 3] = r[3] /\ cr[1 + 4] = r[4]
  BY <1>3, <1>5, Joined DEF Joins
<1>. HIDE DEF cr
<1>7a. cre \in Seq(Calls) /\ Joins(cre, cr, e)
  BY <1>4, <1>6, Joined
<1>. HIDE DEF cre
<1>7. /\ cre \in Seq(Calls) /\ Len(cre) = 6 /\ \A i \in 1..5 : cre[i] = cr[i]
      /\ cre[5 + 1] = e[1]
  BY <1>4, <1>6, <1>7a DEF Joins
<1>8a. gcre \in Seq(Calls) /\ Joins(gcre, g, cre)
  BY <1>2, <1>7, Joined
<1>. HIDE DEF gcre
<1>8. /\ gcre \in Seq(Calls) /\ Len(gcre) = 7 /\ gcre[1] = g[1]
      /\ \A i \in 1..6 : gcre[1 + i] = cre[i]
  BY <1>2, <1>7, <1>8a DEF Joins
<1>9. SetUp = gcre \o w
  BY DEF SetUp, GetMessageFromQueue, gcre, cre, cr, g, c, r, e, w
<1>10a. SetUp \in Seq(Calls) /\ Joins(SetUp, gcre, w)
  BY <1>2, <1>8, <1>9, Joined
<1>10. /\ SetUp \in Seq(Calls) /\ Len(SetUp) = 8
       /\ \A i \in 1..7 : SetUp[i] = gcre[i]
       /\ SetUp[7 + 1] = w[1]
  BY <1>2, <1>8, <1>10a DEF Joins
<1>11. /\ SetUp[1] = gcre[1] /\ SetUp[2] = gcre[1 + 1] /\ SetUp[3] = gcre[1 + 2]
       /\ SetUp[4] = gcre[1 + 3] /\ SetUp[5] = gcre[1 + 4] /\ SetUp[6] = gcre[1 + 5]
       /\ SetUp[7] = gcre[1 + 6] /\ SetUp[8] = w[1]
  BY <1>10
<1>12. /\ SetUp[2] = cre[1] /\ SetUp[3] = cre[2] /\ SetUp[4] = cre[3]
       /\ SetUp[5] = cre[4] /\ SetUp[6] = cre[5] /\ SetUp[7] = cre[6]
  BY <1>8, <1>11
<1>13. cre[1] = c[1] /\ cre[2] = r[1] /\ cre[3] = r[2] /\ cre[4] = r[3] /\ cre[5] = r[4]
       /\ cre[6] = e[1]
  BY <1>6, <1>7
<1>. QED
  BY <1>2, <1>3, <1>4, <1>5, <1>8, <1>10, <1>11, <1>12, <1>13

(* A script is setUp, the body of its test and the close of tearDown.      *)
LEMMA ScriptText ==
  ASSUME NEW t \in Tests
  PROVE  /\ Scripts[t] \in Seq(Calls)
         /\ Bodies[t] \in Seq(BodyCalls)
         /\ Len(Scripts[t]) = Len(Bodies[t]) + 9
         /\ \A i \in 1..8 : Scripts[t][i] = SetUp[i]
         /\ \A i \in 1..Len(Bodies[t]) : Scripts[t][8 + i] = Bodies[t][i]
         /\ Scripts[t][Len(Bodies[t]) + 9] = <<"close">>
<1>. DEFINE b == Bodies[t]  a == SetUp \o b  c == TearDown
<1>1. b \in Seq(Calls) /\ b \in Seq(BodyCalls)
  <2>1. b \in Seq(BodyCalls)
    BY BodiesWellMade DEF WellMade
  <2>2. BodyCalls \subseteq Calls
    BY DEF Calls
  <2>. HIDE DEF b, Calls, BodyCalls
  <2>. QED
    BY <2>1, <2>2, SeqMonotonic
<1>2. c \in Seq(Calls) /\ Len(c) = 1 /\ c[1] = <<"close">>
  <2>1. <<"close">> \in Calls
    BY CallsKnown DEF Calls
  <2>. HIDE DEF Calls
  <2>. QED
    BY <2>1 DEF TearDown, Do
<1>3. Scripts[t] = a \o c
  BY DEF Scripts
<1>. HIDE DEF b, c, Calls, BodyCalls
<1>4a. a \in Seq(Calls) /\ Joins(a, SetUp, b)
  BY <1>1, SetUpText, Joined
<1>. HIDE DEF a
<1>4. /\ a \in Seq(Calls) /\ Len(a) = 8 + Len(b)
      /\ \A i \in 1..8 : a[i] = SetUp[i]
      /\ \A i \in 1..Len(b) : a[8 + i] = b[i]
  BY <1>1, SetUpText, <1>4a DEF Joins
<1>5a. Scripts[t] \in Seq(Calls) /\ Joins(Scripts[t], a, c)
  BY <1>2, <1>3, <1>4, Joined
<1>5. /\ Scripts[t] \in Seq(Calls) /\ Len(Scripts[t]) = Len(a) + 1
      /\ \A i \in 1..Len(a) : Scripts[t][i] = a[i]
      /\ Scripts[t][Len(a) + 1] = c[1]
  BY <1>2, <1>4, <1>5a DEF Joins
<1>6. Len(b) \in Nat
  BY <1>1
<1>7. Len(a) + 1 = Len(b) + 9
  BY <1>4, <1>6
<1>8. \A i \in 1..8 : i \in 1..Len(a)
  BY <1>4, <1>6
<1>9. \A i \in 1..Len(b) : 8 + i \in 1..Len(a)
  BY <1>4, <1>6
<1>. QED
  BY <1>1, <1>2, <1>4, <1>5, <1>7, <1>8, <1>9 DEF b

-----------------------------------------------------------------------------
(* The course of a test that nothing disturbs                              *)

(* How far a test is after its setUp, whatever the broker has done so far:  *)
(* the mode of its session, which of its two messages that session has sent *)
(* and not committed or received and not acknowledged, the consumers of the *)
(* session, the same of the session of its helpers, the message that is on *)
(* its way to a consumer, and the one received last.  0 is no message.     *)
Fresh ==
  [mode |-> "closed", sent |-> 0, taken |-> 0, n |-> 0,
   helper |-> "closed", htaken |-> 0, hn |-> 0, flight |-> 0, got |-> 0]

Phases ==
  [mode : Modes \union {"closed"}, sent : 0..2, taken : 0..2, n : Nat,
   helper : {"AUTO", "closed"}, htaken : 0..2, hn : Nat, flight : 0..2, got : 0..2]

(* A message on its way has one consumer to go to, at most.                *)
Sole(p) == p.flight = 0 \/ p.n + p.hn <= 1

Automatic == {"AUTO", "DUPS_OK"}

(* q is p except for some of its fields.                                   *)
Fields == {"mode", "sent", "taken", "n", "helper", "htaken", "hn", "flight", "got"}
Alters(p, q, fields) == \A x \in Fields \ fields : q[x] = p[x]

(* What a call makes of a phase.  The tests make no call in a phase that   *)
(* none of these admits.                                                   *)
LeadsOpening(c, p, q) ==
  \/ /\ c[2] = "session" /\ p.mode = "closed" /\ p.sent = 0 /\ p.taken = 0 /\ p.n = 0
     /\ q.mode = c[3] /\ Alters(p, q, {"mode"})
  \/ /\ c[2] = "helper" /\ p.helper = "closed" /\ p.htaken = 0 /\ p.hn = 0
     /\ c[3] = "AUTO" /\ q.helper = "AUTO" /\ Alters(p, q, {"helper"})

LeadsSending(c, p, q) ==
  \/ /\ p.mode = "TRANSACTED" /\ p.sent = 0
     /\ q.sent = c[2] /\ Alters(p, q, {"sent"})
  \/ /\ p.mode # "TRANSACTED" /\ p.flight = 0
     /\ q.flight = c[2] /\ Alters(p, q, {"flight"})

LeadsConsuming(c, p, q) ==
  \/ c[2] = "session" /\ q.n = p.n + 1 /\ Alters(p, q, {"n"})
  \/ c[2] = "helper" /\ q.hn = p.hn + 1 /\ Alters(p, q, {"hn"})

LeadsReceiving(c, p, q) ==
  /\ q.flight = 0 /\ q.got = p.flight
  /\ \/ p.flight = 0 /\ Alters(p, q, {"got"})
     \/ /\ p.flight # 0 /\ c[2] = "session" /\ p.n = 1 /\ p.taken = 0
        /\ q.taken = p.flight /\ Alters(p, q, {"got", "taken", "flight"})
     \/ /\ p.flight # 0 /\ c[2] = "helper" /\ p.hn = 1 /\ p.htaken = 0
        /\ q.htaken = p.flight /\ Alters(p, q, {"got", "htaken", "flight"})

LeadsCommitting(p, q) ==
  /\ q.sent = 0 /\ q.taken = 0 /\ Alters(p, q, {"sent", "taken", "flight"})
  /\ \/ p.sent = 0 /\ q.flight = p.flight
     \/ p.sent # 0 /\ p.flight = 0 /\ q.flight = p.sent

LeadsRollingBack(p, q) ==
  /\ p.flight = 0 /\ q.flight = p.taken
  /\ q.sent = 0 /\ q.taken = 0 /\ Alters(p, q, {"sent", "taken", "flight"})

LeadsClosing(c, p, q) ==
  \/ /\ c[2] = "session" /\ (p.n = 0 \/ p.flight = 0)
     /\ p.mode \in Automatic \/ p.taken = 0
     /\ q.mode = "closed" /\ q.sent = 0 /\ q.taken = 0 /\ q.n = 0
     /\ Alters(p, q, {"mode", "sent", "taken", "n"})
  \/ /\ c[2] = "helper" /\ (p.hn = 0 \/ p.flight = 0)
     /\ p.helper = "AUTO" \/ p.htaken = 0
     /\ q.helper = "closed" /\ q.htaken = 0 /\ q.hn = 0
     /\ Alters(p, q, {"helper", "htaken", "hn"})

(* What has not been acknowledged goes back to the queue.                  *)
LeadsReconnecting(p, q) ==
  /\ p.helper = "closed" /\ p.htaken = 0 /\ p.hn = 0
  /\ Alters(Fresh, q, {"flight"})
  /\ \/ p.taken # 0 /\ p.mode \notin Automatic /\ p.flight = 0 /\ q.flight = p.taken
     \/ (p.taken = 0 \/ p.mode \in Automatic) /\ q.flight = p.flight

Leads(c, p, q) ==
  /\ Sole(q)
  /\ \/ c[1] \in {"getConnection", "start", "stop"} /\ q = p
     \/ c[1] = "createSession" /\ LeadsOpening(c, p, q)
     \/ c[1] = "send" /\ LeadsSending(c, p, q)
     \/ c[1] = "createConsumer" /\ LeadsConsuming(c, p, q)
     \/ c[1] = "receive" /\ LeadsReceiving(c, p, q)
     \/ c[1] = "acknowledge" /\ q.taken = 0 /\ Alters(p, q, {"taken"})
     \/ c[1] = "commit" /\ LeadsCommitting(p, q)
     \/ c[1] = "rollback" /\ LeadsRollingBack(p, q)
     \/ c[1] = "closeSession" /\ LeadsClosing(c, p, q)
     \/ c[1] = "close" /\ LeadsReconnecting(p, q)
     \/ c[1] = "assertText" /\ p.got = c[2] /\ q = p
     \/ c[1] = "assertNull" /\ p.got = 0 /\ q = p

(* f is a course of the calls c from phase p to phase q.                   *)
Course(c, f, p, q) ==
  /\ f \in [1..Len(c) + 1 -> Phases]
  /\ f[1] = p /\ f[Len(c) + 1] = q
  /\ \A i \in 1..Len(c) : Leads(c[i], f[i], f[i + 1])

Plays(c, p, q) == c \in Seq(BodyCalls) /\ \E f : Course(c, f, p, q)

(* The last test has a course up to the commit of its message + "2".       *)
BeforeLastCommit ==
  CreateSession("session", "TRANSACTED") \o SendMessage(1) \o Do("commit")
    \o ReceiveMessage("session") \o AssertText(1) \o Do("rollback") \o SendMessage(2)
    \o Reconnect \o CreateSession("session", "TRANSACTED") \o SendMessage(2)
    \o ReceiveMessage("session") \o AssertText(1) \o ReceiveMessage("session")

Told(t) ==
  IF t = "transactedWithRollback" THEN BeforeLastCommit ELSE Bodies[t] \o TearDown

(* Where that course ends.                                                 *)
BothTaken ==
  [mode |-> "TRANSACTED", sent |-> 2, taken |-> 1, n |-> 2,
   helper |-> "closed", htaken |-> 0, hn |-> 0, flight |-> 0, got |-> 0]

EndOf(t) == IF t = "transactedWithRollback" THEN BothTaken ELSE Fresh

CourseOf(t) == CHOOSE f : Course(Told(t), f, Fresh, EndOf(t))

-----------------------------------------------------------------------------
(* Each test has its course                                                *)

(* Courses of two pieces make one of both.                                 *)
LEMMA PlaysJoined ==
  ASSUME NEW a, NEW b, NEW p, NEW q, NEW r, Plays(a, p, q), Plays(b, q, r)
  PROVE  Plays(a \o b, p, r)
<1>. DEFINE A == Len(a)  B == Len(b)  c == a \o b
<1>0. a \in Seq(BodyCalls) /\ b \in Seq(BodyCalls)
  BY DEF Plays
<1>1. c \in Seq(BodyCalls) /\ Joins(c, a, b)
  BY <1>0, Joined
<1>2. A \in Nat /\ B \in Nat
  BY <1>0
<1>. HIDE DEF c, BodyCalls
<1>3. /\ Len(c) = A + B
      /\ \A i \in 1..A : c[i] = a[i]
      /\ \A i \in 1..B : c[A + i] = b[i]
  BY <1>1 DEF Joins
<1>4. PICK f : Course(a, f, p, q)
  BY DEF Plays
<1>5. PICK g : Course(b, g, q, r)
  BY DEF Plays
<1>6. /\ f \in [1..A + 1 -> Phases] /\ f[1] = p /\ f[A + 1] = q
      /\ \A i \in 1..A : Leads(a[i], f[i], f[i + 1])
  BY <1>4 DEF Course
<1>7. /\ g \in [1..B + 1 -> Phases] /\ g[1] = q /\ g[B + 1] = r
      /\ \A i \in 1..B : Leads(b[i], g[i], g[i + 1])
  BY <1>5 DEF Course
<1>. HIDE DEF A, B
<1>. DEFINE h == [i \in 1..A + B + 1 |-> IF i <= A THEN f[i] ELSE g[i - A]]
<1>8. h \in [1..Len(c) + 1 -> Phases]
  <2>1. ASSUME NEW i \in 1..A + B + 1 PROVE (IF i <= A THEN f[i] ELSE g[i - A]) \in Phases
    <3>1. CASE i <= A
      BY <3>1, <1>2, <1>6
    <3>2. CASE ~(i <= A)
      <4>1. i - A \in 1..B + 1
        BY <3>2, <1>2
      <4>. QED
        BY <3>2, <4>1, <1>7
    <3>. QED
      BY <3>1, <3>2
  <2>. QED
    BY <2>1, <1>3
<1>9. /\ \A i \in 1..A : h[i] = f[i]
      /\ \A i \in 1..B + 1 : h[A + i] = g[i]
  BY <1>2
<1>10. h[A + 1] = f[A + 1] /\ h[A + B + 1] = r
  <2>1. h[A + 1] = g[1] /\ h[A + (B + 1)] = g[B + 1] /\ A + (B + 1) = A + B + 1
    BY <1>2, <1>9
  <2>. QED
    BY <2>1, <1>6, <1>7
<1>11. h[1] = p
  <2>1. CASE A = 0
    BY <2>1, <1>6, <1>10
  <2>2. CASE A # 0
    <3>1. 1 \in 1..A
      BY <2>2, <1>2
    <3>. QED
      BY <3>1, <1>6, <1>9
  <2>. QED
    BY <2>1, <2>2
<1>. HIDE DEF h
<1>12. ASSUME NEW i \in 1..Len(c) PROVE Leads(c[i], h[i], h[i + 1])
  <2>1. CASE i <= A
    <3>1. i \in 1..A
      BY <2>1, <1>2, <1>3
    <3>2. h[i + 1] = f[i + 1]
      <4>1. CASE i = A
        BY <4>1, <1>10
      <4>2. CASE i # A
        <5>1. i + 1 \in 1..A
          BY <4>2, <3>1, <1>2
        <5>. QED
          BY <5>1, <1>9
      <4>. QED
        BY <4>1, <4>2
    <3>. QED
      BY <3>1, <3>2, <1>3, <1>6, <1>9
  <2>2. CASE ~(i <= A)
    <3>. DEFINE j == i - A
    <3>1. j \in 1..B /\ i = A + j /\ j \in 1..B + 1 /\ j + 1 \in 1..B + 1
          /\ i + 1 = A + (j + 1)
      BY <2>2, <1>2, <1>3
    <3>. HIDE DEF j
    <3>2. c[i] = b[j] /\ h[i] = g[j] /\ h[i + 1] = g[j + 1]
      BY <3>1, <1>3, <1>9
    <3>. QED
      BY <3>1, <3>2, <1>7
  <2>. QED
    BY <2>1, <2>2
<1>13. h[Len(c) + 1] = r
  BY <1>3, <1>10
<1>14. Course(c, h, p, r)
  BY <1>8, <1>11, <1>12, <1>13 DEF Course
<1>15. Plays(c, p, r)
  BY <1>1, <1>14 DEF Plays
<1>. QED
  BY <1>15 DEF c

(* One call has the course from before it to after it.                     *)
LEMMA PlaysCall ==
  ASSUME NEW call \in BodyCalls, NEW p \in Phases, NEW q \in Phases, Leads(call, p, q)
  PROVE  Plays(<<call>>, p, q)
<1>. DEFINE c == <<call>>  f == [i \in 1..2 |-> IF i = 1 THEN p ELSE q]
<1>1. c \in Seq(BodyCalls) /\ Len(c) = 1 /\ c[1] = call
  OBVIOUS
<1>2. f \in [1..1 + 1 -> Phases] /\ f[1] = p /\ f[1 + 1] = q
  OBVIOUS
<1>. HIDE DEF c, f
<1>3. \A i \in 1..1 : Leads(c[i], f[i], f[i + 1])
  <2>1. \A i \in 1..1 : i = 1
    OBVIOUS
  <2>2. Leads(c[1], f[1], f[1 + 1])
    BY <1>1, <1>2
  <2>. QED
    BY <2>1, <2>2
<1>4. Course(c, f, p, q)
  BY <1>1, <1>2, <1>3 DEF Course
<1>5. Plays(c, p, q)
  BY <1>1, <1>4 DEF Plays
<1>. QED
  BY <1>5 DEF c

(* Between the calls of a test the session of the helpers is closed; it is *)
(* open, with j consumers and what it has taken, within one.               *)
At(mode, sent, taken, n0, flight, got) ==
  [mode |-> mode, sent |-> sent, taken |-> taken, n |-> n0,
   helper |-> "closed", htaken |-> 0, hn |-> 0, flight |-> flight, got |-> got]

Asking(mode, sent, taken, n0, j, htaken, flight, got) ==
  [mode |-> mode, sent |-> sent, taken |-> taken, n |-> n0,
   helper |-> "AUTO", htaken |-> htaken, hn |-> j, flight |-> flight, got |-> got]

(* Both are phases.                                                        *)
LEMMA AtPhases ==
  ASSUME NEW mode \in Modes \union {"closed"}, NEW sent \in 0..2, NEW taken \in 0..2,
         NEW i \in Nat, NEW flight \in 0..2, NEW got \in 0..2
  PROVE  /\ At(mode, sent, taken, i, flight, got) \in Phases
         /\ \A j \in Nat, h \in 0..2 :
              Asking(mode, sent, taken, i, j, h, flight, got) \in Phases
  BY DEF At, Asking, Phases

(* What the single calls of a test make of the phase.                      *)
LEMMA SessionOpens ==
  ASSUME NEW mode \in Modes, NEW flight \in 0..2, NEW got \in 0..2
  PROVE  Plays(CreateSession("session", mode), At("closed", 0, 0, 0, flight, got),
               At(mode, 0, 0, 0, flight, got))
<1>. DEFINE c == <<"createSession", "session", mode>>
            p == At("closed", 0, 0, 0, flight, got)  q == At(mode, 0, 0, 0, flight, got)
<1>1. c \in BodyCalls
  BY CallsKnown DEF Sessions
<1>2. p \in Phases /\ q \in Phases
  BY AtPhases DEF Modes
<1>3. Leads(c, p, q)
  BY DEF Leads, LeadsOpening, Alters, Fields, At, Sole
<1>. QED
  BY <1>1, <1>2, <1>3, PlaysCall DEF CreateSession

(* A send, in a transaction and outside.                                   *)
LEMMA Sends ==
  ASSUME NEW k \in {1, 2}, NEW taken \in 0..2, NEW i \in Nat, NEW flight \in 0..2,
         NEW got \in 0..2, flight = 0 \/ i <= 1
  PROVE  /\ Plays(SendMessage(k), At("TRANSACTED", 0, taken, i, flight, got),
                  At("TRANSACTED", k, taken, i, flight, got))
         /\ \A mode \in {"AUTO", "DUPS_OK", "CLIENT"} :
              Plays(SendMessage(k), At(mode, 0, 0, 0, 0, got), At(mode, 0, 0, 0, k, got))
<1>. DEFINE c == <<"send", k>>
<1>1. c \in BodyCalls
  BY CallsKnown
<1>2. Plays(SendMessage(k), At("TRANSACTED", 0, taken, i, flight, got),
                  At("TRANSACTED", k, taken, i, flight, got))
  <2>. DEFINE p == At("TRANSACTED", 0, taken, i, flight, got)
              q == At("TRANSACTED", k, taken, i, flight, got)
  <2>1. p \in Phases /\ q \in Phases
    BY AtPhases DEF Modes
  <2>2. Leads(c, p, q)
    BY DEF Leads, LeadsSending, Alters, Fields, At, Sole
  <2>. QED
    BY <1>1, <2>1, <2>2, PlaysCall DEF SendMessage
<1>3. ASSUME NEW mode \in {"AUTO", "DUPS_OK", "CLIENT"}
      PROVE  Plays(SendMessage(k), At(mode, 0, 0, 0, 0, got), At(mode, 0, 0, 0, k, got))
  <2>. DEFINE p == At(mode, 0, 0, 0, 0, got)  q == At(mode, 0, 0, 0, k, got)
  <2>1. p \in Phases /\ q \in Phases
    BY AtPhases DEF Modes
  <2>2. Leads(c, p, q)
    BY DEF Leads, LeadsSending, Alters, Fields, At, Sole
  <2>. QED
    BY <1>1, <2>1, <2>2, PlaysCall DEF SendMessage
<1>. QED
  BY <1>2, <1>3

(* An assertion on the message received last.                              *)
LEMMA Asserts ==
  ASSUME NEW mode \in Modes \union {"closed"}, NEW sent \in 0..2, NEW taken \in 0..2,
         NEW i \in Nat, NEW k \in {1, 2}
  PROVE  Plays(AssertText(k), At(mode, sent, taken, i, 0, k), At(mode, sent, taken, i, 0, k))
<1>. DEFINE c == <<"assertText", k>>  p == At(mode, sent, taken, i, 0, k)
<1>1. c \in BodyCalls
  BY CallsKnown
<1>2. p \in Phases
  BY AtPhases
<1>3. Leads(c, p, p)
  BY DEF Leads, At, Sole
<1>. QED
  BY <1>1, <1>2, <1>3, PlaysCall DEF AssertText

(* A commit puts the sent message on its way and drops the received one.   *)
LEMMA Commits ==
  ASSUME NEW sent \in 0..2, NEW taken \in 0..2, NEW i \in Nat, NEW got \in 0..2,
         NEW k \in 0..2, \/ sent # 0 /\ i <= 1 /\ k = sent
                         \/ sent = 0 /\ k = 0
  PROVE  Plays(Do("commit"), At("TRANSACTED", sent, taken, i, 0, got),
               At("TRANSACTED", 0, 0, i, k, got))
<1>. DEFINE c == <<"commit">>  p == At("TRANSACTED", sent, taken, i, 0, got)
            q == At("TRANSACTED", 0, 0, i, k, got)
<1>1. c \in BodyCalls
  BY CallsKnown
<1>2. p \in Phases /\ q \in Phases
  BY AtPhases DEF Modes
<1>3. /\ p.flight = 0 /\ (q.flight = 0 \/ q.n + q.hn <= 1)
      /\ q.sent = 0 /\ q.taken = 0 /\ Alters(p, q, {"sent", "taken", "flight"})
      /\ \/ p.sent = 0 /\ q.flight = p.flight
         \/ p.sent # 0 /\ q.flight = p.sent
  BY DEF At, Alters, Fields
<1>. HIDE DEF p, q
<1>4. Leads(c, p, q)
  BY <1>3 DEF Leads, LeadsCommitting, Sole
<1>5. Plays(Do("commit"), p, q)
  BY <1>1, <1>2, <1>4, PlaysCall DEF Do
<1>. QED
  BY <1>5 DEF p, q

(* A rollback puts the received message on its way again.                  *)
LEMMA RollsBack ==
  ASSUME NEW sent \in 0..2, NEW taken \in 0..2, NEW i \in Nat, NEW got \in 0..2, i <= 1
  PROVE  Plays(Do("rollback"), At("TRANSACTED", sent, taken, i, 0, got),
               At("TRANSACTED", 0, 0, i, taken, got))
<1>. DEFINE c == <<"rollback">>  p == At("TRANSACTED", sent, taken, i, 0, got)
            q == At("TRANSACTED", 0, 0, i, taken, got)
<1>1. c \in BodyCalls
  BY CallsKnown
<1>2. p \in Phases /\ q \in Phases
  BY AtPhases DEF Modes
<1>3. /\ p.flight = 0 /\ q.n + q.hn <= 1
      /\ q.sent = 0 /\ q.taken = 0 /\ q.flight = p.taken
      /\ Alters(p, q, {"sent", "taken", "flight"})
  BY DEF At, Alters, Fields
<1>. HIDE DEF p, q
<1>4. Leads(c, p, q)
  BY <1>3 DEF Leads, LeadsRollingBack, Sole
<1>5. Plays(Do("rollback"), p, q)
  BY <1>1, <1>2, <1>4, PlaysCall DEF Do
<1>. QED
  BY <1>5 DEF p, q

(* An acknowledge drops the received message.                              *)
LEMMA Acknowledges ==
  ASSUME NEW taken \in 0..2, NEW i \in Nat, NEW got \in 0..2
  PROVE  Plays(Do("acknowledge"), At("CLIENT", 0, taken, i, 0, got),
               At("CLIENT", 0, 0, i, 0, got))
<1>. DEFINE c == <<"acknowledge">>  p == At("CLIENT", 0, taken, i, 0, got)
            q == At("CLIENT", 0, 0, i, 0, got)
<1>1. c \in BodyCalls
  BY CallsKnown
<1>2. p \in Phases /\ q \in Phases
  BY AtPhases DEF Modes
<1>3. q.flight = 0 /\ q.taken = 0 /\ Alters(p, q, {"taken"})
  BY DEF At, Alters, Fields
<1>. HIDE DEF p, q
<1>4. Leads(c, p, q)
  BY <1>3 DEF Leads, Sole
<1>5. Plays(Do("acknowledge"), p, q)
  BY <1>1, <1>2, <1>4, PlaysCall DEF Do
<1>. QED
  BY <1>5 DEF p, q

(* The close of a session whose messages are in order.                     *)
LEMMA SessionCloses ==
  ASSUME NEW mode \in Modes, NEW sent \in 0..2, NEW taken \in 0..2, NEW i \in Nat,
         NEW k \in 0..2, NEW got \in 0..2,
         i = 0 \/ k = 0, mode \in Automatic \/ taken = 0
  PROVE  Plays(CloseSession("session"), At(mode, sent, taken, i, k, got),
               At("closed", 0, 0, 0, k, got))
<1>. DEFINE c == <<"closeSession", "session">>  p == At(mode, sent, taken, i, k, got)
            q == At("closed", 0, 0, 0, k, got)
<1>1. c \in BodyCalls
  BY CallsKnown DEF Sessions
<1>2. p \in Phases /\ q \in Phases
  BY AtPhases DEF Modes
<1>3. /\ p.n = 0 \/ p.flight = 0
      /\ p.mode \in Automatic \/ p.taken = 0
      /\ q.mode = "closed" /\ q.sent = 0 /\ q.taken = 0 /\ q.n = 0 /\ q.n + q.hn <= 1
      /\ Alters(p, q, {"mode", "sent", "taken", "n"})
  BY DEF At, Alters, Fields
<1>. HIDE DEF p, q
<1>4. Leads(c, p, q)
  BY <1>3 DEF Leads, LeadsClosing, Sole
<1>5. Plays(CloseSession("session"), p, q)
  BY <1>1, <1>2, <1>4, PlaysCall DEF CloseSession
<1>. QED
  BY <1>5 DEF p, q

(* A close of the connection, and the connection made after it.            *)
LEMMA Closes ==
  ASSUME NEW mode \in Modes \union {"closed"}, NEW sent \in 0..2, NEW taken \in 0..2,
         NEW i \in Nat, NEW flight \in 0..2, NEW got \in 0..2, NEW k \in 0..2,
         flight = 0 \/ taken = 0,
         k = IF taken # 0 /\ mode \notin Automatic THEN taken ELSE flight
  PROVE  /\ Plays(Do("close"), At(mode, sent, taken, i, flight, got),
                  At("closed", 0, 0, 0, k, 0))
         /\ Plays(Reconnect, At(mode, sent, taken, i, flight, got),
                  At("closed", 0, 0, 0, k, 0))
<1>. DEFINE c == <<"close">>  d == <<"getConnection">>
            p == At(mode, sent, taken, i, flight, got)  q == At("closed", 0, 0, 0, k, 0)
<1>1. c \in BodyCalls /\ d \in BodyCalls
  BY CallsKnown
<1>2. p \in Phases /\ q \in Phases
  BY AtPhases
<1>3. /\ p.helper = "closed" /\ p.htaken = 0 /\ p.hn = 0
      /\ \/ p.taken # 0 /\ p.mode \notin Automatic /\ p.flight = 0 /\ q.flight = p.taken
         \/ (p.taken = 0 \/ p.mode \in Automatic) /\ q.flight = p.flight
      /\ Alters(Fresh, q, {"flight"}) /\ q.n + q.hn <= 1
  BY DEF At, Fresh, Alters, Fields
<1>. HIDE DEF p, q
<1>4. Leads(c, p, q) /\ Leads(d, q, q)
  BY <1>3 DEF Leads, LeadsReconnecting, Sole
<1>5. Plays(Do("close"), p, q) /\ Plays(Do("getConnection"), q, q)
  BY <1>1, <1>2, <1>4, PlaysCall DEF Do
<1>6. Reconnect = Do("close") \o Do("getConnection")
  BY DEF Reconnect, Do
<1>7. Plays(Reconnect, p, q)
  BY <1>5, <1>6, PlaysJoined
<1>. QED
  BY <1>5, <1>7 DEF p, q

(* Four calls in a row.                                                    *)
LEMMA FourCalls ==
  ASSUME NEW c1 \in BodyCalls, NEW c2 \in BodyCalls, NEW c3 \in BodyCalls,
         NEW c4 \in BodyCalls, NEW p1 \in Phases, NEW p2 \in Phases, NEW p3 \in Phases,
         NEW p4 \in Phases, NEW p5 \in Phases,
         Leads(c1, p1, p2), Leads(c2, p2, p3), Leads(c3, p3, p4), Leads(c4, p4, p5)
  PROVE  Plays(<<c1, c2, c3, c4>>, p1, p5)
<1>. DEFINE c == <<c1, c2, c3, c4>>  f == <<p1, p2, p3, p4, p5>>
<1>1. c \in Seq(BodyCalls) /\ Len(c) = 4
      /\ c[1] = c1 /\ c[2] = c2 /\ c[3] = c3 /\ c[4] = c4
  OBVIOUS
<1>2. f \in [1..4 + 1 -> Phases] /\ f[1] = p1 /\ f[4 + 1] = p5
  OBVIOUS
<1>3. f[1 + 1] = p2 /\ f[2] = p2 /\ f[2 + 1] = p3 /\ f[3] = p3 /\ f[3 + 1] = p4
      /\ f[4] = p4
  OBVIOUS
<1>. HIDE DEF c, f
<1>4. \A i \in 1..4 : Leads(c[i], f[i], f[i + 1])
  <2>1. \A i \in 1..4 : i = 1 \/ i = 2 \/ i = 3 \/ i = 4
    OBVIOUS
  <2>2. /\ Leads(c[1], f[1], f[1 + 1]) /\ Leads(c[2], f[2], f[2 + 1])
        /\ Leads(c[3], f[3], f[3 + 1]) /\ Leads(c[4], f[4], f[4 + 1])
    BY <1>1, <1>2, <1>3
  <2>. QED
    BY <2>1, <2>2
<1>5. Course(c, f, p1, p5)
  BY <1>1, <1>2, <1>4 DEF Course
<1>6. Plays(c, p1, p5)
  BY <1>1, <1>5 DEF Plays
<1>. QED
  BY <1>6 DEF c

(* A receive takes the message on its way, or finds none.                  *)
LEMMA Receives ==
  ASSUME NEW mode \in Modes, NEW sent \in 0..2, NEW got \in 0..2
  PROVE  /\ \A k \in {1, 2} :
              Plays(ReceiveMessage("session"), At(mode, sent, 0, 0, k, got),
                    At(mode, sent, k, 1, 0, k))
         /\ \A taken \in 0..2, i \in Nat :
              Plays(ReceiveMessage("session"), At(mode, sent, taken, i, 0, got),
                    At(mode, sent, taken, i + 1, 0, 0))
<1>1. /\ <<"start">> \in BodyCalls /\ <<"stop">> \in BodyCalls
      /\ <<"createConsumer", "session">> \in BodyCalls
      /\ <<"receive", "session">> \in BodyCalls
  BY CallsKnown DEF Sessions
<1>2. ASSUME NEW taken \in 0..2, NEW taken2 \in 0..2, NEW i \in Nat, NEW k \in 0..2,
             \/ k = 0 /\ taken2 = taken
             \/ k # 0 /\ taken2 = k /\ i = 0 /\ taken = 0
      PROVE  Plays(ReceiveMessage("session"), At(mode, sent, taken, i, k, got),
                   At(mode, sent, taken2, i + 1, 0, k))
  <2>. DEFINE p == At(mode, sent, taken, i, k, got)
              q == At(mode, sent, taken, i + 1, k, got)
              r == At(mode, sent, taken2, i + 1, 0, k)
  <2>0. i + 1 \in Nat /\ mode \in Modes \union {"closed"} /\ 0 \in 0..2
    OBVIOUS
  <2>1. p \in Phases /\ q \in Phases /\ r \in Phases
    BY <2>0, AtPhases
  <2>2. Leads(<<"start">>, p, p)
    BY <1>2 DEF Leads, At, Sole
  <2>3. Leads(<<"createConsumer", "session">>, p, q)
    BY <1>2 DEF Leads, LeadsConsuming, Alters, Fields, At, Sole
  <2>4. Leads(<<"receive", "session">>, q, r)
    <3>1. /\ r.flight = 0 /\ r.got = q.flight
          /\ \/ q.flight = 0 /\ Alters(q, r, {"got"})
             \/ /\ q.flight # 0 /\ q.n = 1 /\ q.taken = 0
                /\ r.taken = q.flight /\ Alters(q, r, {"got", "taken", "flight"})
      BY <1>2 DEF At, Alters, Fields
    <3>. HIDE DEF q, r
    <3>. QED
      BY <3>1 DEF Leads, LeadsReceiving, Sole
  <2>5. Leads(<<"stop">>, r, r)
    BY DEF Leads, At, Sole
  <2>. HIDE DEF p, q, r
  <2>. QED
    BY <1>1, <2>1, <2>2, <2>3, <2>4, <2>5, FourCalls DEF ReceiveMessage, p, q, r
<1>3. ASSUME NEW k \in {1, 2}
      PROVE  Plays(ReceiveMessage("session"), At(mode, sent, 0, 0, k, got),
                   At(mode, sent, k, 1, 0, k))
  <2>1. 0 \in 0..2 /\ 0 \in Nat /\ k \in 0..2 /\ k # 0 /\ 0 + 1 = 1
    OBVIOUS
  <2>2. Plays(ReceiveMessage("session"), At(mode, sent, 0, 0, k, got),
              At(mode, sent, k, 0 + 1, 0, k))
    BY <2>1, <1>2
  <2>. QED
    BY <2>1, <2>2
<1>4. ASSUME NEW taken \in 0..2, NEW i \in Nat
      PROVE  Plays(ReceiveMessage("session"), At(mode, sent, taken, i, 0, got),
                   At(mode, sent, taken, i + 1, 0, 0))
  BY <1>2
<1>. QED
  BY <1>3, <1>4

(* The helper takes the message on its way, or finds none.                 *)
LEMMA Asks ==
  ASSUME NEW mode \in Modes \union {"closed"}, NEW sent \in 0..2, NEW taken \in 0..2,
         NEW i \in Nat, NEW k \in 0..2, NEW got \in 0..2, k = 0 \/ i = 0
  PROVE  Plays(GetMessageFromQueue, At(mode, sent, taken, i, k, got),
               At(mode, sent, taken, i, 0, k))
<1>1. /\ <<"start">> \in BodyCalls /\ <<"stop">> \in BodyCalls
      /\ <<"createConsumer", "helper">> \in BodyCalls
      /\ <<"receive", "helper">> \in BodyCalls
      /\ <<"createSession", "helper", "AUTO">> \in BodyCalls
      /\ <<"closeSession", "helper">> \in BodyCalls
  BY CallsKnown DEF Sessions, Modes
<1>. DEFINE p == At(mode, sent, taken, i, k, got)
            o == Asking(mode, sent, taken, i, 0, 0, k, got)
            q == Asking(mode, sent, taken, i, 1, 0, k, got)
            r == Asking(mode, sent, taken, i, 1, k, 0, k)
            z == At(mode, sent, taken, i, 0, k)
<1>2. p \in Phases /\ o \in Phases /\ q \in Phases /\ r \in Phases /\ z \in Phases
  BY AtPhases
<1>3. Leads(<<"createSession", "helper", "AUTO">>, p, o)
  BY DEF Leads, LeadsOpening, Alters, Fields, At, Asking, Sole
<1>4. Leads(<<"start">>, o, o)
  BY DEF Leads, Asking, Sole
<1>5. Leads(<<"createConsumer", "helper">>, o, q)
  BY DEF Leads, LeadsConsuming, Alters, Fields, Asking, Sole
<1>6. Leads(<<"receive", "helper">>, q, r)
  <2>1. /\ r.flight = 0 /\ r.got = q.flight
        /\ \/ q.flight = 0 /\ Alters(q, r, {"got"})
           \/ /\ q.flight # 0 /\ q.hn = 1 /\ q.htaken = 0
              /\ r.htaken = q.flight /\ Alters(q, r, {"got", "htaken", "flight"})
    BY DEF Asking, Alters, Fields
  <2>. HIDE DEF q, r
  <2>. QED
    BY <2>1 DEF Leads, LeadsReceiving, Sole
<1>7. Leads(<<"stop">>, r, r)
  BY DEF Leads, Asking, Sole
<1>8. Leads(<<"closeSession", "helper">>, r, z)
  <2>1. /\ r.flight = 0 /\ r.helper = "AUTO" /\ z.flight = 0
        /\ z.helper = "closed" /\ z.htaken = 0 /\ z.hn = 0
        /\ Alters(r, z, {"helper", "htaken", "hn"})
    BY DEF At, Asking, Alters, Fields
  <2>. HIDE DEF r, z
  <2>. QED
    BY <2>1 DEF Leads, LeadsClosing, Sole
<1>. HIDE DEF p, o, q, r, z
<1>9. Plays(ReceiveMessage("helper"), o, r)
  BY <1>1, <1>2, <1>4, <1>5, <1>6, <1>7, FourCalls DEF ReceiveMessage
<1>10. Plays(CreateSession("helper", "AUTO"), p, o) /\ Plays(CloseSession("helper"), r, z)
  BY <1>1, <1>2, <1>3, <1>8, PlaysCall DEF CreateSession, CloseSession
<1>11. Plays(GetMessageFromQueue, p, z)
  BY <1>9, <1>10, PlaysJoined DEF GetMessageFromQueue
<1>. QED
  BY <1>11 DEF p, z

(* The helper that checks finds what is on its way.                        *)
LEMMA Checks ==
  ASSUME NEW mode \in Modes \union {"closed"}, NEW sent \in 0..2, NEW taken \in 0..2,
         NEW i \in Nat, NEW got \in 0..2
  PROVE  /\ Plays(CheckQueueIsEmpty, At(mode, sent, taken, i, 0, got),
                  At(mode, sent, taken, i, 0, 0))
         /\ \A k \in {1, 2} :
              Plays(CheckQueue(k), At(mode, sent, taken, 0, k, got),
                    At(mode, sent, taken, 0, 0, k))
<1>1. Plays(CheckQueueIsEmpty, At(mode, sent, taken, i, 0, got),
                  At(mode, sent, taken, i, 0, 0))
  <2>. DEFINE p == At(mode, sent, taken, i, 0, got)  q == At(mode, sent, taken, i, 0, 0)
  <2>1. Plays(GetMessageFromQueue, p, q)
    BY Asks
  <2>2. q \in Phases
    BY AtPhases
  <2>3. Leads(<<"assertNull">>, q, q)
    BY DEF Leads, At, Sole
  <2>4. <<"assertNull">> \in BodyCalls
    BY CallsKnown
  <2>. HIDE DEF p, q
  <2>5. Plays(Do("assertNull"), q, q)
    BY <2>2, <2>3, <2>4, PlaysCall DEF Do
  <2>6. Plays(CheckQueueIsEmpty, p, q)
    BY <2>1, <2>5, PlaysJoined DEF CheckQueueIsEmpty
  <2>. QED
    BY <2>6 DEF p, q
<1>2. ASSUME NEW k \in {1, 2}
      PROVE  Plays(CheckQueue(k), At(mode, sent, taken, 0, k, got),
                    At(mode, sent, taken, 0, 0, k))
  <2>. DEFINE p == At(mode, sent, taken, 0, k, got)  q == At(mode, sent, taken, 0, 0, k)
  <2>1. Plays(GetMessageFromQueue, p, q)
    BY Asks
  <2>2. Plays(AssertText(k), q, q)
    BY Asserts
  <2>. HIDE DEF p, q
  <2>3. Plays(CheckQueue(k), p, q)
    BY <2>1, <2>2, PlaysJoined DEF CheckQueue
  <2>. QED
    BY <2>3 DEF p, q
<1>. QED
  BY <1>1, <1>2

(* The courses of the tests, piece by piece.                               *)
LEMMA HowToPlays == Plays(HowTo \o TearDown, Fresh, Fresh)
<1>. DEFINE go == << <<"start">>, <<"createConsumer", "session">>, <<"receive", "session">>,
                     <<"commit">>, <<"stop">> >>
<1>1. Fresh = At("closed", 0, 0, 0, 0, 0)
  BY DEF Fresh, At
<1>2. {"AUTO", "TRANSACTED"} \subseteq Modes /\ "AUTO" \in Automatic /\ 0 \in 0..2 /\ 1 \in 0..2
  BY DEF Modes, Automatic
<1>3. Plays(Do("getConnection"), Fresh, Fresh)
  <2>1. <<"getConnection">> \in BodyCalls
    BY CallsKnown
  <2>2. Fresh \in Phases
    BY <1>1, <1>2, AtPhases
  <2>3. Leads(<<"getConnection">>, Fresh, Fresh)
    BY DEF Leads, Sole, Fresh
  <2>. QED
    BY <2>1, <2>2, <2>3, PlaysCall DEF Do
<1>4. Plays(CreateSession("session", "AUTO"), Fresh, At("AUTO", 0, 0, 0, 0, 0))
  BY <1>1, <1>2, SessionOpens
<1>5. Plays(SendMessage(1), At("AUTO", 0, 0, 0, 0, 0), At("AUTO", 0, 0, 0, 1, 0))
  BY Sends
<1>6. Plays(CloseSession("session"), At("AUTO", 0, 0, 0, 1, 0), At("closed", 0, 0, 0, 1, 0))
  BY <1>2, SessionCloses
<1>7. Plays(CreateSession("session", "TRANSACTED"), At("closed", 0, 0, 0, 1, 0),
            At("TRANSACTED", 0, 0, 0, 1, 0))
  BY <1>2, SessionOpens
<1>8. Plays(go, At("TRANSACTED", 0, 0, 0, 1, 0), At("TRANSACTED", 0, 0, 1, 0, 1))
  <2>. DEFINE p == At("TRANSACTED", 0, 0, 0, 1, 0)  q == At("TRANSACTED", 0, 0, 1, 1, 0)
              r == At("TRANSACTED", 0, 1, 1, 0, 1)  z == At("TRANSACTED", 0, 0, 1, 0, 1)
              c == << <<"start">>, <<"createConsumer", "session">>, <<"receive", "session">>,
                      <<"commit">> >>
  <2>1. /\ <<"start">> \in BodyCalls /\ <<"stop">> \in BodyCalls
        /\ <<"createConsumer", "session">> \in BodyCalls
        /\ <<"receive", "session">> \in BodyCalls /\ <<"commit">> \in BodyCalls
    BY CallsKnown DEF Sessions
  <2>2. p \in Phases /\ q \in Phases /\ r \in Phases /\ z \in Phases
    BY AtPhases DEF Modes
  <2>3. Leads(<<"start">>, p, p) /\ Leads(<<"stop">>, z, z)
    BY DEF Leads, At, Sole
  <2>4. Leads(<<"createConsumer", "session">>, p, q)
    BY DEF Leads, LeadsConsuming, Alters, Fields, At, Sole
  <2>5. Leads(<<"receive", "session">>, q, r)
    BY DEF Leads, LeadsReceiving, Alters, Fields, At, Sole
  <2>6. Leads(<<"commit">>, r, z)
    BY DEF Leads, LeadsCommitting, Alters, Fields, At, Sole
  <2>. HIDE DEF p, q, r, z
  <2>7. Plays(c, p, z)
    BY <2>1, <2>2, <2>3, <2>4, <2>5, <2>6, FourCalls
  <2>8. Plays(<< <<"stop">> >>, z, z)
    BY <2>1, <2>2, <2>3, PlaysCall
  <2>9. go = c \o << <<"stop">> >>
    OBVIOUS
  <2>. HIDE DEF c
  <2>10. Plays(go, p, z)
    BY <2>7, <2>8, <2>9, PlaysJoined
  <2>. QED
    BY <2>10 DEF p, z
<1>9. Plays(AssertText(1), At("TRANSACTED", 0, 0, 1, 0, 1), At("TRANSACTED", 0, 0, 1, 0, 1))
  BY <1>2, Asserts
<1>10. Plays(Do("close"), At("TRANSACTED", 0, 0, 1, 0, 1), Fresh)
  BY <1>1, <1>2, Closes
<1>11. Plays(TearDown, Fresh, Fresh)
  BY <1>1, <1>2, Closes DEF TearDown
<1>. HIDE DEF go
<1>. QED
  BY <1>3, <1>4, <1>5, <1>6, <1>7, <1>8, <1>9, <1>10, <1>11, PlaysJoined DEF HowTo, go

(* sessionWithAutoAck: the close acknowledges what was received.           *)
LEMMA AutoAckPlays == Plays(SessionWithAutoAck \o TearDown, Fresh, Fresh)
<1>1. Fresh = At("closed", 0, 0, 0, 0, 0)
  BY DEF Fresh, At
<1>2. "AUTO" \in Modes /\ "AUTO" \in Automatic /\ 0 \in 0..2 /\ 1 \in 0..2
  BY DEF Modes, Automatic
<1>3. Plays(CreateSession("session", "AUTO"), Fresh, At("AUTO", 0, 0, 0, 0, 0))
  BY <1>1, <1>2, SessionOpens
<1>4. Plays(SendMessage(1), At("AUTO", 0, 0, 0, 0, 0), At("AUTO", 0, 0, 0, 1, 0))
  BY Sends
<1>5. Plays(ReceiveMessage("session"), At("AUTO", 0, 0, 0, 1, 0), At("AUTO", 0, 1, 1, 0, 1))
  BY <1>2, Receives
<1>6. Plays(AssertText(1), At("AUTO", 0, 1, 1, 0, 1), At("AUTO", 0, 1, 1, 0, 1))
  BY <1>2, Asserts
<1>7. Plays(CloseSession("session"), At("AUTO", 0, 1, 1, 0, 1), At("closed", 0, 0, 0, 0, 1))
  BY <1>2, SessionCloses
<1>8. Plays(CheckQueueIsEmpty, At("closed", 0, 0, 0, 0, 1), Fresh)
  BY <1>1, <1>2, Checks
<1>9. Plays(TearDown, Fresh, Fresh)
  BY <1>1, <1>2, Closes DEF TearDown
<1>. QED
  BY <1>3, <1>4, <1>5, <1>6, <1>7, <1>8, <1>9, PlaysJoined DEF SessionWithAutoAck

(* sessionWithDuplAck, as with the automatic acknowledgement.              *)
LEMMA DuplAckPlays == Plays(SessionWithDuplAck \o TearDown, Fresh, Fresh)
<1>1. Fresh = At("closed", 0, 0, 0, 0, 0)
  BY DEF Fresh, At
<1>2. "DUPS_OK" \in Modes /\ "DUPS_OK" \in Automatic /\ 0 \in 0..2 /\ 1 \in 0..2
  BY DEF Modes, Automatic
<1>3. Plays(CreateSession("session", "DUPS_OK"), Fresh, At("DUPS_OK", 0, 0, 0, 0, 0))
  BY <1>1, <1>2, SessionOpens
<1>4. Plays(SendMessage(1), At("DUPS_OK", 0, 0, 0, 0, 0), At("DUPS_OK", 0, 0, 0, 1, 0))
  BY Sends
<1>5. Plays(ReceiveMessage("session"), At("DUPS_OK", 0, 0, 0, 1, 0),
            At("DUPS_OK", 0, 1, 1, 0, 1))
  BY <1>2, Receives
<1>6. Plays(AssertText(1), At("DUPS_OK", 0, 1, 1, 0, 1), At("DUPS_OK", 0, 1, 1, 0, 1))
  BY <1>2, Asserts
<1>7. Plays(CloseSession("session"), At("DUPS_OK", 0, 1, 1, 0, 1), At("closed", 0, 0, 0, 0, 1))
  BY <1>2, SessionCloses
<1>8. Plays(TearDown, At("closed", 0, 0, 0, 0, 1), Fresh)
  BY <1>1, <1>2, Closes DEF TearDown
<1>. QED
  BY <1>3, <1>4, <1>5, <1>6, <1>7, <1>8, PlaysJoined DEF SessionWithDuplAck

(* sessionWithClientAck: the message comes back until acknowledge().       *)
LEMMA ClientAckPlays == Plays(SessionWithClientAck \o TearDown, Fresh, Fresh)
<1>1. Fresh = At("closed", 0, 0, 0, 0, 0)
  BY DEF Fresh, At
<1>2. "CLIENT" \in Modes /\ "CLIENT" \notin Automatic /\ 0 \in 0..2 /\ 1 \in 0..2
  BY DEF Modes, Automatic
<1>3. Plays(CreateSession("session", "CLIENT"), Fresh, At("CLIENT", 0, 0, 0, 0, 0))
  BY <1>1, <1>2, SessionOpens
<1>4. Plays(SendMessage(1), At("CLIENT", 0, 0, 0, 0, 0), At("CLIENT", 0, 0, 0, 1, 0))
  BY Sends
<1>5. Plays(ReceiveMessage("session"), At("CLIENT", 0, 0, 0, 1, 0), At("CLIENT", 0, 1, 1, 0, 1))
  BY <1>2, Receives
<1>6. Plays(AssertText(1), At("CLIENT", 0, 1, 1, 0, 1), At("CLIENT", 0, 1, 1, 0, 1))
  BY <1>2, Asserts
<1>7. Plays(Reconnect, At("CLIENT", 0, 1, 1, 0, 1), At("closed", 0, 0, 0, 1, 0))
  BY <1>2, Closes
<1>8. Plays(CreateSession("session", "CLIENT"), At("closed", 0, 0, 0, 1, 0),
            At("CLIENT", 0, 0, 0, 1, 0))
  BY <1>2, SessionOpens
<1>9. Plays(Do("acknowledge"), At("CLIENT", 0, 1, 1, 0, 1), At("CLIENT", 0, 0, 1, 0, 1))
  BY Acknowledges
<1>10. Plays(Reconnect, At("CLIENT", 0, 0, 1, 0, 1), Fresh)
  BY <1>1, <1>2, Closes
<1>11. Plays(CheckQueueIsEmpty, Fresh, Fresh)
  BY <1>1, <1>2, Checks
<1>12. Plays(TearDown, Fresh, Fresh)
  BY <1>1, <1>2, Closes DEF TearDown
<1>. QED
  BY <1>3, <1>4, <1>5, <1>6, <1>7, <1>8, <1>9, <1>10, <1>11, <1>12, PlaysJoined
  DEF SessionWithClientAck

(* sessionTransacted: the message is there after the commit only.          *)
LEMMA TransactedPlays == Plays(SessionTransacted \o TearDown, Fresh, Fresh)
<1>1. Fresh = At("closed", 0, 0, 0, 0, 0)
  BY DEF Fresh, At
<1>2. "TRANSACTED" \in Modes /\ "TRANSACTED" \notin Automatic /\ 0 \in 0..2 /\ 1 \in 0..2
  BY DEF Modes, Automatic
<1>3. Plays(CreateSession("session", "TRANSACTED"), Fresh, At("TRANSACTED", 0, 0, 0, 0, 0))
  BY <1>1, <1>2, SessionOpens
<1>4. Plays(SendMessage(1), At("TRANSACTED", 0, 0, 0, 0, 0), At("TRANSACTED", 1, 0, 0, 0, 0))
  BY Sends
<1>5. Plays(CheckQueueIsEmpty, At("TRANSACTED", 1, 0, 0, 0, 0), At("TRANSACTED", 1, 0, 0, 0, 0))
  BY <1>2, Checks
<1>6. Plays(Do("commit"), At("TRANSACTED", 1, 0, 0, 0, 0), At("TRANSACTED", 0, 0, 0, 1, 0))
  BY Commits
<1>7. Plays(CheckQueue(1), At("TRANSACTED", 0, 0, 0, 1, 0), At("TRANSACTED", 0, 0, 0, 0, 1))
  BY <1>2, Checks
<1>8. Plays(TearDown, At("TRANSACTED", 0, 0, 0, 0, 1), Fresh)
  BY <1>1, <1>2, Closes DEF TearDown
<1>. QED
  BY <1>3, <1>4, <1>5, <1>6, <1>7, <1>8, PlaysJoined DEF SessionTransacted

(* transactionChaining: the same twice in one session.                     *)
LEMMA ChainingPlays == Plays(TransactionChaining \o TearDown, Fresh, Fresh)
<1>1. Fresh = At("closed", 0, 0, 0, 0, 0)
  BY DEF Fresh, At
<1>2. "TRANSACTED" \in Modes /\ "TRANSACTED" \notin Automatic /\ 0 \in 0..2 /\ 1 \in 0..2
  BY DEF Modes, Automatic
<1>3. Plays(CreateSession("session", "TRANSACTED"), Fresh, At("TRANSACTED", 0, 0, 0, 0, 0))
  BY <1>1, <1>2, SessionOpens
<1>4. \A got \in {0, 1} :
        Plays(SendMessage(1), At("TRANSACTED", 0, 0, 0, 0, got), At("TRANSACTED", 1, 0, 0, 0, got))
  BY Sends
<1>5. \A got \in {0, 1} :
        Plays(CheckQueueIsEmpty, At("TRANSACTED", 1, 0, 0, 0, got), At("TRANSACTED", 1, 0, 0, 0, 0))
  BY <1>2, Checks
<1>6. Plays(Do("commit"), At("TRANSACTED", 1, 0, 0, 0, 0), At("TRANSACTED", 0, 0, 0, 1, 0))
  BY Commits
<1>7. Plays(CheckQueue(1), At("TRANSACTED", 0, 0, 0, 1, 0), At("TRANSACTED", 0, 0, 0, 0, 1))
  BY <1>2, Checks
<1>8. Plays(CloseSession("session"), At("TRANSACTED", 0, 0, 0, 0, 1), At("closed", 0, 0, 0, 0, 1))
  BY <1>2, SessionCloses
<1>9. Plays(TearDown, At("closed", 0, 0, 0, 0, 1), Fresh)
  BY <1>1, <1>2, Closes DEF TearDown
<1>10. /\ Plays(SendMessage(1), At("TRANSACTED", 0, 0, 0, 0, 0), At("TRANSACTED", 1, 0, 0, 0, 0))
       /\ Plays(SendMessage(1), At("TRANSACTED", 0, 0, 0, 0, 1), At("TRANSACTED", 1, 0, 0, 0, 1))
       /\ Plays(CheckQueueIsEmpty, At("TRANSACTED", 1, 0, 0, 0, 0), At("TRANSACTED", 1, 0, 0, 0, 0))
       /\ Plays(CheckQueueIsEmpty, At("TRANSACTED", 1, 0, 0, 0, 1), At("TRANSACTED", 1, 0, 0, 0, 0))
  BY <1>4, <1>5
<1>. QED
  BY <1>3, <1>6, <1>7, <1>8, <1>9, <1>10, PlaysJoined DEF TransactionChaining

(* transactedWithConnectionClosed: nothing is ever on its way.             *)
LEMMA WithConnectionClosedPlays ==
  Plays(TransactedWithConnectionClosed \o TearDown, Fresh, Fresh)
<1>1. Fresh = At("closed", 0, 0, 0, 0, 0)
  BY DEF Fresh, At
<1>2. "TRANSACTED" \in Modes /\ "TRANSACTED" \notin Automatic /\ 0 \in 0..2 /\ 1 \in 0..2
  BY DEF Modes, Automatic
<1>3. Plays(CreateSession("session", "TRANSACTED"), Fresh, At("TRANSACTED", 0, 0, 0, 0, 0))
  BY <1>1, <1>2, SessionOpens
<1>4. Plays(SendMessage(1), At("TRANSACTED", 0, 0, 0, 0, 0), At("TRANSACTED", 1, 0, 0, 0, 0))
  BY Sends
<1>5. Plays(CloseSession("session"), At("TRANSACTED", 1, 0, 0, 0, 0), Fresh)
  BY <1>1, <1>2, SessionCloses
<1>6. Plays(CheckQueueIsEmpty, Fresh, Fresh)
  BY <1>1, <1>2, Checks
<1>7. Plays(TearDown, Fresh, Fresh)
  BY <1>1, <1>2, Closes DEF TearDown
<1>. QED
  BY <1>3, <1>4, <1>5, <1>6, <1>7, PlaysJoined DEF TransactedWithConnectionClosed

(* The last test up to its last commit, with both messages held.           *)
LEMMA WithRollbackPlays == Plays(BeforeLastCommit, Fresh, BothTaken)
<1>1. Fresh = At("closed", 0, 0, 0, 0, 0) /\ BothTaken = At("TRANSACTED", 2, 1, 2, 0, 0)
  BY DEF Fresh, At, BothTaken
<1>2. "TRANSACTED" \in Modes /\ "TRANSACTED" \notin Automatic /\ 0 \in 0..2 /\ 1 \in 0..2
  BY DEF Modes, Automatic
<1>3. Plays(CreateSession("session", "TRANSACTED"), Fresh, At("TRANSACTED", 0, 0, 0, 0, 0))
  BY <1>1, <1>2, SessionOpens
<1>4. Plays(SendMessage(1), At("TRANSACTED", 0, 0, 0, 0, 0), At("TRANSACTED", 1, 0, 0, 0, 0))
  BY Sends
<1>5. Plays(Do("commit"), At("TRANSACTED", 1, 0, 0, 0, 0), At("TRANSACTED", 0, 0, 0, 1, 0))
  BY Commits
<1>6. Plays(ReceiveMessage("session"), At("TRANSACTED", 0, 0, 0, 1, 0),
            At("TRANSACTED", 0, 1, 1, 0, 1))
  BY <1>2, Receives
<1>7. Plays(AssertText(1), At("TRANSACTED", 0, 1, 1, 0, 1), At("TRANSACTED", 0, 1, 1, 0, 1))
  BY <1>2, Asserts
<1>8. Plays(Do("rollback"), At("TRANSACTED", 0, 1, 1, 0, 1), At("TRANSACTED", 0, 0, 1, 1, 1))
  BY RollsBack
<1>9. Plays(SendMessage(2), At("TRANSACTED", 0, 0, 1, 1, 1), At("TRANSACTED", 2, 0, 1, 1, 1))
  BY Sends
<1>10. Plays(Reconnect, At("TRANSACTED", 2, 0, 1, 1, 1), At("closed", 0, 0, 0, 1, 0))
  BY <1>2, Closes
<1>11. Plays(CreateSession("session", "TRANSACTED"), At("closed", 0, 0, 0, 1, 0),
             At("TRANSACTED", 0, 0, 0, 1, 0))
  BY <1>2, SessionOpens
<1>12. Plays(SendMessage(2), At("TRANSACTED", 0, 0, 0, 1, 0), At("TRANSACTED", 2, 0, 0, 1, 0))
  BY Sends
<1>13. Plays(ReceiveMessage("session"), At("TRANSACTED", 2, 0, 0, 1, 0),
             At("TRANSACTED", 2, 1, 1, 0, 1))
  BY <1>2, Receives
<1>14. Plays(AssertText(1), At("TRANSACTED", 2, 1, 1, 0, 1), At("TRANSACTED", 2, 1, 1, 0, 1))
  BY <1>2, Asserts
<1>15. Plays(ReceiveMessage("session"), At("TRANSACTED", 2, 1, 1, 0, 1), BothTaken)
  BY <1>1, <1>2, Receives
<1>. QED
  BY <1>3, <1>4, <1>5, <1>6, <1>7, <1>8, <1>9, <1>10, <1>11, <1>12, <1>13, <1>14, <1>15,
     PlaysJoined
  DEF BeforeLastCommit

(* Each test has its course.                                               *)
LEMMA CoursesExist ==
  ASSUME NEW t \in Tests
  PROVE  /\ Told(t) \in Seq(BodyCalls)
         /\ Course(Told(t), CourseOf(t), Fresh, EndOf(t))
<1>1. Plays(Told(t), Fresh, EndOf(t))
  <2>1. CASE t = "transactedWithRollback"
    BY <2>1, WithRollbackPlays DEF Told, EndOf
  <2>2. CASE t # "transactedWithRollback"
    <3>1. Told(t) = Bodies[t] \o TearDown /\ EndOf(t) = Fresh
      BY <2>2 DEF Told, EndOf
    <3>2. \/ Bodies[t] = HowTo \/ Bodies[t] = SessionWithAutoAck
          \/ Bodies[t] = SessionWithDuplAck \/ Bodies[t] = SessionWithClientAck
          \/ Bodies[t] = SessionTransacted \/ Bodies[t] = TransactionChaining
          \/ Bodies[t] = TransactedWithConnectionClosed
      BY <2>2 DEF Tests, Bodies
    <3>. QED
      BY <3>1, <3>2, HowToPlays, AutoAckPlays, DuplAckPlays, ClientAckPlays,
         TransactedPlays, ChainingPlays, WithConnectionClosedPlays
  <2>. QED
    BY <2>1, <2>2
<1>2. Told(t) \in Seq(BodyCalls) /\ \E f : Course(Told(t), f, Fresh, EndOf(t))
  BY <1>1 DEF Plays
<1>. QED
  BY <1>2 DEF CourseOf

(* The course of a test goes along with its script: to the end, or to the  *)
(* last commit of transactedWithRollback.                                  *)
LEMMA ToldText ==
  ASSUME NEW t \in Tests
  PROVE  /\ Len(Told(t)) \in Nat
         /\ \A i \in 1..Len(Told(t)) : Scripts[t][8 + i] = Told(t)[i]
         /\ t # "transactedWithRollback" => Len(Scripts[t]) = 8 + Len(Told(t))
         /\ t = "transactedWithRollback" =>
              /\ Len(Scripts[t]) = Len(Told(t)) + 17
              /\ Scripts[t][Len(Told(t)) + 9] = <<"commit">>
              /\ \A i \in Len(Told(t)) + 10..Len(Told(t)) + 17 :
                   /\ Scripts[t][i][1] \notin {"send", "commit", "assertText"}
                   /\ Scripts[t][i][1] = "assertNull" => i = Len(Told(t)) + 16
<1>. DEFINE L == Len(Told(t))  S == Scripts[t]  b == Bodies[t]
<1>1. /\ Len(S) = Len(b) + 9 /\ b \in Seq(BodyCalls)
      /\ \A i \in 1..Len(b) : S[8 + i] = b[i]
      /\ S[Len(b) + 9] = <<"close">>
  BY ScriptText
<1>2. Told(t) \in Seq(BodyCalls) /\ L \in Nat /\ Len(b) \in Nat
  BY <1>1, CoursesExist
<1>3. CASE t # "transactedWithRollback"
  <2>1. Told(t) = b \o TearDown
    BY <1>3 DEF Told
  <2>2. TearDown \in Seq(BodyCalls) /\ Len(TearDown) = 1 /\ TearDown[1] = <<"close">>
    <3>1. <<"close">> \in BodyCalls
      BY CallsKnown
    <3>. QED
      BY <3>1 DEF TearDown, Do
  <2>. HIDE DEF b, S
  <2>3. Joins(Told(t), b, TearDown)
    BY <1>1, <2>1, <2>2, Joined
  <2>4. /\ L = Len(b) + 1
        /\ \A i \in 1..Len(b) : Told(t)[i] = b[i]
        /\ Told(t)[Len(b) + 1] = <<"close">>
    BY <2>2, <2>3 DEF Joins
  <2>. HIDE DEF L
  <2>5. ASSUME NEW i \in 1..L PROVE S[8 + i] = Told(t)[i]
    <3>1. CASE i <= Len(b)
      BY <3>1, <1>1, <1>2, <2>4
    <3>2. CASE ~(i <= Len(b))
      <4>1. i = Len(b) + 1 /\ 8 + i = Len(b) + 9
        BY <3>2, <1>2, <2>4
      <4>. QED
        BY <4>1, <1>1, <2>4
    <3>. QED
      BY <3>1, <3>2
  <2>6. Len(S) = 8 + L
    BY <1>1, <1>2, <2>4
  <2>. QED
    BY <1>2, <1>3, <2>5, <2>6 DEF S, L
<1>4. CASE t = "transactedWithRollback"
  <2>. DEFINE g == GetMessageFromQueue  Q == CheckQueueIsEmpty  c == Told(t) \o Do("commit")
              Quiet == {x \in BodyCalls :
                          x[1] \notin {"send", "commit", "assertText", "assertNull"}}
  <2>1. b = c \o Q
    BY <1>4 DEF Told, Tests, Bodies, TransactedWithRollback, BeforeLastCommit
  <2>2. Do("commit") \in Seq(BodyCalls) /\ Len(Do("commit")) = 1
        /\ Do("commit")[1] = <<"commit">>
    <3>1. <<"commit">> \in BodyCalls
      BY CallsKnown
    <3>. QED
      BY <3>1 DEF Do
  <2>3. c \in Seq(BodyCalls) /\ Joins(c, Told(t), Do("commit"))
    BY <1>2, <2>2, Joined
  <2>4. g \in Seq(Quiet) /\ Len(g) = 6
    <3>1. /\ <<"start">> \in Quiet /\ <<"stop">> \in Quiet
          /\ <<"createSession", "helper", "AUTO">> \in Quiet
          /\ <<"createConsumer", "helper">> \in Quiet /\ <<"receive", "helper">> \in Quiet
          /\ <<"closeSession", "helper">> \in Quiet
      BY CallsKnown DEF Sessions, Modes
    <3>. DEFINE u == CreateSession("helper", "AUTO")  r == ReceiveMessage("helper")
                e == CloseSession("helper")
    <3>. HIDE DEF Quiet
    <3>2. /\ u \in Seq(Quiet) /\ Len(u) = 1 /\ r \in Seq(Quiet) /\ Len(r) = 4
          /\ e \in Seq(Quiet) /\ Len(e) = 1
      BY <3>1 DEF CreateSession, ReceiveMessage, CloseSession
    <3>. HIDE DEF u, r, e
    <3>3. u \o r \in Seq(Quiet) /\ Joins(u \o r, u, r)
      BY <3>2, Joined
    <3>4. (u \o r) \o e \in Seq(Quiet) /\ Joins((u \o r) \o e, u \o r, e)
      BY <3>2, <3>3, Joined
    <3>5. Len(u \o r) = Len(u) + Len(r) /\ Len((u \o r) \o e) = Len(u \o r) + Len(e)
      BY <3>3, <3>4 DEF Joins
    <3>6. g = (u \o r) \o e
      BY DEF GetMessageFromQueue, u, r, e
    <3>. HIDE DEF g
    <3>. QED
      BY <3>2, <3>4, <3>5, <3>6
  <2>5. Do("assertNull") \in Seq(BodyCalls) /\ Len(Do("assertNull")) = 1
        /\ Do("assertNull")[1] = <<"assertNull">>
    <3>1. <<"assertNull">> \in BodyCalls
      BY CallsKnown
    <3>. QED
      BY <3>1 DEF Do
  <2>6. g \in Seq(BodyCalls) /\ \A i \in 1..6 :
          g[i][1] \notin {"send", "commit", "assertText", "assertNull"}
    <3>1. Quiet \subseteq BodyCalls
      OBVIOUS
    <3>3. \A x \in Quiet : x[1] \notin {"send", "commit", "assertText", "assertNull"}
      OBVIOUS
    <3>. HIDE DEF Quiet, g
    <3>2. \A i \in 1..6 : g[i] \in Quiet
      BY <2>4, ElementOfSeq
    <3>4. g \in Seq(BodyCalls)
      BY <2>4, <3>1, SeqMonotonic
    <3>. QED
      BY <3>2, <3>3, <3>4
  <2>7. Q \in Seq(BodyCalls) /\ Joins(Q, g, Do("assertNull"))
    BY <2>5, <2>6, Joined DEF CheckQueueIsEmpty
  <2>. HIDE DEF c, g, Q, b, S, Quiet
  <2>8. Joins(b, c, Q)
    BY <2>1, <2>3, <2>7, Joined
  <2>9. /\ Len(c) = L + 1 /\ \A i \in 1..L : c[i] = Told(t)[i]
        /\ c[L + 1] = <<"commit">>
    BY <2>2, <2>3 DEF Joins
  <2>10. /\ Len(Q) = 7 /\ \A i \in 1..6 : Q[i] = g[i]
         /\ Q[7] = <<"assertNull">>
    <3>1. Len(Q) = 6 + 1 /\ \A i \in 1..6 : Q[i] = g[i]
      BY <2>4, <2>5, <2>7 DEF Joins
    <3>2. Q[6 + 1] = <<"assertNull">>
      BY <2>4, <2>5, <2>7 DEF Joins
    <3>. QED
      BY <3>1, <3>2
  <2>. HIDE DEF L
  <2>11. /\ Len(b) = Len(c) + 7
         /\ \A i \in 1..Len(c) : b[i] = c[i]
         /\ \A i \in 1..7 : b[Len(c) + i] = Q[i]
    BY <2>8, <2>10 DEF Joins
  <2>12. Len(b) = L + 8 /\ Len(S) = L + 17
    BY <1>1, <1>2, <2>9, <2>11
  <2>13. ASSUME NEW i \in 1..L PROVE S[8 + i] = Told(t)[i]
    <3>1. i \in 1..Len(b) /\ i \in 1..Len(c)
      BY <1>2, <2>9, <2>12
    <3>. QED
      BY <3>1, <1>1, <2>9, <2>11
  <2>14. S[L + 9] = <<"commit">>
    <3>1. L + 1 \in 1..Len(b) /\ L + 1 \in 1..Len(c) /\ 8 + (L + 1) = L + 9
      BY <1>2, <2>9, <2>12
    <3>. QED
      BY <3>1, <1>1, <2>9, <2>11
  <2>15. ASSUME NEW i \in L + 10..L + 17
         PROVE  /\ S[i][1] \notin {"send", "commit", "assertText"}
                /\ S[i][1] = "assertNull" => i = L + 16
    <3>1. CASE i = L + 17
      <4>1. S[i] = <<"close">>
        BY <3>1, <1>1, <1>2, <2>12
      <4>. QED
        BY <4>1
    <3>2. CASE i # L + 17
      <4>. DEFINE j == i - (L + 9)
      <4>1. j \in 1..7 /\ i = L + 9 + j /\ Len(c) + j = L + 1 + j
            /\ L + 1 + j \in 1..Len(b) /\ 8 + (L + 1 + j) = i
        BY <3>2, <1>2, <2>9, <2>12
      <4>. HIDE DEF j
      <4>2. S[i] = Q[j]
        BY <4>1, <1>1, <2>11
      <4>3. CASE j = 7
        BY <4>1, <4>2, <4>3, <2>10, <1>2
      <4>4. CASE j # 7
        <5>1. j \in 1..6
          BY <4>1, <4>4
        <5>. QED
          BY <5>1, <4>2, <2>6, <2>10
      <4>. QED
        BY <4>3, <4>4
    <3>. QED
      BY <3>1, <3>2
  <2>. QED
    BY <1>2, <1>4, <2>12, <2>13, <2>14, <2>15 DEF S, L
<1>. QED
  BY <1>3, <1>4

-----------------------------------------------------------------------------
(* What the broker holds                                                   *)

(* A set of naturals has a least element. *)
LEMMA Least ==
  ASSUME NEW T \in SUBSET Nat, T # {}
  PROVE  \E x \in T : \A y \in T : x <= y
<1>1. IsWellFoundedOn(OpToRel(<, Nat), Nat)
  BY NatLessThanWellFounded
<1>2. \E x \in T : \A y \in T : ~(<<y, x>> \in OpToRel(<, Nat))
  BY <1>1, WFMin
<1>3. \A x, y \in T : <<y, x>> \in OpToRel(<, Nat) <=> y < x
  BY DEF OpToRel
<1>4. \A x, y \in T : (~(y < x)) => x <= y
  OBVIOUS
<1>. QED
  BY <1>2, <1>3, <1>4

(* The buffers of the consumers in one sequence.                           *)
LEMMA Flattened ==
  ASSUME NEW M, NEW s \in Seq(Seq(M))
  PROVE  FlattenSeq(s) \in Seq(M) /\ (Len(s) = 1 => FlattenSeq(s) = s[1])
<1>0. CASE Len(s) = 0
  BY <1>0 DEF FlattenSeq
<1>1. CASE Len(s) # 0
  <2>. DEFINE D == 1..Len(s)
              Def(f) == [i \in D |-> IF i = 1 THEN s[i] ELSE f[i-1] \o s[i]]
              F == CHOOSE f : f = Def(f)
              Built(k) == \E f \in [1..k -> Seq(M)] : \A i \in 1..k :
                             f[i] = IF i = 1 THEN s[i] ELSE f[i-1] \o s[i]
              T == {k \in D : ~Built(k)}
  <2>1. FlattenSeq(s) = F[Len(s)]
    BY <1>1 DEF FlattenSeq
  <2>2. Built(1)
    <3>. DEFINE g == [i \in 1..1 |-> s[1]]
    <3>1. g \in [1..1 -> Seq(M)] /\ \A i \in 1..1 : g[i] = s[i] /\ i = 1
      BY <1>1
    <3>. HIDE DEF g
    <3>. QED
      BY <3>1
  <2>3. ASSUME NEW k \in D, k > 1, Built(k-1) PROVE Built(k)
    <3>1. PICK f \in [1..k-1 -> Seq(M)] : \A i \in 1..k-1 :
                             f[i] = IF i = 1 THEN s[i] ELSE f[i-1] \o s[i]
      BY <2>3
    <3>a. k \in Nat /\ k > 1 /\ s[k] \in Seq(M)
      BY <2>3
    <3>. HIDE DEF Built
    <3>. DEFINE e == f[k-1] \o s[k]
    <3>2. e \in Seq(M)
      BY <3>a, ConcatProperties
    <3>b. e = f[k-1] \o s[k]
      OBVIOUS
    <3>. HIDE DEF e
    <3>. DEFINE g == [i \in 1..k |-> IF i < k THEN f[i] ELSE e]
    <3>3. g \in [1..k -> Seq(M)]
      BY <3>a, <3>2
    <3>4. g[k] = e /\ g[k-1] = f[k-1]
      BY <3>a
    <3>5. \A i \in 1..k-1 : g[i] = f[i] /\ (i # 1 => g[i-1] = f[i-1])
      BY <3>a
    <3>. HIDE DEF g
    <3>6. ASSUME NEW i \in 1..k PROVE g[i] = IF i = 1 THEN s[i] ELSE g[i-1] \o s[i]
      <4>1. CASE i = k
        <5>1. i # 1 /\ g[i] = e /\ g[i-1] = f[k-1] /\ s[i] = s[k]
          BY <4>1, <3>a, <3>4
        <5>. QED
          BY <5>1, <3>b
      <4>2. CASE i # k
        <5>1. i \in 1..k-1
          BY <4>2, <3>a
        <5>. QED
          BY <5>1, <3>1, <3>5
      <4>. QED
        BY <4>1, <4>2
    <3>. QED
      BY <3>3, <3>6 DEF Built
  <2>4. T = {}
    <3>. HIDE DEF Built
    <3>1. SUFFICES ASSUME T # {} PROVE FALSE
      OBVIOUS
    <3>a. T \in SUBSET Nat
      OBVIOUS
    <3>b. \A y \in T : y \in D /\ ~Built(y)
      OBVIOUS
    <3>c. \A y \in D : ~Built(y) => y \in T
      OBVIOUS
    <3>. HIDE DEF T
    <3>2. PICK x \in T : \A y \in T : x <= y
      BY <3>1, <3>a, Least
    <3>3. x # 1 /\ x - 1 \in D /\ x \in D /\ ~Built(x) /\ x - 1 \notin T
      BY <2>2, <3>2, <3>a, <3>b
    <3>4. Built(x-1)
      BY <3>3, <3>c
    <3>. QED
      BY <3>3, <3>4, <2>3, <3>b
  <2>5. PICK f \in [D -> Seq(M)] : \A i \in D : f[i] = IF i = 1 THEN s[i] ELSE f[i-1] \o s[i]
    <3>1. Len(s) \in D
      BY <1>1
    <3>. QED
      BY <2>4, <3>1
  <2>6. f = Def(f)
    BY <2>5
  <2>7. F = Def(F)
    BY <2>6
  <2>. HIDE DEF F, Built, T
  <2>8. /\ \A i \in D : F[i] = IF i = 1 THEN s[i] ELSE F[i-1] \o s[i]
        /\ 1 \in D /\ Len(s) \in D /\ \A i \in D : s[i] \in Seq(M)
    <3>1. 1 \in D /\ Len(s) \in D /\ \A i \in D : s[i] \in Seq(M)
      BY <1>1
    <3>2. \A g : g = Def(g) => \A i \in D : g[i] = IF i = 1 THEN s[i] ELSE g[i-1] \o s[i]
      OBVIOUS
    <3>3. \A i \in D : F[i] = IF i = 1 THEN s[i] ELSE F[i-1] \o s[i]
      BY <2>7, <3>2, Zenon
    <3>. QED
      BY <3>1, <3>3
  <2>9. F[1] = s[1]
    BY <2>8
  <2>. DEFINE U == {k \in D : F[k] \notin Seq(M)}
  <2>10. U = {}
    <3>1. SUFFICES ASSUME U # {} PROVE FALSE
      OBVIOUS
    <3>2. U \in SUBSET Nat /\ \A y \in D : y \in U <=> F[y] \notin Seq(M)
      OBVIOUS
    <3>3. \A y \in U : y \in D
      OBVIOUS
    <3>. HIDE DEF U
    <3>4. PICK x \in U : \A y \in U : x <= y
      BY <3>1, <3>2, Least
    <3>5. x # 1 /\ x - 1 \in D /\ x \in D /\ x - 1 \notin U
      BY <2>8, <2>9, <3>2, <3>3, <3>4
    <3>6. F[x-1] \in Seq(M) /\ s[x] \in Seq(M) /\ F[x] = F[x-1] \o s[x]
      BY <2>8, <3>2, <3>5
    <3>7. F[x] \in Seq(M)
      BY <3>6, ConcatProperties
    <3>. QED
      BY <3>2, <3>4, <3>5, <3>7
  <2>11. F[Len(s)] \in Seq(M)
    BY <2>8, <2>10
  <2>. QED
    BY <2>1, <2>9, <2>11
<1>. QED
  BY <1>0, <1>1

(* Empty buffers hold nothing.                                             *)
LEMMA EmptyFlattened ==
  ASSUME NEW M, NEW s \in Seq(Seq(M)), \A i \in DOMAIN s : s[i] = <<>>
  PROVE  FlattenSeq(s) = <<>>
<1>1. s \in Seq(Seq({}))
  <2>1. <<>> \in Seq({})
    OBVIOUS
  <2>2. \A i \in 1..Len(s) : s[i] \in Seq({})
    BY <2>1
  <2>3. Len(s) \in Nat /\ s = [i \in 1..Len(s) |-> s[i]]
    OBVIOUS
  <2>. QED
    BY <2>2, <2>3, IsASeq
<1>2. FlattenSeq(s) \in Seq({})
  BY <1>1, Flattened
<1>3. \A x \in Seq({}) : x = <<>>
  <2>1. ASSUME NEW x \in Seq({}), x # <<>> PROVE FALSE
    <3>1. 1 \in 1..Len(x)
      BY <2>1
    <3>2. x[1] \in {}
      BY <3>1, ElementOfSeq
    <3>. QED
      BY <3>2
  <2>. QED
    BY <2>1
<1>. QED
  BY <1>2, <1>3

(* What the calls are about.                                               *)
LEMMA CallTypes ==
  ASSUME NEW c \in BodyCalls
  PROVE  /\ c[1] = "createSession" => c[2] \in Sessions /\ c[3] \in Modes
         /\ c[1] \in {"createConsumer", "receive", "closeSession"} => c[2] \in Sessions
         /\ c[1] \in {"send", "assertText"} => c[2] \in {1, 2}
         /\ c[1] # "whileReceived"
  BY DEF BodyCalls

-----------------------------------------------------------------------------
(* The invariant                                                           *)

(* The messages sent by the first k tests.                                 *)
MessagesOf(k) == [text : Tests \X {1, 2}, id : (0..k) \X Nat]

SessionOf(M) ==
  [mode : Modes \union {"closed"}, sent : Seq(M), taken : Seq(M), consumers : Seq(Seq(M))]

(* The broker and the sessions have messages of M only.                    *)
Holding(M) ==
  /\ session \in [Sessions -> SessionOf(M)]
  /\ queue \in Seq(M) /\ pending \in SUBSET M
  /\ received \in M \union {NoMessage}

Typed ==
  /\ test \in Tests \union {"none"} /\ n \in Nat /\ pc \in Nat
  /\ Running => pc \in 1..End
  /\ Holding(MessagesOf(n)) /\ orphaned \in Seq(MessagesOf(n))

(* Whoever receives has a consumer.                                        *)
Prepared == Running /\ IsOp("receive") => session[Call[2]].consumers # <<>>

AllClosed == session = [s \in Sessions |-> Closed]

AtRest == ~Running => AllClosed /\ received = NoMessage

(* The messages of the running test, or of the last one.                   *)
OwnPending == {m \in pending : m.id[1] = n}

(* The helper's session in setUp, and what a null received in it says.     *)
SetUpInv ==
  /\ session["session"] = Closed
  /\ OwnPending = {}
  /\ pc \in {1, 2, 8} => session["helper"] = Closed
  /\ pc \in {3, 4} => session["helper"] = Opened("AUTO")
  /\ pc \in {5, 6, 7} =>
       session["helper"].mode = "AUTO" /\ Len(session["helper"].consumers) = 1
  /\ pc = 5 => session["helper"].taken = <<>>
  /\ pc \in {6, 7} /\ received = NoMessage =>
       /\ session["helper"].taken = <<>>
       /\ session["helper"].consumers[1] = <<>>
  /\ pc \in {6, 7, 8} /\ received = NoMessage => queue = <<>>

(* s holds the message k of test t, and nothing else.                      *)
Holds(t, s, k) == IF k = 0 THEN s = <<>> ELSE Len(s) = 1 /\ s[1].text = <<t, k>>

(* No consumer has a message.                                              *)
NoneIn(buffers) == \A c \in DOMAIN buffers : buffers[c] = <<>>

(* The message k is in the broker's queue or in the buffer of a consumer.  *)
OnItsWay(t, k, waiting, buffers, others) ==
  \/ Holds(t, waiting, k) /\ NoneIn(buffers) /\ NoneIn(others)
  \/ waiting = <<>> /\ NoneIn(others) /\ Len(buffers) = 1 /\ Holds(t, buffers[1], k)
  \/ waiting = <<>> /\ NoneIn(buffers) /\ Len(others) = 1 /\ Holds(t, others[1], k)

(* The messages that somebody has and nobody has acknowledged.             *)
Buffered(buffers) == UNION {ToSet(buffers[c]) : c \in DOMAIN buffers}
Unacknowledged(x, y, waiting) ==
  ToSet(waiting) \union Buffered(x.consumers) \union Buffered(y.consumers)
    \union ToSet(x.taken) \union ToSet(y.taken)

(* The session x of the test t and the one of its helpers, y, are in phase *)
(* p, with what waits in the queue, the pending messages of the test and   *)
(* the one received last.                                                  *)
Phase(t, p, x, y, waiting, own, last) ==
  /\ x.mode = p.mode /\ Holds(t, x.sent, p.sent) /\ Holds(t, x.taken, p.taken)
  /\ Len(x.consumers) = p.n
  /\ y.mode = p.helper /\ y.sent = <<>> /\ Holds(t, y.taken, p.htaken)
  /\ Len(y.consumers) = p.hn
  /\ OnItsWay(t, p.flight, waiting, x.consumers, y.consumers)
  /\ own \subseteq Unacknowledged(x, y, waiting)
  /\ IF p.got = 0 THEN last = NoMessage ELSE last.text = <<t, p.got>>

InPhase(t, p) ==
  Phase(t, p, session["session"], session["helper"], queue, OwnPending, received)

(* After the last commit of transactedWithRollback its message + "2" is    *)
(* pending, and nothing else.                                              *)
OnlySecond == \A m \in OwnPending : m.text = <<"transactedWithRollback", 2>>

CourseInv ==
  IF pc - 8 <= Len(Told(test)) + 1
  THEN InPhase(test, CourseOf(test)[pc - 8])
  ELSE test = "transactedWithRollback" /\ OnlySecond

Excused ==
  <<"transactedWithRollback", Len(Scripts["transactedWithRollback"]) - 1>>

TestInv ==
  /\ Running /\ pc <= 8 => SetUpInv
  /\ Running /\ pc > 8 => CourseInv
  /\ ~Running => OnlySecond
  /\ failed \in {<<>>, Excused}

JmsInv == Prepared /\ AtRest /\ (~disturbed => TestInv)

(* What a session of messages of M hands back when it is closed.           *)
LEMMA Handed ==
  ASSUME NEW M,
         NEW s \in SessionOf(M)
  PROVE  /\ Delivered(s) \in Seq(M) /\ ReturnedAtClose(s) \in Seq(M)
         /\ AcknowledgedAtClose(s) \in Seq(M)
<1>1. s.taken \in Seq(M) /\ s.consumers \in Seq(Seq(M))
  BY DEF SessionOf
<1>2. FlattenSeq(s.consumers) \in Seq(M)
  BY <1>1, Flattened
<1>3. s.taken \o FlattenSeq(s.consumers) \in Seq(M)
  BY <1>1, <1>2, ConcatProperties
<1>4. <<>> \in Seq(M)
  OBVIOUS
<1>. QED
  BY <1>1, <1>2, <1>3, <1>4 DEF Delivered, ReturnedAtClose, AcknowledgedAtClose

(* The state of a session, field by field.                                 *)
Has(x, mode, sent, taken, consumers) ==
  /\ x.mode = mode /\ x.sent = sent /\ x.taken = taken /\ x.consumers = consumers

(* Sessions of messages stay such, and what their updates change.          *)
LEMMA SessionUpdates ==
  ASSUME NEW M
  PROVE  /\ Closed \in SessionOf(M) /\ Has(Closed, "closed", <<>>, <<>>, <<>>)
         /\ \A mode \in Modes :
              Opened(mode) \in SessionOf(M) /\ Has(Opened(mode), mode, <<>>, <<>>, <<>>)
         /\ \A x \in SessionOf(M) :
              /\ x.mode \in Modes \union {"closed"}
              /\ x.sent \in Seq(M) /\ x.taken \in Seq(M) /\ x.consumers \in Seq(Seq(M))
              /\ \A v \in Seq(M) :
                   /\ [x EXCEPT !.sent = v] \in SessionOf(M)
                   /\ Has([x EXCEPT !.sent = v], x.mode, v, x.taken, x.consumers)
                   /\ [x EXCEPT !.taken = v] \in SessionOf(M)
                   /\ Has([x EXCEPT !.taken = v], x.mode, x.sent, v, x.consumers)
              /\ \A w \in Seq(Seq(M)) :
                   /\ [x EXCEPT !.consumers = w] \in SessionOf(M)
                   /\ Has([x EXCEPT !.consumers = w], x.mode, x.sent, x.taken, w)
<1>1. <<>> \in Seq(M) /\ <<>> \in Seq(Seq(M))
  OBVIOUS
<1>2. Closed \in SessionOf(M) /\ Has(Closed, "closed", <<>>, <<>>, <<>>)
  BY <1>1 DEF Closed, SessionOf, Has
<1>3. ASSUME NEW mode \in Modes
      PROVE Opened(mode) \in SessionOf(M) /\ Has(Opened(mode), mode, <<>>, <<>>, <<>>)
  <2>1. Opened(mode) = [mode |-> mode, sent |-> <<>>, taken |-> <<>>, consumers |-> <<>>]
    BY DEF Opened, Closed
  <2>. QED
    BY <1>1, <2>1 DEF SessionOf, Has
<1>4. ASSUME NEW x \in SessionOf(M), NEW v \in Seq(M), NEW w \in Seq(Seq(M))
      PROVE  /\ x.mode \in Modes \union {"closed"}
             /\ x.sent \in Seq(M) /\ x.taken \in Seq(M) /\ x.consumers \in Seq(Seq(M))
             /\ [x EXCEPT !.sent = v] \in SessionOf(M)
             /\ Has([x EXCEPT !.sent = v], x.mode, v, x.taken, x.consumers)
             /\ [x EXCEPT !.taken = v] \in SessionOf(M)
             /\ Has([x EXCEPT !.taken = v], x.mode, x.sent, v, x.consumers)
             /\ [x EXCEPT !.consumers = w] \in SessionOf(M)
             /\ Has([x EXCEPT !.consumers = w], x.mode, x.sent, x.taken, w)
  BY DEF SessionOf, Has
<1>. HIDE DEF SessionOf, Has
<1>. QED
  BY <1>1, <1>2, <1>3, <1>4

(* The state of session s becomes that, and the other session stays.       *)
Turns(s, mode, sent, taken, consumers) ==
  /\ Has(session'[s], mode, sent, taken, consumers)
  /\ \A r \in Sessions \ {s} : session'[r] = session[r]

(* The state of one session is replaced.                                   *)
LEMMA OneUpdated ==
  ASSUME NEW M, session \in [Sessions -> SessionOf(M)], NEW s \in Sessions,
         NEW x \in SessionOf(M), session' = [session EXCEPT ![s] = x],
         NEW mode, NEW sent, NEW taken, NEW consumers, Has(x, mode, sent, taken, consumers)
  PROVE  session' \in [Sessions -> SessionOf(M)] /\ Turns(s, mode, sent, taken, consumers)
<1>. HIDE DEF SessionOf, Has
<1>. QED
  BY DEF Turns

-----------------------------------------------------------------------------
(* What each call does to the sessions                                     *)

(* What the sessions and the broker hold, one by one.                      *)
LEMMA Held ==
  ASSUME NEW M, Holding(M)
  PROVE  /\ session \in [Sessions -> SessionOf(M)]
         /\ queue \in Seq(M) /\ pending \in SUBSET M /\ received \in M \union {NoMessage}
         /\ \A s \in Sessions :
              /\ session[s] \in SessionOf(M)
              /\ session[s].mode \in Modes \union {"closed"}
              /\ session[s].sent \in Seq(M) /\ session[s].taken \in Seq(M)
              /\ session[s].consumers \in Seq(Seq(M))
         /\ {"session", "helper"} = Sessions
<1>1. session \in [Sessions -> SessionOf(M)]
  BY DEF Holding
<1>2. \A s \in Sessions : session[s] \in SessionOf(M)
  BY <1>1
<1>. QED
  BY <1>1, <1>2, SessionUpdates DEF Holding, Sessions

(* createSession opens a session that has nothing.                         *)
LEMMA OpenSessionEffect ==
  ASSUME NEW M, Holding(M), Call \in BodyCalls, OpenSession
  PROVE  /\ Call[2] \in Sessions /\ Call[3] \in Modes
         /\ Holding(M)' /\ Turns(Call[2], Call[3], <<>>, <<>>, <<>>)
         /\ jmsConnection' = jmsConnection /\ queue' = queue /\ pending' = pending
         /\ received' = received
<1>1. Call[2] \in Sessions /\ Call[3] \in Modes
  BY CallTypes DEF OpenSession, IsOp
<1>2. Opened(Call[3]) \in SessionOf(M) /\ Has(Opened(Call[3]), Call[3], <<>>, <<>>, <<>>)
  BY <1>1, SessionUpdates
<1>3. session' = [session EXCEPT ![Call[2]] = Opened(Call[3])]
  BY DEF OpenSession
<1>4. session' \in [Sessions -> SessionOf(M)] /\ Turns(Call[2], Call[3], <<>>, <<>>, <<>>)
  BY <1>1, <1>2, <1>3, Held, OneUpdated
<1>. QED
  BY <1>1, <1>4 DEF OpenSession, Holding

(* send adds a message to the transaction of the session or to the queue.  *)
LEMMA SendEffect ==
  ASSUME NEW M, Holding(M), Call \in BodyCalls, Send,
         NEW m, m = [text |-> <<test, Call[2]>>, id |-> <<n, pc>>], m \in M
  PROVE  /\ Call[2] \in {1, 2} /\ Holding(M)' /\ received' = received
         /\ jmsConnection' = jmsConnection
         /\ \/ /\ session["session"].mode = "TRANSACTED"
               /\ Turns("session", "TRANSACTED", Append(session["session"].sent, m),
                        session["session"].taken, session["session"].consumers)
               /\ queue' = queue /\ pending' = pending
            \/ /\ session["session"].mode # "TRANSACTED" /\ session' = session
               /\ queue' = Append(queue, m) /\ pending' = pending \union {m}
<1>. DEFINE x == session["session"]
<1>1. /\ Call[2] \in {1, 2} /\ received' = received
      /\ jmsConnection' = jmsConnection
  BY CallTypes DEF Send, IsOp
<1>2. "session" \in Sessions /\ x \in SessionOf(M) /\ x.sent \in Seq(M) /\ queue \in Seq(M)
      /\ session \in [Sessions -> SessionOf(M)]
  BY Held DEF Sessions
<1>3. Append(x.sent, m) \in Seq(M) /\ Append(queue, m) \in Seq(M)
  BY <1>2
<1>4. CASE x.mode = "TRANSACTED"
  <2>1. /\ session' = [session EXCEPT !["session"] = [x EXCEPT !.sent = Append(x.sent, m)]]
        /\ queue' = queue /\ pending' = pending
    BY <1>4 DEF Send, Mine
  <2>. DEFINE y == [x EXCEPT !.sent = Append(x.sent, m)]
  <2>2. y \in SessionOf(M) /\ Has(y, x.mode, Append(x.sent, m), x.taken, x.consumers)
    BY <1>2, <1>3, SessionUpdates
  <2>. HIDE DEF y
  <2>3. /\ session' \in [Sessions -> SessionOf(M)]
        /\ Turns("session", x.mode, Append(x.sent, m), x.taken, x.consumers)
    BY <1>2, <2>1, <2>2, OneUpdated DEF y
  <2>. QED
    BY <1>1, <1>4, <2>1, <2>3, Held DEF Holding
<1>5. CASE x.mode # "TRANSACTED"
  <2>1. /\ session' = session
        /\ queue' = Append(queue, m) /\ pending' = pending \union {m}
    BY <1>5 DEF Send, Mine
  <2>. QED
    BY <1>1, <1>2, <1>3, <1>5, <2>1, Held DEF Holding
<1>. QED
  BY <1>4, <1>5

(* createConsumer adds an empty buffer.                                    *)
LEMMA CreateConsumerEffect ==
  ASSUME NEW M, Holding(M), Call \in BodyCalls, CreateConsumer
  PROVE  /\ Call[2] \in Sessions /\ Holding(M)'
         /\ Turns(Call[2], session[Call[2]].mode, session[Call[2]].sent,
                  session[Call[2]].taken, Append(session[Call[2]].consumers, <<>>))
         /\ jmsConnection' = jmsConnection /\ queue' = queue /\ pending' = pending
         /\ received' = received
<1>1. Call[2] \in Sessions
  BY CallTypes DEF CreateConsumer, IsOp
<1>. DEFINE x == session[Call[2]]  w == Append(x.consumers, <<>>)
<1>2. x \in SessionOf(M) /\ x.consumers \in Seq(Seq(M))
  BY <1>1, Held
<1>3. session' = [session EXCEPT ![Call[2]] = [x EXCEPT !.consumers = w]]
  BY DEF CreateConsumer
<1>. HIDE DEF x
<1>4. w \in Seq(Seq(M))
  <2>1. <<>> \in Seq(M)
    OBVIOUS
  <2>. QED
    BY <1>2, <2>1, AppendProperties
<1>. HIDE DEF w
<1>5. /\ [x EXCEPT !.consumers = w] \in SessionOf(M)
      /\ Has([x EXCEPT !.consumers = w], x.mode, x.sent, x.taken, w)
  BY <1>2, <1>4, SessionUpdates
<1>6. session' \in [Sessions -> SessionOf(M)] /\ Turns(Call[2], x.mode, x.sent, x.taken, w)
  BY <1>1, <1>3, <1>5, Held, OneUpdated
<1>7. /\ jmsConnection' = jmsConnection /\ queue' = queue /\ pending' = pending
      /\ received' = received
  BY DEF CreateConsumer
<1>8. Holding(M)'
  BY <1>6, <1>7, Held DEF Holding
<1>. QED
  BY <1>1, <1>6, <1>7, <1>8 DEF w, x

(* receive hands over the first message in the buffer of the last consumer *)
(* or finds buffer and queue empty.                                        *)
LEMMA ReceiveEffect ==
  ASSUME NEW M, Holding(M), Call \in BodyCalls, Receive, Running, Prepared
  PROVE  /\ Call[2] \in Sessions /\ Holding(M)'
         /\ session[Call[2]].consumers # <<>> /\ Buffer(Call[2]) \in Seq(M)
         /\ jmsConnection' = jmsConnection /\ queue' = queue /\ pending' = pending
         /\ \/ /\ Buffer(Call[2]) # <<>> /\ received' = Head(Buffer(Call[2]))
               /\ Turns(Call[2], session[Call[2]].mode, session[Call[2]].sent,
                        Append(session[Call[2]].taken, Head(Buffer(Call[2]))),
                        Append(Front(session[Call[2]].consumers), Tail(Buffer(Call[2]))))
            \/ /\ Buffer(Call[2]) = <<>> /\ queue = <<>> /\ received' = NoMessage
               /\ session' = session
<1>1. Call[2] \in Sessions /\ session[Call[2]].consumers # <<>>
  BY CallTypes DEF Receive, IsOp, Prepared
<1>. DEFINE s == Call[2]  x == session[s]  c == x.consumers  b == Buffer(s)
<1>2. x \in SessionOf(M) /\ c \in Seq(Seq(M)) /\ x.taken \in Seq(M)
  BY <1>1, Held
<1>3. Len(c) \in 1..Len(c) /\ b = c[Len(c)] /\ b \in Seq(M)
  <2>1. Len(c) \in 1..Len(c)
    BY <1>1, <1>2
  <2>2. b = c[Len(c)]
    BY DEF Buffer, Last
  <2>. QED
    BY <1>2, <2>1, <2>2, ElementOfSeq
<1>4. jmsConnection' = jmsConnection /\ queue' = queue /\ pending' = pending
  BY DEF Receive
<1>5. CASE b # <<>> /\ received' = Head(b)
           /\ session' = [session EXCEPT
                ![s].taken = Append(@, received'),
                ![s].consumers = Append(Front(@), Tail(Last(@)))]
  <2>. DEFINE v == Append(x.taken, Head(b))  w == Append(Front(c), Tail(b))
              y == [x EXCEPT !.taken = v]  z == [y EXCEPT !.consumers = w]
  <2>1. session' = [session EXCEPT ![s] = z]
    BY <1>5, <1>1, <1>2, Held DEF Buffer, SessionOf
  <2>2. Head(b) \in M /\ Tail(b) \in Seq(M) /\ v \in Seq(M)
    BY <1>2, <1>3, <1>5
  <2>3. Front(c) \in Seq(Seq(M))
    BY <1>2, <1>3 DEF Front
  <2>4. w \in Seq(Seq(M))
    BY <2>2, <2>3, AppendProperties
  <2>. HIDE DEF v, w
  <2>5. y \in SessionOf(M) /\ Has(y, x.mode, x.sent, v, c)
    BY <1>2, <2>2, SessionUpdates
  <2>. HIDE DEF y
  <2>6. z \in SessionOf(M) /\ Has(z, y.mode, y.sent, y.taken, w)
    BY <2>4, <2>5, SessionUpdates
  <2>. HIDE DEF z
  <2>7. Has(z, x.mode, x.sent, v, w)
    BY <2>5, <2>6 DEF Has
  <2>8. session' \in [Sessions -> SessionOf(M)] /\ Turns(s, x.mode, x.sent, v, w)
    BY <1>1, <2>1, <2>6, <2>7, Held, OneUpdated DEF z, y
  <2>9. Holding(M)'
    BY <1>4, <1>5, <2>2, <2>8, Held DEF Holding
  <2>. QED
    BY <1>1, <1>3, <1>4, <1>5, <2>8, <2>9 DEF v, w
<1>6. CASE b = <<>> /\ queue = <<>> /\ received' = NoMessage /\ session' = session
  BY <1>1, <1>3, <1>4, <1>6, Held DEF Holding
<1>. QED
  BY <1>5, <1>6 DEF Receive

(* What a set of messages and the messages of a sequence leave.            *)
LEMMA MessagesIn ==
  ASSUME NEW M
  PROVE  \A a \in Seq(M) : ToSet(a) \in SUBSET M
<1>1. ASSUME NEW a \in Seq(M), NEW e \in ToSet(a) PROVE e \in M
  <2>1. PICK i \in DOMAIN a : e = a[i]
    BY DEF ToSet
  <2>2. i \in 1..Len(a)
    BY <2>1
  <2>. QED
    BY <2>1, <2>2, ElementOfSeq
<1>. QED
  BY <1>1

(* acknowledge forgets what the session of the test has taken.             *)
LEMMA AcknowledgeEffect ==
  ASSUME NEW M, Holding(M), Acknowledge
  PROVE  /\ Holding(M)'
         /\ Turns("session", session["session"].mode, session["session"].sent, <<>>,
                  session["session"].consumers)
         /\ jmsConnection' = jmsConnection /\ queue' = queue /\ received' = received
         /\ pending' = pending \ ToSet(session["session"].taken)
<1>. DEFINE x == session["session"]
<1>1. x \in SessionOf(M) /\ "session" \in Sessions /\ <<>> \in Seq(M)
  BY Held DEF Sessions
<1>2. /\ session' = [session EXCEPT !["session"] = [x EXCEPT !.taken = <<>>]]
      /\ jmsConnection' = jmsConnection /\ queue' = queue /\ received' = received
      /\ pending' = pending \ ToSet(x.taken)
  BY DEF Acknowledge, Mine
<1>. HIDE DEF x
<1>3. /\ [x EXCEPT !.taken = <<>>] \in SessionOf(M)
      /\ Has([x EXCEPT !.taken = <<>>], x.mode, x.sent, <<>>, x.consumers)
  BY <1>1, SessionUpdates
<1>4. /\ session' \in [Sessions -> SessionOf(M)]
      /\ Turns("session", x.mode, x.sent, <<>>, x.consumers)
  BY <1>1, <1>2, <1>3, Held, OneUpdated
<1>5. Holding(M)'
  BY <1>2, <1>4, Held DEF Holding
<1>. QED
  BY <1>2, <1>4, <1>5 DEF x

(* commit sends what the transaction has sent and acknowledges what it has *)
(* received.                                                               *)
LEMMA CommitEffect ==
  ASSUME NEW M, Holding(M), Commit
  PROVE  /\ Holding(M)'
         /\ Turns("session", session["session"].mode, <<>>, <<>>,
                  session["session"].consumers)
         /\ jmsConnection' = jmsConnection /\ received' = received
         /\ queue' = queue \o session["session"].sent
         /\ pending' = (pending \union ToSet(session["session"].sent))
                         \ ToSet(session["session"].taken)
<1>. DEFINE x == session["session"]
<1>1. /\ x \in SessionOf(M) /\ "session" \in Sessions /\ <<>> \in Seq(M)
      /\ x.sent \in Seq(M) /\ queue \in Seq(M) /\ pending \in SUBSET M
  BY Held DEF Sessions
<1>2. /\ jmsConnection' = jmsConnection /\ received' = received
      /\ queue' = queue \o x.sent
      /\ pending' = (pending \union ToSet(x.sent)) \ ToSet(x.taken)
  BY DEF Commit, Mine
<1>. DEFINE y == [x EXCEPT !.sent = <<>>]  z == [y EXCEPT !.taken = <<>>]
<1>3. session' = [session EXCEPT !["session"] = z]
  BY <1>1, Held DEF Commit, SessionOf
<1>. HIDE DEF x
<1>4. y \in SessionOf(M) /\ Has(y, x.mode, <<>>, x.taken, x.consumers)
  BY <1>1, SessionUpdates
<1>. HIDE DEF y
<1>5. z \in SessionOf(M) /\ Has(z, y.mode, y.sent, <<>>, y.consumers)
  BY <1>1, <1>4, SessionUpdates
<1>. HIDE DEF z
<1>6. Has(z, x.mode, <<>>, <<>>, x.consumers)
  BY <1>4, <1>5 DEF Has
<1>7. /\ session' \in [Sessions -> SessionOf(M)]
      /\ Turns("session", x.mode, <<>>, <<>>, x.consumers)
  BY <1>1, <1>3, <1>5, <1>6, Held, OneUpdated
<1>8. queue' \in Seq(M) /\ ToSet(x.sent) \in SUBSET M
  BY <1>1, <1>2, MessagesIn, ConcatProperties
<1>9. pending' \in SUBSET M
  BY <1>1, <1>2, <1>8
<1>10. Holding(M)'
  BY <1>2, <1>7, <1>8, <1>9, Held DEF Holding
<1>. QED
  BY <1>2, <1>7, <1>10 DEF x

(* rollback takes the messages back and leaves the consumers without any.  *)
LEMMA RollbackEffect ==
  ASSUME NEW M, Holding(M), Rollback
  PROVE  /\ Holding(M)'
         /\ Turns("session", session["session"].mode, <<>>, <<>>,
                  [i \in DOMAIN session["session"].consumers |-> <<>>])
         /\ jmsConnection' = jmsConnection /\ received' = received
         /\ queue' = Delivered(session["session"]) \o queue
         /\ pending' = pending
<1>. DEFINE x == session["session"]  w == [i \in DOMAIN x.consumers |-> <<>>]
<1>1. /\ x \in SessionOf(M) /\ "session" \in Sessions /\ <<>> \in Seq(M)
      /\ x.consumers \in Seq(Seq(M)) /\ queue \in Seq(M)
  BY Held DEF Sessions
<1>2. /\ jmsConnection' = jmsConnection /\ received' = received
      /\ queue' = Delivered(x) \o queue /\ pending' = pending
  BY DEF Rollback, Mine
<1>. DEFINE y == [x EXCEPT !.sent = <<>>]  z == [y EXCEPT !.taken = <<>>]
            u == [z EXCEPT !.consumers = w]
<1>3. session' = [session EXCEPT !["session"] = u]
  <2>1. session' = [session EXCEPT !["session"] =
          [x EXCEPT !.sent = <<>>, !.taken = <<>>, !.consumers = w]]
    BY <1>1, Held DEF Rollback, SessionOf
  <2>. QED
    BY <2>1, <1>1 DEF SessionOf
<1>4. w \in Seq(Seq(M))
  <2>1. Len(x.consumers) \in Nat /\ DOMAIN x.consumers = 1..Len(x.consumers)
    BY <1>1
  <2>2. w = [i \in 1..Len(x.consumers) |-> <<>>]
    BY <2>1
  <2>. QED
    BY <1>1, <2>1, <2>2, IsASeq
<1>. HIDE DEF x, w
<1>5. y \in SessionOf(M) /\ Has(y, x.mode, <<>>, x.taken, x.consumers)
  BY <1>1, SessionUpdates
<1>. HIDE DEF y
<1>6. z \in SessionOf(M) /\ Has(z, y.mode, y.sent, <<>>, y.consumers)
  BY <1>1, <1>5, SessionUpdates
<1>. HIDE DEF z
<1>7. u \in SessionOf(M) /\ Has(u, z.mode, z.sent, z.taken, w)
  BY <1>4, <1>6, SessionUpdates
<1>. HIDE DEF u
<1>8. Has(u, x.mode, <<>>, <<>>, w)
  BY <1>5, <1>6, <1>7 DEF Has
<1>9. session' \in [Sessions -> SessionOf(M)] /\ Turns("session", x.mode, <<>>, <<>>, w)
  BY <1>1, <1>3, <1>7, <1>8, Held, OneUpdated
<1>10. queue' \in Seq(M)
  BY <1>1, <1>2, Handed, ConcatProperties
<1>11. Holding(M)'
  BY <1>2, <1>9, <1>10, Held DEF Holding
<1>. QED
  BY <1>2, <1>9, <1>11 DEF x, w

(* closeSession hands back what is not acknowledged.                       *)
LEMMA SessionCloseEffect ==
  ASSUME NEW M, Holding(M), Call \in BodyCalls, SessionClose
  PROVE  /\ Call[2] \in Sessions /\ Holding(M)'
         /\ Turns(Call[2], "closed", <<>>, <<>>, <<>>) /\ session'[Call[2]] = Closed
         /\ jmsConnection' = jmsConnection /\ received' = received
         /\ queue' = ReturnedAtClose(session[Call[2]]) \o queue
         /\ pending' = pending \ ToSet(AcknowledgedAtClose(session[Call[2]]))
<1>1. Call[2] \in Sessions
  BY CallTypes DEF SessionClose, IsOp
<1>2. /\ session[Call[2]] \in SessionOf(M) /\ queue \in Seq(M)
      /\ session \in [Sessions -> SessionOf(M)]
  BY <1>1, Held
<1>3. /\ session' = [session EXCEPT ![Call[2]] = Closed]
      /\ jmsConnection' = jmsConnection /\ received' = received
      /\ queue' = ReturnedAtClose(session[Call[2]]) \o queue
      /\ pending' = pending \ ToSet(AcknowledgedAtClose(session[Call[2]]))
  BY DEF SessionClose
<1>4. /\ session' \in [Sessions -> SessionOf(M)] /\ session'[Call[2]] = Closed
      /\ Turns(Call[2], "closed", <<>>, <<>>, <<>>)
  BY <1>1, <1>2, <1>3, SessionUpdates, OneUpdated
<1>5. queue' \in Seq(M)
  BY <1>2, <1>3, Handed, ConcatProperties
<1>6. Holding(M)'
  BY <1>3, <1>4, <1>5, Held DEF Holding
<1>. QED
  BY <1>1, <1>3, <1>4, <1>6

(* close does the same for both sessions.                                  *)
LEMMA ConnectionCloseEffect ==
  ASSUME NEW M, Holding(M), ConnectionClose
  PROVE  /\ Holding(M)' /\ AllClosed'
         /\ session'["session"] = Closed /\ session'["helper"] = Closed
         /\ jmsConnection' = "none" /\ received' = NoMessage
         /\ queue' = ReturnedAtClose(session["session"])
                       \o ReturnedAtClose(session["helper"]) \o queue
         /\ pending' = pending \ ToSet(AcknowledgedAtClose(session["session"])
                                         \o AcknowledgedAtClose(session["helper"]))
<1>1. /\ session["session"] \in SessionOf(M) /\ session["helper"] \in SessionOf(M)
      /\ queue \in Seq(M) /\ pending \in SUBSET M
  BY Held
<1>2. /\ session' = [s \in Sessions |-> Closed]
      /\ jmsConnection' = "none" /\ received' = NoMessage
      /\ queue' = ReturnedAtClose(session["session"])
                       \o ReturnedAtClose(session["helper"]) \o queue
      /\ pending' = pending \ ToSet(AcknowledgedAtClose(session["session"])
                                         \o AcknowledgedAtClose(session["helper"]))
  BY DEF ConnectionClose, Mine
<1>3. session' \in [Sessions -> SessionOf(M)]
  BY <1>2, SessionUpdates
<1>4. session'["session"] = Closed /\ session'["helper"] = Closed
  BY <1>2 DEF Sessions
<1>5. queue' \in Seq(M)
  BY <1>1, <1>2, Handed, ConcatProperties
<1>6. pending' \in SUBSET M
  BY <1>1, <1>2
<1>7. Holding(M)'
  BY <1>2, <1>3, <1>5, <1>6 DEF Holding
<1>8. AllClosed'
  BY <1>2 DEF AllClosed
<1>. QED
  BY <1>2, <1>4, <1>7, <1>8

(* A call of a body leaves the broker and the sessions messages only.      *)
LEMMA ServedTyped ==
  ASSUME NEW M, Holding(M), Prepared, Running, Call \in BodyCalls, Served,
         \A k \in {1, 2} : [text |-> <<test, k>>, id |-> <<n, pc>>] \in M
  PROVE  Holding(M)'
<1>1. CASE GetConnection \/ Start \/ Stop
  BY <1>1 DEF GetConnection, Start, Stop, Holding
<1>2. CASE Send
  <2>1. Call[2] \in {1, 2}
    BY <1>2, CallTypes DEF Send, IsOp
  <2>. QED
    BY <1>2, <2>1, SendEffect
<1>. QED
  BY <1>1, <1>2, OpenSessionEffect, CreateConsumerEffect, ReceiveEffect, AcknowledgeEffect,
     CommitEffect, RollbackEffect, SessionCloseEffect, ConnectionCloseEffect DEF Served

-----------------------------------------------------------------------------
(* The types                                                               *)

(* A receive in a script follows the creation of its consumer.             *)
LEMMA ReceivesFollow ==
  ASSUME NEW t \in Tests, NEW i \in 1..Len(Scripts[t]), Scripts[t][i][1] = "receive"
  PROVE  i > 1 /\ Scripts[t][i - 1] = <<"createConsumer", Scripts[t][i][2]>>
<1>. DEFINE L == Len(Bodies[t])  S == Scripts[t]  b == Bodies[t]
<1>1. /\ L \in Nat /\ Len(S) = L + 9 /\ S[L + 9] = <<"close">>
      /\ \A j \in 1..8 : S[j] = SetUp[j]
      /\ \A j \in 1..L : S[8 + j] = b[j]
  <2>. HIDE DEF BodyCalls
  <2>. QED
    BY ScriptText
<1>2. \A j \in 1..L : b[j][1] = "receive" => j > 1 /\ b[j - 1] = <<"createConsumer", b[j][2]>>
  <2>1. WellMade(b)
    BY BodiesWellMade
  <2>. HIDE DEF BodyCalls
  <2>2. DOMAIN b = 1..L
    BY <2>1 DEF WellMade
  <2>. QED
    BY <2>1, <2>2 DEF WellMade
<1>3. S[i][1] = "receive"
  OBVIOUS
<1>. HIDE DEF S, b, L
<1>4. CASE i <= 8
  <2>1. i \in 1..8
    BY <1>4, <1>1 DEF S
  <2>2. S[i] = SetUp[i]
    BY <1>1, <2>1
  <2>3. i = 5
    BY <1>3, <2>1, <2>2, SetUpText
  <2>4. S[4] = <<"createConsumer", "helper">> /\ S[5] = <<"receive", "helper">>
    BY <1>1, SetUpText
  <2>. QED
    BY <2>3, <2>4 DEF S
<1>5. CASE i > 8 /\ i <= 8 + L
  <2>. DEFINE j == i - 8
  <2>1. j \in 1..L /\ i = 8 + j
    BY <1>1, <1>5
  <2>. HIDE DEF j
  <2>2. S[i] = b[j]
    BY <1>1, <2>1
  <2>3. j > 1 /\ b[j - 1] = <<"createConsumer", b[j][2]>>
    BY <1>2, <1>3, <2>1, <2>2
  <2>4. j - 1 \in 1..L /\ 8 + (j - 1) = i - 1 /\ i > 1
    BY <1>1, <2>1, <2>3
  <2>5. S[i - 1] = b[j - 1]
    BY <1>1, <2>4
  <2>. QED
    BY <2>2, <2>3, <2>4, <2>5 DEF S
<1>6. CASE i > 8 + L
  <2>1. i = L + 9
    BY <1>1, <1>6 DEF S
  <2>. QED
    BY <1>1, <1>3, <2>1
<1>. QED
  BY <1>1, <1>4, <1>5, <1>6

(* The call that a running test is at.                                     *)
LEMMA CallKnown ==
  ASSUME test \in Tests, pc \in 1..End
  PROVE  /\ End \in Nat /\ End >= 9 /\ pc \in Nat
         /\ pc <= 8 => Call = SetUp[pc]
         /\ IsOp("whileReceived") => Call = <<"whileReceived">> /\ pc = 8
         /\ ~IsOp("whileReceived") => Call \in BodyCalls
         /\ pc = End => Call = <<"close">> /\ IsOp("close")
<1>. DEFINE L == Len(Bodies[test])  S == Scripts[test]
<1>. HIDE DEF BodyCalls
<1>1. /\ Bodies[test] \in Seq(BodyCalls) /\ Len(S) = L + 9
      /\ \A i \in 1..8 : S[i] = SetUp[i]
      /\ \A i \in 1..L : S[8 + i] = Bodies[test][i]
      /\ S[L + 9] = <<"close">>
  BY ScriptText
<1>2. L \in Nat /\ End = L + 9 /\ Call = S[pc]
  BY <1>1 DEF End, Call
<1>3. \A i \in 1..L : Bodies[test][i] \in BodyCalls
  BY <1>1, ElementOfSeq
<1>4. \A c \in BodyCalls : c[1] # "whileReceived"
  BY CallTypes
<1>. HIDE DEF S, L
<1>5. CASE pc <= 8
  <2>1. pc \in 1..8 /\ Call = SetUp[pc]
    BY <1>1, <1>2, <1>5
  <2>2. pc # 8 => Call \in BodyCalls
    <3>1. /\ <<"getConnection">> \in BodyCalls /\ <<"start">> \in BodyCalls
          /\ <<"stop">> \in BodyCalls /\ <<"createSession", "helper", "AUTO">> \in BodyCalls
          /\ <<"createConsumer", "helper">> \in BodyCalls
          /\ <<"receive", "helper">> \in BodyCalls
          /\ <<"closeSession", "helper">> \in BodyCalls
      BY CallsKnown DEF Sessions, Modes
    <3>2. pc \in {1, 2, 3, 4, 5, 6, 7, 8}
      BY <2>1
    <3>. QED
      BY <2>1, <3>1, <3>2, SetUpText
  <2>3. pc = 8 => Call = <<"whileReceived">>
    BY <2>1, SetUpText
  <2>. QED
    BY <1>2, <1>4, <1>5, <2>1, <2>2, <2>3 DEF IsOp
<1>6. CASE pc > 8 /\ pc <= 8 + L
  <2>. DEFINE j == pc - 8
  <2>1. j \in 1..L /\ pc = 8 + j
    BY <1>2, <1>6
  <2>. HIDE DEF j
  <2>2. Call \in BodyCalls
    BY <1>1, <1>2, <1>3, <2>1 
  <2>. QED
    BY <1>2, <1>4, <1>6, <2>2 DEF IsOp
<1>7. CASE pc > 8 + L
  <2>1. pc = End /\ Call = <<"close">>
    BY <1>1, <1>2, <1>7
  <2>2. <<"close">> \in BodyCalls
    BY CallsKnown
  <2>. QED
    BY <1>2, <1>4, <2>1, <2>2 DEF IsOp
<1>. QED
  BY <1>2, <1>5, <1>6, <1>7

(* The parts of Typed, one by one.                                         *)
LEMMA TypedParts ==
  ASSUME Typed
  PROVE  /\ n \in Nat /\ pc \in Nat
         /\ Running => test \in Tests /\ pc \in 1..End
         /\ test \in Tests \union {"none"}
         /\ Holding(MessagesOf(n)) /\ orphaned \in Seq(MessagesOf(n))
  BY DEF Typed, Running

(* What the next state has to satisfy to be well typed.                    *)
LEMMA TypedAgain ==
  ASSUME NEW k \in Nat, n' = k, pc' \in Nat, test' \in Tests \union {"none"},
         Running' => pc' \in 1..End', Holding(MessagesOf(k))', orphaned' \in Seq(MessagesOf(k))
  PROVE  Typed'
<1>1. MessagesOf(n)' = MessagesOf(k)
  BY DEF MessagesOf
<1>2. Holding(MessagesOf(n))'
  BY <1>1 DEF Holding
<1>. QED
  BY <1>1, <1>2 DEF Typed

(* The messages of the running test are messages.                          *)
LEMMA OwnMessages ==
  ASSUME Typed, Running
  PROVE  \A k \in {1, 2} : [text |-> <<test, k>>, id |-> <<n, pc>>] \in MessagesOf(n)
<1>1. test \in Tests /\ n \in 0..n /\ pc \in Nat
  BY TypedParts
<1>. QED
  BY <1>1 DEF MessagesOf

(* More messages are no harm.                                              *)
LEMMA HoldingMore ==
  ASSUME NEW M, NEW N, M \subseteq N, Holding(M), UNCHANGED broker
  PROVE  Holding(N)'
<1>1. Seq(M) \subseteq Seq(N)
  BY SeqMonotonic
<1>2. Seq(Seq(M)) \subseteq Seq(Seq(N))
  BY <1>1, SeqMonotonic
<1>3. SessionOf(M) \subseteq SessionOf(N)
  BY <1>1, <1>2 DEF SessionOf
<1>4. session \in [Sessions -> SessionOf(N)]
  BY <1>3, Held
<1>. QED
  BY <1>1, <1>4, Held DEF Holding, broker

(* The test that starts has the messages of the ones before as well.       *)
LEMMA StartTyped ==
  ASSUME Typed, NEW t \in Tests, StartTest(t)
  PROVE  Typed'
<1>. DEFINE M == MessagesOf(n)  N == MessagesOf(n + 1)
<1>1. n \in Nat /\ n' = n + 1 /\ pc' = 1 /\ test' = t /\ orphaned' = orphaned
      /\ UNCHANGED broker
  BY TypedParts DEF StartTest
<1>2. M \subseteq N
  BY <1>1 DEF MessagesOf
<1>. HIDE DEF M, N
<1>3. Holding(M) /\ orphaned \in Seq(M)
  BY TypedParts DEF M
<1>4. orphaned' \in Seq(N)
  BY <1>1, <1>2, <1>3, SeqMonotonic
<1>5. \A X, Y : X = M /\ Y = N => Holding(Y)'
  <2>1. SUFFICES ASSUME NEW X, NEW Y, X = M, Y = N PROVE Holding(Y)'
    OBVIOUS
  <2>2. X \subseteq Y /\ Holding(X)
    BY <2>1, <1>2, <1>3
  <2>. QED
    BY <2>2, <1>1, HoldingMore
<1>6. \A k \in Nat : k = n + 1 => Typed'
  <2>1. SUFFICES ASSUME NEW k \in Nat, k = n + 1 PROVE Typed'
    OBVIOUS
  <2>2. MessagesOf(k) = N
    BY <2>1 DEF N
  <2>3. Holding(MessagesOf(k))'
    BY <1>5, <2>2
  <2>4. End' = Len(Scripts[t]) /\ Len(Scripts[t]) >= 1
    <3>1. Len(Bodies[t]) \in Nat /\ Len(Scripts[t]) = Len(Bodies[t]) + 9
      <4>. HIDE DEF BodyCalls
      <4>. QED
        BY ScriptText
    <3>. QED
      BY <3>1, <1>1 DEF End
  <2>. QED
    BY <1>1, <1>4, <2>1, <2>2, <2>3, <2>4, TypedAgain
<1>. QED
  BY <1>1, <1>6

(* Served calls are known to the lemmas above.                             *)
LEMMA ServedKnown ==
  ASSUME Typed, Running, Served
  PROVE  Call \in BodyCalls
<1>1. test \in Tests /\ pc \in 1..End
  BY TypedParts
<1>2. ~IsOp("whileReceived")
  BY DEF Served, GetConnection, OpenSession, Send, Start, Stop, CreateConsumer, Receive,
         Acknowledge, Commit, Rollback, SessionClose, ConnectionClose, IsOp
<1>. QED
  BY <1>1, <1>2, CallKnown

(* A step that serves the call, or leaves the broker alone, is well typed. *)
LEMMA StepTyped ==
  ASSUME Typed, Prepared, Running, Served \/ UNCHANGED broker,
         n' = n, orphaned' = orphaned, pc' \in Nat, test' \in {test, "none"},
         Running' => test' = test /\ pc' \in 1..End
  PROVE  Typed'
<1>. DEFINE M == MessagesOf(n)
<1>1. /\ test \in Tests /\ pc \in 1..End /\ n \in Nat /\ Holding(M)
      /\ orphaned \in Seq(M)
      /\ \A k \in {1, 2} : [text |-> <<test, k>>, id |-> <<n, pc>>] \in M
  BY TypedParts, OwnMessages
<1>2. Running' => End' = End
  BY DEF End
<1>. HIDE DEF M
<1>3. \A X : X = M => Holding(X)'
  <2>1. SUFFICES ASSUME NEW X, X = M PROVE Holding(X)'
    OBVIOUS
  <2>2. CASE Served
    BY <1>1, <2>1, <2>2, ServedKnown, ServedTyped
  <2>3. CASE UNCHANGED broker
    BY <1>1, <2>1, <2>3, HoldingMore
  <2>. QED
    BY <2>2, <2>3
<1>4. \A k \in Nat : k = n => Typed'
  <2>1. SUFFICES ASSUME NEW k \in Nat, k = n PROVE Typed'
    OBVIOUS
  <2>2. MessagesOf(k) = M
    BY <2>1 DEF M
  <2>3. Holding(MessagesOf(k))'
    BY <1>3, <2>2
  <2>. QED
    BY <1>1, <1>2, <2>1, <2>2, <2>3, TypedAgain
<1>. QED
  BY <1>1, <1>4

(* A step that changes received only is well typed.                        *)
LEMMA ReceivedTyped ==
  ASSUME Typed, received' \in {received, NoMessage},
         UNCHANGED <<jmsConnection, session, queue, pending>>,
         n' = n, orphaned' = orphaned, pc' \in Nat, test' = test,
         Running' => pc' \in 1..End
  PROVE  Typed'
<1>. DEFINE M == MessagesOf(n)
<1>1. /\ n \in Nat /\ Holding(M) /\ orphaned \in Seq(M) /\ test \in Tests \union {"none"}
  BY TypedParts
<1>2. End' = End
  BY DEF End
<1>. HIDE DEF M
<1>3. \A X : X = M => Holding(X)'
  <2>1. SUFFICES ASSUME NEW X, X = M PROVE Holding(X)'
    OBVIOUS
  <2>. QED
    BY <1>1, <2>1 DEF Holding
<1>4. \A k \in Nat : k = n => Typed'
  <2>1. SUFFICES ASSUME NEW k \in Nat, k = n PROVE Typed'
    OBVIOUS
  <2>2. MessagesOf(k) = M
    BY <2>1 DEF M
  <2>3. Holding(MessagesOf(k))'
    BY <1>3, <2>2
  <2>. QED
    BY <1>1, <1>2, <2>1, <2>2, <2>3, TypedAgain
<1>. QED
  BY <1>1, <1>4

(* The messages that a lost connection held are messages.                  *)
LEMMA HeldBackTyped ==
  ASSUME NEW M, Holding(M), NEW acked
  PROVE  HeldBack(acked) \in Seq(M)
<1>. DEFINE held == Delivered(Mine) \o Delivered(session["helper"])
            parts == [i \in DOMAIN held |-> IF held[i] \in acked THEN <<>> ELSE <<held[i]>>]
<1>1. held \in Seq(M)
  BY Held, Handed, ConcatProperties DEF Mine
<1>2. HeldBack(acked) = FlattenSeq(parts)
  BY DEF HeldBack
<1>. HIDE DEF held
<1>3. Len(held) \in Nat /\ DOMAIN held = 1..Len(held) /\ \A i \in 1..Len(held) : held[i] \in M
  BY <1>1, ElementOfSeq
<1>4. \A i \in 1..Len(held) : (IF held[i] \in acked THEN <<>> ELSE <<held[i]>>) \in Seq(M)
  BY <1>3
<1>5. parts \in Seq(Seq(M))
  BY <1>3, <1>4, IsASeq
<1>. HIDE DEF parts
<1>. QED
  BY <1>2, <1>5, Flattened

(* A lost connection leaves what it held to the broker.                    *)
LEMMA LoseTyped ==
  ASSUME Typed, NEW acked, LoseConnection(acked)
  PROVE  Typed'
<1>. DEFINE M == MessagesOf(n)
<1>1. n \in Nat /\ Holding(M) /\ orphaned \in Seq(M)
  BY TypedParts
<1>2. /\ orphaned' = orphaned \o HeldBack(acked) /\ pending' = pending \ acked
      /\ session' = [s \in Sessions |-> Closed] /\ received' = NoMessage
      /\ test' = "none" /\ pc' = 0 /\ n' = n /\ queue' = queue
  BY DEF LoseConnection
<1>. HIDE DEF M
<1>3. \A X : X = M => Holding(X)' /\ orphaned' \in Seq(X)
  <2>1. SUFFICES ASSUME NEW X, X = M PROVE Holding(X)' /\ orphaned' \in Seq(X)
    OBVIOUS
  <2>2. orphaned' \in Seq(X)
    BY <1>1, <1>2, <2>1, HeldBackTyped, ConcatProperties
  <2>3. session' \in [Sessions -> SessionOf(X)] /\ pending' \in SUBSET X
    BY <1>1, <1>2, <2>1, SessionUpdates, Held
  <2>. QED
    BY <1>1, <1>2, <2>1, <2>2, <2>3, Held DEF Holding
<1>4. \A k \in Nat : k = n => Typed'
  <2>1. SUFFICES ASSUME NEW k \in Nat, k = n PROVE Typed'
    OBVIOUS
  <2>2. MessagesOf(k) = M
    BY <2>1 DEF M
  <2>3. Holding(MessagesOf(k))' /\ orphaned' \in Seq(MessagesOf(k))
    BY <1>3, <2>2
  <2>. QED
    BY <1>1, <1>2, <2>1, <2>2, <2>3, TypedAgain DEF Running
<1>. QED
  BY <1>1, <1>4

(* The broker hands its first message to one consumer.                     *)
LEMMA DeliverEffect ==
  ASSUME NEW M, Holding(M), NEW s \in Sessions, NEW c \in DOMAIN session[s].consumers,
         Deliver(s, c)
  PROVE  /\ Holding(M)' /\ queue # <<>> /\ jmsConnection = "started"
         /\ session[s].consumers[c] \in Seq(M)
         /\ Turns(s, session[s].mode, session[s].sent, session[s].taken,
                  [session[s].consumers EXCEPT
                     ![c] = Append(session[s].consumers[c], Head(queue))])
         /\ queue' = Tail(queue) /\ pending' = pending /\ received' = received
<1>. DEFINE x == session[s]  b == Append(x.consumers[c], Head(queue))
            w == [x.consumers EXCEPT ![c] = b]
<1>1. /\ x \in SessionOf(M) /\ x.consumers \in Seq(Seq(M)) /\ queue \in Seq(M)
      /\ session \in [Sessions -> SessionOf(M)]
  BY Held
<1>2. /\ queue # <<>> /\ queue' = Tail(queue) /\ pending' = pending
      /\ received' = received /\ jmsConnection = "started"
  BY DEF Deliver
<1>3. session' = [session EXCEPT ![s] = [x EXCEPT !.consumers = w]]
  BY DEF Deliver
<1>4. c \in 1..Len(x.consumers) /\ x.consumers[c] \in Seq(M)
  <2>1. c \in 1..Len(x.consumers)
    BY <1>1
  <2>. QED
    BY <1>1, <2>1, ElementOfSeq
<1>5. Head(queue) \in M /\ Tail(queue) \in Seq(M)
  BY <1>1, <1>2
<1>6. b \in Seq(M)
  BY <1>4, <1>5, AppendProperties
<1>. HIDE DEF x, b
<1>7. w \in Seq(Seq(M))
  BY <1>1, <1>4, <1>6, ExceptSeq
<1>. HIDE DEF w
<1>8. /\ [x EXCEPT !.consumers = w] \in SessionOf(M)
      /\ Has([x EXCEPT !.consumers = w], x.mode, x.sent, x.taken, w)
  BY <1>1, <1>7, SessionUpdates
<1>9. /\ session' \in [Sessions -> SessionOf(M)]
      /\ Turns(s, x.mode, x.sent, x.taken, w)
  BY <1>1, <1>3, <1>8, OneUpdated
<1>10. Holding(M)'
  BY <1>2, <1>5, <1>9, Held DEF Holding
<1>. QED
  BY <1>2, <1>4, <1>9, <1>10 DEF x, b, w

(* A delivery is well typed.                                               *)
LEMMA DeliverTyped ==
  ASSUME Typed, DeliverAny
  PROVE  Typed'
<1>. DEFINE M == MessagesOf(n)
<1>1. /\ n \in Nat /\ Holding(M) /\ orphaned \in Seq(M) /\ pc \in Nat
      /\ test \in Tests \union {"none"} /\ (Running => pc \in 1..End)
  BY TypedParts
<1>2. PICK s \in Sessions : \E c \in DOMAIN session[s].consumers : Deliver(s, c)
  BY DEF DeliverAny
<1>3. PICK c \in DOMAIN session[s].consumers : Deliver(s, c)
  BY <1>2
<1>4. /\ test' = test /\ n' = n /\ pc' = pc /\ orphaned' = orphaned
      /\ End' = End /\ (Running' <=> Running)
  BY <1>3 DEF Deliver, End, Running
<1>. HIDE DEF M
<1>5. \A X : X = M => Holding(X)'
  <2>1. SUFFICES ASSUME NEW X, X = M PROVE Holding(X)'
    OBVIOUS
  <2>. QED
    BY <1>1, <1>3, <2>1, DeliverEffect
<1>6. \A k \in Nat : k = n => Typed'
  <2>1. SUFFICES ASSUME NEW k \in Nat, k = n PROVE Typed'
    OBVIOUS
  <2>2. MessagesOf(k) = M
    BY <2>1 DEF M
  <2>3. Holding(MessagesOf(k))'
    BY <1>5, <2>2
  <2>. QED
    BY <1>1, <1>4, <2>1, <2>2, <2>3, TypedAgain
<1>. QED
  BY <1>1, <1>6

(* So is the return of what a lost connection held.                        *)
LEMMA ReturnTyped ==
  ASSUME Typed, ReturnOrphaned
  PROVE  Typed'
<1>. DEFINE M == MessagesOf(n)
<1>1. /\ n \in Nat /\ Holding(M) /\ orphaned \in Seq(M) /\ pc \in Nat
      /\ test \in Tests \union {"none"} /\ (Running => pc \in 1..End)
  BY TypedParts
<1>2. /\ queue' = orphaned \o queue /\ orphaned' = <<>>
      /\ UNCHANGED <<test, n, pc, session, pending, received>>
      /\ End' = End /\ (Running' <=> Running)
  BY DEF ReturnOrphaned, End, Running
<1>. HIDE DEF M
<1>3. \A X : X = M => Holding(X)' /\ orphaned' \in Seq(X)
  <2>1. SUFFICES ASSUME NEW X, X = M PROVE Holding(X)' /\ orphaned' \in Seq(X)
    OBVIOUS
  <2>2. queue' \in Seq(X) /\ orphaned' \in Seq(X)
    BY <1>1, <1>2, <2>1, Held, ConcatProperties
  <2>. QED
    BY <1>1, <1>2, <2>1, <2>2, Held DEF Holding
<1>4. \A k \in Nat : k = n => Typed'
  <2>1. SUFFICES ASSUME NEW k \in Nat, k = n PROVE Typed'
    OBVIOUS
  <2>2. MessagesOf(k) = M
    BY <2>1 DEF M
  <2>3. Holding(MessagesOf(k))' /\ orphaned' \in Seq(MessagesOf(k))
    BY <1>3, <2>2
  <2>. QED
    BY <1>1, <1>2, <2>1, <2>2, <2>3, TypedAgain
<1>. QED
  BY <1>1, <1>4

(* Every step is well typed.                                               *)
LEMMA TypedNext ==
  ASSUME Typed, Prepared, [Next]_vars
  PROVE  Typed'
<1>1. /\ n \in Nat /\ pc \in Nat /\ test \in Tests \union {"none"}
      /\ Running => test \in Tests /\ pc \in 1..End
  BY TypedParts
<1>2. Running => /\ End \in Nat /\ End >= 9
                 /\ IsOp("whileReceived") => pc = 8
                 /\ pc = End => IsOp("close")
  BY <1>1, CallKnown
<1>3. CASE \E t \in Tests : StartTest(t)
  BY <1>3, StartTyped
<1>4. CASE Step
  BY <1>4, <1>1, <1>2, StepTyped DEF Step
<1>5. CASE Finish
  BY <1>5, <1>1, <1>2, StepTyped DEF Finish, Running
<1>6. CASE WhileReceived
  <2>1. /\ received' \in {received, NoMessage} /\ pc' \in 1..End /\ pc' \in Nat
        /\ UNCHANGED <<jmsConnection, session, queue, pending>>
        /\ n' = n /\ orphaned' = orphaned /\ test' = test
    BY <1>6, <1>1, <1>2 DEF WhileReceived
  <2>. QED
    BY <2>1, ReceivedTyped
<1>7. CASE AssertReceived
  <2>1. pc # End
    BY <1>7, <1>2 DEF AssertReceived, IsOp
  <2>2. /\ received' \in {received, NoMessage} /\ pc' \in 1..End /\ pc' \in Nat
        /\ UNCHANGED <<jmsConnection, session, queue, pending>>
        /\ n' = n /\ orphaned' = orphaned /\ test' = test
    BY <1>7, <1>1, <1>2, <2>1 DEF AssertReceived
  <2>. QED
    BY <2>2, ReceivedTyped
<1>8. CASE Throw
  BY <1>8, <1>1, <1>2, StepTyped DEF Throw
<1>9. CASE CloseThrows
  BY <1>9, LoseTyped DEF CloseThrows
<1>10. CASE Kill
  BY <1>10, LoseTyped DEF Kill
<1>11. CASE ReceiveTimesOut
  <2>1. pc # End
    BY <1>11, <1>2 DEF ReceiveTimesOut, IsOp
  <2>2. /\ received' \in {received, NoMessage} /\ pc' \in 1..End /\ pc' \in Nat
        /\ UNCHANGED <<jmsConnection, session, queue, pending>>
        /\ n' = n /\ orphaned' = orphaned /\ test' = test
    BY <1>11, <1>1, <1>2, <2>1 DEF ReceiveTimesOut
  <2>. QED
    BY <2>2, ReceivedTyped
<1>12. CASE DeliverAny
  BY <1>12, DeliverTyped
<1>13. CASE ReturnOrphaned
  BY <1>13, ReturnTyped
<1>14. CASE UNCHANGED vars
  <2>1. /\ received' \in {received, NoMessage}
        /\ UNCHANGED <<jmsConnection, session, queue, pending>>
        /\ n' = n /\ orphaned' = orphaned /\ test' = test /\ pc' = pc
        /\ (Running' <=> Running)
    BY <1>14 DEF vars, Running
  <2>. QED
    BY <2>1, <1>1, ReceivedTyped
<1>. QED
  BY <1>3, <1>4, <1>5, <1>6, <1>7, <1>8, <1>9, <1>10, <1>11, <1>12, <1>13, <1>14
     DEF Next, Thread

-----------------------------------------------------------------------------
(* Consumers, and the sessions between tests                               *)

(* A served call is served by the operation of its name.                   *)
LEMMA ServedBy ==
  ASSUME Served
  PROVE  /\ IsOp("getConnection") => GetConnection
         /\ IsOp("createSession") => OpenSession
         /\ IsOp("send") => Send
         /\ IsOp("start") => Start
         /\ IsOp("stop") => Stop
         /\ IsOp("createConsumer") => CreateConsumer
         /\ IsOp("receive") => Receive
         /\ IsOp("acknowledge") => Acknowledge
         /\ IsOp("commit") => Commit
         /\ IsOp("rollback") => Rollback
         /\ IsOp("closeSession") => SessionClose
         /\ IsOp("close") => ConnectionClose
         /\ Call[1] \notin {"whileReceived", "assertText", "assertNull"}
<1>1. /\ GetConnection => Call[1] = "getConnection"
      /\ OpenSession => Call[1] = "createSession"
      /\ Send => Call[1] = "send"
      /\ Start => Call[1] = "start"
      /\ Stop => Call[1] = "stop"
      /\ CreateConsumer => Call[1] = "createConsumer"
      /\ Receive => Call[1] = "receive"
      /\ Acknowledge => Call[1] = "acknowledge"
      /\ Commit => Call[1] = "commit"
      /\ Rollback => Call[1] = "rollback"
      /\ SessionClose => Call[1] = "closeSession"
      /\ ConnectionClose => Call[1] = "close"
  BY DEF GetConnection, OpenSession, Send, Start, Stop, CreateConsumer, Receive,
         Acknowledge, Commit, Rollback, SessionClose, ConnectionClose, IsOp
<1>. QED
  BY <1>1 DEF Served, IsOp

(* A test reaches a receive from the creation of the consumer only.        *)
LEMMA NoReceiveNext ==
  ASSUME Typed, test' \in Tests, pc' \in 1..End', IsOp("receive")'
  PROVE  pc' > 1 /\ Scripts[test'][pc' - 1] = <<"createConsumer", Call'[2]>>
<1>1. \A t \in Tests : \A i \in 1..Len(Scripts[t]) : Scripts[t][i][1] = "receive" =>
        i > 1 /\ Scripts[t][i - 1] = <<"createConsumer", Scripts[t][i][2]>>
  BY ReceivesFollow
<1>. QED
  BY <1>1 DEF IsOp, Call, End

(* Whoever receives has a consumer.                                        *)
LEMMA PreparedNext ==
  ASSUME Typed, Prepared, [Next]_vars
  PROVE  Prepared'
<1>. SUFFICES ASSUME Running', IsOp("receive")' PROVE session'[Call'[2]].consumers # <<>>
  BY DEF Prepared
<1>1. /\ n \in Nat /\ pc \in Nat /\ test \in Tests \union {"none"}
      /\ Running => test \in Tests /\ pc \in 1..End
      /\ Holding(MessagesOf(n))
  BY TypedParts
<1>2. Running => /\ End \in Nat /\ End >= 9
                 /\ IsOp("whileReceived") => pc = 8
                 /\ pc = End => Call = <<"close">>
                 /\ pc <= 8 => Call = SetUp[pc]
  BY <1>1, CallKnown
<1>3. /\ test' \in Tests /\ pc' \in 1..End' /\ pc' > 1
      /\ Scripts[test'][pc' - 1] = <<"createConsumer", Call'[2]>>
  <2>1. test' \in Tests /\ pc' \in 1..End'
    BY TypedNext DEF Typed, Running
  <2>. QED
    BY <2>1, NoReceiveNext
<1>4. Call = Scripts[test][pc] /\ Call' = Scripts[test'][pc'] /\ Call'[1] = "receive"
  BY DEF Call, IsOp
<1>a. Running => Scripts[test][End] = <<"close">> /\ Scripts[test][1] = <<"getConnection">>
  <2>1. SUFFICES ASSUME Running PROVE Scripts[test][End] = <<"close">>
                                      /\ Scripts[test][1] = <<"getConnection">>
    OBVIOUS
  <2>2. test \in Tests
    BY <1>1, <2>1
  <2>. HIDE DEF BodyCalls
  <2>. QED
    BY <2>2, ScriptText, SetUpText DEF End
<1>5. CASE \E t \in Tests : StartTest(t)
  BY <1>5, <1>3 DEF StartTest
<1>6. CASE Step
  <2>1. Call = <<"createConsumer", Call'[2]>> /\ Running /\ Served
    BY <1>6, <1>1, <1>3, <1>4 DEF Step
  <2>. DEFINE s == Call'[2]
  <2>2. Call[1] = "createConsumer" /\ Call[2] = s
    BY <2>1
  <2>. HIDE DEF s
  <2>3. CreateConsumer /\ Call \in BodyCalls
    BY <2>1, <2>2, ServedBy, ServedKnown DEF IsOp
  <2>4. \A X : Holding(X) =>
          /\ Call[2] \in Sessions /\ session[Call[2]].consumers \in Seq(Seq(X))
          /\ session'[Call[2]].consumers = Append(session[Call[2]].consumers, <<>>)
    BY <2>3, CreateConsumerEffect, Held DEF Turns, Has
  <2>5. \A X : Holding(X) => session'[Call[2]].consumers # <<>>
    <3>1. SUFFICES ASSUME NEW X, Holding(X) PROVE session'[Call[2]].consumers # <<>>
      OBVIOUS
    <3>2. <<>> \in Seq(X)
      OBVIOUS
    <3>. QED
      BY <3>1, <3>2, <2>4, AppendProperties
  <2>. QED
    BY <2>2, <2>5, <1>1 DEF s
<1>7. CASE Finish
  BY <1>7 DEF Finish, Running
<1>8. CASE WhileReceived
  <2>1. pc' = 9 \/ pc' = 2
    BY <1>8, <1>1, <1>2 DEF WhileReceived
  <2>2. test' = test /\ Scripts[test][8] = Call /\ Call[1] = "whileReceived" /\ Running
    BY <1>8, <1>2, <1>4 DEF WhileReceived, IsOp
  <2>. QED
    BY <2>1, <2>2, <1>3, <1>a
<1>9. CASE AssertReceived
  <2>1. test' = test /\ Running /\ Call[1] \in {"assertText", "assertNull"}
        /\ pc' \in {pc + 1, End}
    BY <1>9 DEF AssertReceived, IsOp
  <2>. QED
    BY <2>1, <1>1, <1>3, <1>4, <1>a
<1>10. CASE Throw
  <2>1. test' = test /\ Running /\ pc' = End
    BY <1>10 DEF Throw
  <2>. QED
    BY <2>1, <1>4, <1>a
<1>11. CASE CloseThrows \/ Kill
  BY <1>11 DEF CloseThrows, Kill, LoseConnection, Running
<1>12. CASE ReceiveTimesOut
  <2>1. test' = test /\ Running /\ Call[1] = "receive" /\ pc' = pc + 1
    BY <1>12 DEF ReceiveTimesOut, IsOp
  <2>. QED
    BY <2>1, <1>1, <1>3, <1>4
<1>13. CASE DeliverAny
  <2>1. PICK s \in Sessions : \E c \in DOMAIN session[s].consumers : Deliver(s, c)
    BY <1>13 DEF DeliverAny
  <2>2. PICK c \in DOMAIN session[s].consumers : Deliver(s, c)
    BY <2>1
  <2>3. test' = test /\ pc' = pc /\ Call' = Call /\ Running
    BY <2>2 DEF Deliver, Call, Running
  <2>4. session[Call[2]].consumers # <<>>
    BY <2>3 DEF Prepared, IsOp
  <2>5. \A X : Holding(X) => session'[Call[2]].consumers # <<>>
    <3>1. SUFFICES ASSUME NEW X, Holding(X) PROVE session'[Call[2]].consumers # <<>>
      OBVIOUS
    <3>. DEFINE w == [session[s].consumers EXCEPT
                       ![c] = Append(session[s].consumers[c], Head(queue))]
    <3>2. Turns(s, session[s].mode, session[s].sent, session[s].taken, w)
      BY <2>2, <3>1, DeliverEffect
    <3>3. DOMAIN w = DOMAIN session[s].consumers /\ c \in DOMAIN w
      OBVIOUS
    <3>4. w # <<>>
      BY <3>3
    <3>. HIDE DEF w
    <3>5. Call[2] \in Sessions
      <4>1. Call[1] = "receive" /\ test \in Tests /\ pc \in 1..End
        BY <2>3, <1>1 DEF IsOp
      <4>2. Call \in BodyCalls
        BY <4>1, CallKnown DEF IsOp
      <4>. QED
        BY <4>1, <4>2, CallTypes
    <3>. QED
      BY <3>2, <3>4, <3>5, <2>4 DEF Turns, Has
  <2>. QED
    BY <2>3, <2>5, <1>1
<1>14. CASE ReturnOrphaned \/ UNCHANGED vars
  <2>1. test' = test /\ pc' = pc /\ session' = session /\ Call' = Call /\ Running
    BY <1>14 DEF ReturnOrphaned, vars, Call, Running
  <2>. QED
    BY <2>1 DEF Prepared, IsOp
<1>. QED
  BY <1>5, <1>6, <1>7, <1>8, <1>9, <1>10, <1>11, <1>12, <1>13, <1>14 DEF Next, Thread

(* Between tests both sessions are closed.                                 *)
LEMMA AtRestNext ==
  ASSUME Typed, AtRest, [Next]_vars
  PROVE  AtRest'
<1>. SUFFICES ASSUME ~Running' PROVE AllClosed' /\ received' = NoMessage
  BY DEF AtRest
<1>1. Running => test \in Tests /\ pc \in 1..End
  BY TypedParts
<1>2. CASE Finish
  <2>1. Running /\ Served /\ pc = End
    BY <1>2 DEF Finish
  <2>2. ConnectionClose
    BY <1>1, <2>1, CallKnown, ServedBy
  <2>. QED
    BY <2>2 DEF ConnectionClose, AllClosed
<1>3. CASE CloseThrows \/ Kill
  BY <1>3 DEF CloseThrows, Kill, LoseConnection, AllClosed
<1>4. CASE DeliverAny
  <2>1. PICK s \in Sessions : \E c \in DOMAIN session[s].consumers : Deliver(s, c)
    BY <1>4 DEF DeliverAny
  <2>2. PICK c \in DOMAIN session[s].consumers : Deliver(s, c)
    BY <2>1
  <2>3. ~Running
    BY <2>2 DEF Deliver, Running
  <2>4. session[s].consumers = <<>>
    BY <2>3 DEF AtRest, AllClosed, Closed
  <2>. QED
    BY <2>2, <2>4
<1>5. CASE ReturnOrphaned \/ UNCHANGED vars
  BY <1>5 DEF ReturnOrphaned, vars, AtRest, AllClosed, Running
<1>6. CASE \E t \in Tests : StartTest(t)
  BY <1>6 DEF StartTest, Running, Tests, Bodies
<1>7. CASE Step \/ WhileReceived \/ AssertReceived \/ Throw \/ ReceiveTimesOut
  BY <1>7 DEF Step, WhileReceived, AssertReceived, Throw, ReceiveTimesOut, Running
<1>. QED
  BY <1>2, <1>3, <1>4, <1>5, <1>6, <1>7 DEF Next, Thread

-----------------------------------------------------------------------------
(* Messages on their way                                                   *)

(* The messages of short sequences.                                        *)
LEMMA MessagesOfSequences ==
  ASSUME NEW M
  PROVE  /\ <<>> \in Seq(M) /\ ToSet(<<>>) = {}
         /\ \A s \in Seq(M) : Len(s) = 1 =>
              /\ s # <<>> /\ Head(s) = s[1] /\ Tail(s) = <<>> /\ ToSet(s) = {s[1]}
              /\ s[1] \in M
         /\ \A s \in Seq(M), m \in M :
              /\ ToSet(Append(s, m)) = ToSet(s) \union {m}
              /\ s = <<>> => Len(Append(s, m)) = 1 /\ Append(s, m)[1] = m
         /\ \A s \in Seq(M) : s \o <<>> = s /\ <<>> \o s = s
         /\ \A s \in Seq(M) : Len(s) \in Nat /\ DOMAIN s = 1..Len(s)
                              /\ (Len(s) = 0 <=> s = <<>>)
<1>1. <<>> \in Seq(M) /\ ToSet(<<>>) = {}
  BY DEF ToSet
<1>2. ASSUME NEW s \in Seq(M), Len(s) = 1
      PROVE  /\ s # <<>> /\ Head(s) = s[1] /\ Tail(s) = <<>> /\ ToSet(s) = {s[1]}
             /\ s[1] \in M
  <2>1. DOMAIN s = {1} /\ s # <<>> /\ s[1] \in M
    BY <1>2
  <2>2. Tail(s) = <<>>
    <3>1. Tail(s) \in Seq(M) /\ Len(Tail(s)) = 0
      BY <1>2, <2>1, HeadTailProperties
    <3>2. \A u \in Seq(M) : Len(u) = 0 => u = <<>>
      OBVIOUS
    <3>. QED
      BY <3>1, <3>2
  <2>3. Head(s) = s[1]
    BY <1>2
  <2>4. ToSet(s) = {s[1]}
    BY <2>1 DEF ToSet
  <2>. QED
    BY <2>1, <2>2, <2>3, <2>4
<1>3. ASSUME NEW s \in Seq(M), NEW m \in M
      PROVE  /\ ToSet(Append(s, m)) = ToSet(s) \union {m}
             /\ s = <<>> => Len(Append(s, m)) = 1 /\ Append(s, m)[1] = m
  <2>1. /\ DOMAIN s = 1..Len(s) /\ Len(s) \in Nat /\ DOMAIN Append(s, m) = 1..Len(s) + 1
        /\ \A i \in 1..Len(s) : Append(s, m)[i] = s[i]
        /\ Append(s, m)[Len(s) + 1] = m
    BY AppendProperties
  <2>2. \A e : e \in ToSet(Append(s, m)) <=> e \in ToSet(s) \/ e = m
    <3>1. ASSUME NEW e, e \in ToSet(Append(s, m)) PROVE e \in ToSet(s) \/ e = m
      <4>1. PICK i \in 1..Len(s) + 1 : e = Append(s, m)[i]
        BY <2>1, <3>1 DEF ToSet
      <4>2. i \in 1..Len(s) \/ i = Len(s) + 1
        BY <2>1
      <4>. QED
        BY <2>1, <4>1, <4>2 DEF ToSet
    <3>2. ASSUME NEW e, e \in ToSet(s) PROVE e \in ToSet(Append(s, m))
      <4>1. PICK i \in 1..Len(s) : e = s[i]
        BY <2>1, <3>2 DEF ToSet
      <4>2. i \in 1..Len(s) + 1
        BY <2>1
      <4>. QED
        BY <2>1, <4>1, <4>2 DEF ToSet
    <3>3. m \in ToSet(Append(s, m))
      <4>1. Len(s) + 1 \in 1..Len(s) + 1
        BY <2>1
      <4>. QED
        BY <2>1, <4>1 DEF ToSet
    <3>. QED
      BY <3>1, <3>2, <3>3
  <2>. QED
    BY <2>1, <2>2
<1>4. \A s \in Seq(M) : s \o <<>> = s /\ <<>> \o s = s
  BY ConcatEmptySeq
<1>5. \A s \in Seq(M) : Len(s) \in Nat /\ DOMAIN s = 1..Len(s) /\ (Len(s) = 0 <=> s = <<>>)
  OBVIOUS
<1>. QED
  BY <1>1, <1>2, <1>3, <1>4, <1>5

(* What is in the buffers of the consumers of one session.                 *)
LEMMA Buffers ==
  ASSUME NEW M
  PROVE  \A w \in Seq(Seq(M)) :
           /\ Len(w) = 0 => NoneIn(w) /\ Buffered(w) = {}
           /\ Len(w) = 1 => /\ Buffered(w) = ToSet(w[1]) /\ w[1] \in Seq(M)
                            /\ (NoneIn(w) <=> w[1] = <<>>)
           /\ NoneIn(w) => Buffered(w) = {}
           /\ Append(w, <<>>) \in Seq(Seq(M)) /\ Len(Append(w, <<>>)) = Len(w) + 1
           /\ NoneIn(w) => NoneIn(Append(w, <<>>))
           /\ Buffered(w) \subseteq Buffered(Append(w, <<>>))
<1>0. ToSet(<<>>) = {} /\ <<>> \in Seq(M)
  BY MessagesOfSequences
<1>1. ASSUME NEW w \in Seq(Seq(M)), Len(w) = 0 PROVE NoneIn(w) /\ Buffered(w) = {}
  <2>1. DOMAIN w = {}
    BY <1>1
  <2>. QED
    BY <2>1 DEF NoneIn, Buffered
<1>2. ASSUME NEW w \in Seq(Seq(M)), Len(w) = 1
      PROVE  Buffered(w) = ToSet(w[1]) /\ w[1] \in Seq(M) /\ (NoneIn(w) <=> w[1] = <<>>)
  <2>1. DOMAIN w = {1} /\ w[1] \in Seq(M)
    BY <1>2
  <2>. QED
    BY <2>1 DEF NoneIn, Buffered
<1>3. ASSUME NEW w \in Seq(Seq(M)), NoneIn(w) PROVE Buffered(w) = {}
  BY <1>0, <1>3 DEF NoneIn, Buffered
<1>4. ASSUME NEW w \in Seq(Seq(M))
      PROVE  /\ Append(w, <<>>) \in Seq(Seq(M)) /\ Len(Append(w, <<>>)) = Len(w) + 1
             /\ NoneIn(w) => NoneIn(Append(w, <<>>))
             /\ Buffered(w) \subseteq Buffered(Append(w, <<>>))
  <2>1. /\ DOMAIN w = 1..Len(w) /\ Len(w) \in Nat /\ DOMAIN Append(w, <<>>) = 1..Len(w) + 1
        /\ \A i \in 1..Len(w) : Append(w, <<>>)[i] = w[i]
        /\ Append(w, <<>>)[Len(w) + 1] = <<>>
        /\ Append(w, <<>>) \in Seq(Seq(M)) /\ Len(Append(w, <<>>)) = Len(w) + 1
    BY <1>0, AppendProperties
  <2>2. ASSUME NoneIn(w), NEW i \in 1..Len(w) + 1 PROVE Append(w, <<>>)[i] = <<>>
    <3>1. i \in 1..Len(w) \/ i = Len(w) + 1
      BY <2>1
    <3>. QED
      BY <2>1, <2>2, <3>1 DEF NoneIn
  <2>3. ASSUME NEW e \in Buffered(w) PROVE e \in Buffered(Append(w, <<>>))
    <3>1. PICK i \in 1..Len(w) : e \in ToSet(w[i])
      BY <2>1 DEF Buffered
    <3>2. i \in 1..Len(w) + 1
      BY <2>1
    <3>. QED
      BY <2>1, <3>1, <3>2 DEF Buffered
  <2>. QED
    BY <2>1, <2>2, <2>3 DEF NoneIn
<1>. QED
  BY <1>1, <1>2, <1>3, <1>4

(* No message is on its way.                                               *)
LEMMA NoFlight ==
  ASSUME NEW M, NEW t, NEW waiting \in Seq(M), NEW w \in Seq(Seq(M)), NEW v \in Seq(Seq(M))
  PROVE  OnItsWay(t, 0, waiting, w, v) <=> waiting = <<>> /\ NoneIn(w) /\ NoneIn(v)
  BY Buffers DEF OnItsWay, Holds

(* The fields that a call leaves as they are.                              *)
LEMMA AltersFields ==
  ASSUME NEW p, NEW q, NEW fields, Alters(p, q, fields)
  PROVE  /\ "mode" \notin fields => q.mode = p.mode
         /\ "sent" \notin fields => q.sent = p.sent
         /\ "taken" \notin fields => q.taken = p.taken
         /\ "n" \notin fields => q.n = p.n
         /\ "helper" \notin fields => q.helper = p.helper
         /\ "htaken" \notin fields => q.htaken = p.htaken
         /\ "hn" \notin fields => q.hn = p.hn
         /\ "flight" \notin fields => q.flight = p.flight
         /\ "got" \notin fields => q.got = p.got
  BY DEF Alters, Fields

-----------------------------------------------------------------------------
(* How the calls change the phase                                          *)

(* The sessions, the queue and the phases of the lemmas below.             *)
Sound(M, p, q, x, y, waiting) ==
  /\ p \in Phases /\ q \in Phases /\ Sole(p) /\ Sole(q)
  /\ x \in SessionOf(M) /\ y \in SessionOf(M) /\ waiting \in Seq(M)

(* The parts of Sound, one by one.                                         *)
LEMMA SoundParts ==
  ASSUME NEW M, NEW p, NEW q, NEW x, NEW y, NEW waiting, Sound(M, p, q, x, y, waiting)
  PROVE  /\ p.n \in Nat /\ p.hn \in Nat /\ q.n \in Nat /\ q.hn \in Nat
         /\ p.flight = 0 \/ p.n + p.hn <= 1
         /\ q.flight = 0 \/ q.n + q.hn <= 1
         /\ waiting \in Seq(M) /\ <<>> \in Seq(M)
         /\ x.sent \in Seq(M) /\ x.taken \in Seq(M) /\ x.consumers \in Seq(Seq(M))
         /\ y.sent \in Seq(M) /\ y.taken \in Seq(M) /\ y.consumers \in Seq(Seq(M))
<1>1. p.n \in Nat /\ p.hn \in Nat /\ q.n \in Nat /\ q.hn \in Nat
  BY DEF Sound, Phases
<1>2. (p.flight = 0 \/ p.n + p.hn <= 1) /\ (q.flight = 0 \/ q.n + q.hn <= 1)
  BY DEF Sound, Sole
<1>3. x \in SessionOf(M) /\ y \in SessionOf(M) /\ waiting \in Seq(M)
  BY DEF Sound
<1>. QED
  BY <1>1, <1>2, <1>3, SessionUpdates, MessagesOfSequences

(* The session of the test is opened.                                      *)
LEMMA PhaseOpening ==
  ASSUME NEW M, NEW c, NEW t, NEW p, NEW q, NEW x, NEW y, NEW waiting, NEW own, NEW last,
         NEW z, Sound(M, p, q, x, y, waiting), Phase(t, p, x, y, waiting, own, last),
         LeadsOpening(c, p, q), Has(z, c[3], <<>>, <<>>, <<>>)
  PROVE  /\ c[2] = "session" => Phase(t, q, z, y, waiting, own, last)
         /\ c[2] = "helper" => Phase(t, q, x, z, waiting, own, last)
<1>0. z.mode = c[3] /\ z.sent = <<>> /\ z.taken = <<>> /\ z.consumers = <<>>
  BY DEF Has
<1>a. x.consumers \in Seq(Seq(M)) /\ y.consumers \in Seq(Seq(M))
  BY SoundParts
<1>1. CASE c[2] = "session"
  <2>1. /\ q.mode = c[3] /\ Alters(p, q, {"mode"})
        /\ p.sent = 0 /\ p.taken = 0 /\ p.n = 0
    BY <1>1 DEF LeadsOpening
  <2>2. /\ q.sent = p.sent /\ q.taken = p.taken /\ q.n = p.n /\ q.helper = p.helper
        /\ q.htaken = p.htaken /\ q.hn = p.hn /\ q.flight = p.flight /\ q.got = p.got
    BY <2>1, AltersFields
  <2>3. x.sent = <<>> /\ x.taken = <<>> /\ x.consumers = <<>>
    BY <1>a, <2>1 DEF Phase, Holds
  <2>4. Phase(t, q, z, y, waiting, own, last)
    BY <1>0, <2>1, <2>2, <2>3 DEF Phase, Unacknowledged
  <2>. QED
    BY <1>1, <2>4
<1>2. CASE c[2] = "helper"
  <2>1. /\ q.helper = c[3] /\ Alters(p, q, {"helper"})
        /\ p.htaken = 0 /\ p.hn = 0
    BY <1>2 DEF LeadsOpening
  <2>2. /\ q.sent = p.sent /\ q.taken = p.taken /\ q.n = p.n /\ q.mode = p.mode
        /\ q.htaken = p.htaken /\ q.hn = p.hn /\ q.flight = p.flight /\ q.got = p.got
    BY <2>1, AltersFields
  <2>3. y.sent = <<>> /\ y.taken = <<>> /\ y.consumers = <<>>
    BY <1>a, <2>1 DEF Phase, Holds
  <2>4. Phase(t, q, x, z, waiting, own, last)
    BY <1>0, <2>1, <2>2, <2>3 DEF Phase, Unacknowledged
  <2>. QED
    BY <1>2, <2>4
<1>. QED
  BY <1>1, <1>2

(* The message m is sent, in the transaction of the session or at once.    *)
LEMMA PhaseSending ==
  ASSUME NEW M, NEW c, NEW t, NEW p, NEW q, NEW x, NEW y, NEW waiting, NEW own, NEW last,
         NEW z, NEW m \in M, c[2] \in {1, 2}, m.text = <<t, c[2]>>,
         Sound(M, p, q, x, y, waiting), Phase(t, p, x, y, waiting, own, last),
         LeadsSending(c, p, q)
  PROVE  /\ x.mode = "TRANSACTED" /\ Has(z, x.mode, Append(x.sent, m), x.taken, x.consumers)
              => Phase(t, q, z, y, waiting, own, last)
         /\ x.mode # "TRANSACTED"
              => Phase(t, q, x, y, Append(waiting, m), own \union {m}, last)
<1>0. x.mode = p.mode
  BY DEF Phase
<1>a. /\ x.consumers \in Seq(Seq(M)) /\ y.consumers \in Seq(Seq(M)) /\ x.sent \in Seq(M)
      /\ waiting \in Seq(M)
  BY SoundParts
<1>1. CASE x.mode = "TRANSACTED" /\ Has(z, x.mode, Append(x.sent, m), x.taken, x.consumers)
  <2>1. p.sent = 0 /\ q.sent = c[2] /\ Alters(p, q, {"sent"})
    BY <1>0, <1>1 DEF LeadsSending
  <2>2. /\ q.mode = p.mode /\ q.taken = p.taken /\ q.n = p.n /\ q.helper = p.helper
        /\ q.htaken = p.htaken /\ q.hn = p.hn /\ q.flight = p.flight /\ q.got = p.got
    BY <2>1, AltersFields
  <2>3. x.sent = <<>>
    BY <2>1 DEF Phase, Holds
  <2>4. Holds(t, Append(x.sent, m), c[2])
    BY <1>a, <2>3, MessagesOfSequences DEF Holds
  <2>5. z.mode = x.mode /\ z.sent = Append(x.sent, m) /\ z.taken = x.taken
        /\ z.consumers = x.consumers
    BY <1>1 DEF Has
  <2>. QED
    BY <1>1, <2>1, <2>2, <2>4, <2>5 DEF Phase, Unacknowledged
<1>2. CASE x.mode # "TRANSACTED"
  <2>1. p.flight = 0 /\ q.flight = c[2] /\ Alters(p, q, {"flight"})
    BY <1>0, <1>2 DEF LeadsSending
  <2>2. /\ q.mode = p.mode /\ q.taken = p.taken /\ q.n = p.n /\ q.helper = p.helper
        /\ q.htaken = p.htaken /\ q.hn = p.hn /\ q.sent = p.sent /\ q.got = p.got
    BY <2>1, AltersFields
  <2>3. waiting = <<>> /\ NoneIn(x.consumers) /\ NoneIn(y.consumers)
    BY <1>a, <2>1, NoFlight DEF Phase
  <2>4. Holds(t, Append(waiting, m), c[2])
    BY <1>a, <2>3, MessagesOfSequences DEF Holds
  <2>5. OnItsWay(t, q.flight, Append(waiting, m), x.consumers, y.consumers)
    BY <2>1, <2>3, <2>4 DEF OnItsWay
  <2>6. ToSet(Append(waiting, m)) = ToSet(waiting) \union {m}
    BY <1>a, MessagesOfSequences
  <2>7. own \union {m} \subseteq Unacknowledged(x, y, Append(waiting, m))
    BY <2>6 DEF Phase, Unacknowledged
  <2>. QED
    BY <1>2, <2>2, <2>5, <2>7 DEF Phase
<1>. QED
  BY <1>1, <1>2

(* A consumer is created.                                                  *)
LEMMA PhaseConsuming ==
  ASSUME NEW M, NEW c, NEW t, NEW p, NEW q, NEW x, NEW y, NEW waiting, NEW own, NEW last,
         NEW z, Sound(M, p, q, x, y, waiting), Phase(t, p, x, y, waiting, own, last),
         LeadsConsuming(c, p, q)
  PROVE  /\ c[2] = "session" /\ Has(z, x.mode, x.sent, x.taken, Append(x.consumers, <<>>))
              => Phase(t, q, z, y, waiting, own, last)
         /\ c[2] = "helper" /\ Has(z, y.mode, y.sent, y.taken, Append(y.consumers, <<>>))
              => Phase(t, q, x, z, waiting, own, last)
<1>a. /\ x.consumers \in Seq(Seq(M)) /\ y.consumers \in Seq(Seq(M)) /\ waiting \in Seq(M)
      /\ p.n \in Nat /\ p.hn \in Nat
      /\ q.flight = 0 \/ q.n + q.hn <= 1
  BY SoundParts
<1>b. Len(x.consumers) = p.n /\ Len(y.consumers) = p.hn
  BY DEF Phase
<1>1. CASE c[2] = "session" /\ Has(z, x.mode, x.sent, x.taken, Append(x.consumers, <<>>))
  <2>1. q.n = p.n + 1 /\ Alters(p, q, {"n"})
    BY <1>1 DEF LeadsConsuming
  <2>2. /\ q.mode = p.mode /\ q.taken = p.taken /\ q.sent = p.sent /\ q.helper = p.helper
        /\ q.htaken = p.htaken /\ q.hn = p.hn /\ q.flight = p.flight /\ q.got = p.got
    BY <2>1, AltersFields
  <2>. DEFINE w == Append(x.consumers, <<>>)
  <2>3. /\ w \in Seq(Seq(M)) /\ Len(w) = p.n + 1 /\ (NoneIn(x.consumers) => NoneIn(w))
        /\ Buffered(x.consumers) \subseteq Buffered(w)
    BY <1>a, <1>b, Buffers
  <2>4. z.mode = x.mode /\ z.sent = x.sent /\ z.taken = x.taken /\ z.consumers = w
    BY <1>1 DEF Has
  <2>. HIDE DEF w
  <2>5. OnItsWay(t, q.flight, waiting, w, y.consumers)
    <3>1. OnItsWay(t, p.flight, waiting, x.consumers, y.consumers)
      BY DEF Phase
    <3>2. CASE p.flight = 0
      <4>1. waiting = <<>> /\ NoneIn(x.consumers) /\ NoneIn(y.consumers)
        BY <1>a, <3>1, <3>2, NoFlight
      <4>. QED
        BY <1>a, <2>2, <2>3, <3>2, <4>1, NoFlight
    <3>3. CASE p.flight # 0
      <4>1. p.n = 0 /\ p.hn = 0
        BY <1>a, <2>1, <2>2, <3>3
      <4>. QED
        BY <1>b, <2>2, <2>3, <3>1, <4>1 DEF OnItsWay
    <3>. QED
      BY <3>2, <3>3
  <2>6. own \subseteq Unacknowledged(z, y, waiting)
    BY <2>3, <2>4 DEF Phase, Unacknowledged
  <2>. QED
    BY <1>1, <2>1, <2>2, <2>3, <2>4, <2>5, <2>6 DEF Phase
<1>2. CASE c[2] = "helper" /\ Has(z, y.mode, y.sent, y.taken, Append(y.consumers, <<>>))
  <2>1. q.hn = p.hn + 1 /\ Alters(p, q, {"hn"})
    BY <1>2 DEF LeadsConsuming
  <2>2. /\ q.mode = p.mode /\ q.taken = p.taken /\ q.sent = p.sent /\ q.helper = p.helper
        /\ q.htaken = p.htaken /\ q.n = p.n /\ q.flight = p.flight /\ q.got = p.got
    BY <2>1, AltersFields
  <2>. DEFINE w == Append(y.consumers, <<>>)
  <2>3. /\ w \in Seq(Seq(M)) /\ Len(w) = p.hn + 1 /\ (NoneIn(y.consumers) => NoneIn(w))
        /\ Buffered(y.consumers) \subseteq Buffered(w)
    BY <1>a, <1>b, Buffers
  <2>4. z.mode = y.mode /\ z.sent = y.sent /\ z.taken = y.taken /\ z.consumers = w
    BY <1>2 DEF Has
  <2>. HIDE DEF w
  <2>5. OnItsWay(t, q.flight, waiting, x.consumers, w)
    <3>1. OnItsWay(t, p.flight, waiting, x.consumers, y.consumers)
      BY DEF Phase
    <3>2. CASE p.flight = 0
      <4>1. waiting = <<>> /\ NoneIn(x.consumers) /\ NoneIn(y.consumers)
        BY <1>a, <3>1, <3>2, NoFlight
      <4>. QED
        BY <1>a, <2>2, <2>3, <3>2, <4>1, NoFlight
    <3>3. CASE p.flight # 0
      <4>1. p.n = 0 /\ p.hn = 0
        BY <1>a, <2>1, <2>2, <3>3
      <4>. QED
        BY <1>b, <2>2, <2>3, <3>1, <4>1 DEF OnItsWay
    <3>. QED
      BY <3>2, <3>3
  <2>6. own \subseteq Unacknowledged(x, z, waiting)
    BY <2>3, <2>4 DEF Phase, Unacknowledged
  <2>. QED
    BY <1>2, <2>1, <2>2, <2>3, <2>4, <2>5, <2>6 DEF Phase
<1>. QED
  BY <1>1, <1>2

(* The buffer of the last consumer, when it is the only one.               *)
LEMMA OnlyBuffer ==
  ASSUME NEW M, NEW w \in Seq(Seq(M)), Len(w) = 1
  PROVE  /\ Last(w) = w[1] /\ w[1] \in Seq(M)
         /\ \A b : Append(Front(w), b) = <<b>>
<1>1. Last(w) = w[1] /\ w[1] \in Seq(M)
  BY DEF Last
<1>2. Front(w) = <<>>
  BY DEF Front
<1>3. \A b : Append(<<>>, b) = <<b>>
  OBVIOUS
<1>. QED
  BY <1>1, <1>2, <1>3

(* Without a message on its way a receive finds nothing.                   *)
LEMMA PhaseFindingNothing ==
  ASSUME NEW M, NEW c, NEW t, NEW p, NEW q, NEW x, NEW y, NEW waiting, NEW own, NEW last,
         Sound(M, p, q, x, y, waiting), Phase(t, p, x, y, waiting, own, last),
         LeadsReceiving(c, p, q), p.flight = 0
  PROVE  Phase(t, q, x, y, waiting, own, NoMessage)
<1>1. q.got = 0 /\ Alters(p, q, {"got"})
  BY DEF LeadsReceiving
<1>2. /\ q.mode = p.mode /\ q.taken = p.taken /\ q.n = p.n /\ q.helper = p.helper
      /\ q.htaken = p.htaken /\ q.hn = p.hn /\ q.sent = p.sent /\ q.flight = p.flight
  BY <1>1, AltersFields
<1>. QED
  BY <1>1, <1>2 DEF Phase

(* A receive does not wait for a message that is on its way to nobody.     *)
LEMMA MessageThere ==
  ASSUME NEW M, NEW c, NEW t, NEW p, NEW q, NEW x, NEW y, NEW waiting, NEW own, NEW last,
         Sound(M, p, q, x, y, waiting), Phase(t, p, x, y, waiting, own, last),
         LeadsReceiving(c, p, q), p.flight # 0
  PROVE  /\ c[2] = "session" /\ Last(x.consumers) = <<>> => waiting # <<>>
         /\ c[2] = "helper" /\ Last(y.consumers) = <<>> => waiting # <<>>
<1>1. /\ c[2] = "session" => p.n = 1
      /\ c[2] = "helper" => p.hn = 1
  BY DEF LeadsReceiving
<1>2. /\ x.consumers \in Seq(Seq(M)) /\ y.consumers \in Seq(Seq(M))
      /\ p.n \in Nat /\ p.hn \in Nat /\ p.n + p.hn <= 1
      /\ Len(x.consumers) = p.n /\ Len(y.consumers) = p.hn
      /\ OnItsWay(t, p.flight, waiting, x.consumers, y.consumers)
  BY SoundParts DEF Phase
<1>3. \A s : Holds(t, s, p.flight) => s # <<>>
  BY DEF Holds
<1>4. CASE c[2] = "session"
  <2>1. Last(x.consumers) = x.consumers[1] /\ Len(y.consumers) # 1
    <3>1. Len(x.consumers) = 1 /\ Len(y.consumers) # 1
      BY <1>1, <1>2, <1>4
    <3>. QED
      BY <1>2, <3>1, OnlyBuffer
  <2>. QED
    BY <1>2, <1>3, <1>4, <2>1 DEF OnItsWay
<1>5. CASE c[2] = "helper"
  <2>1. Last(y.consumers) = y.consumers[1] /\ Len(x.consumers) # 1
    <3>1. Len(y.consumers) = 1 /\ Len(x.consumers) # 1
      BY <1>1, <1>2, <1>5
    <3>. QED
      BY <1>2, <3>1, OnlyBuffer
  <2>. QED
    BY <1>2, <1>3, <1>5, <2>1 DEF OnItsWay
<1>. QED
  BY <1>4, <1>5

(* The message on its way is received by the session of the test.          *)
LEMMA PhaseReceiving ==
  ASSUME NEW M, NEW c, NEW t, NEW p, NEW q, NEW x, NEW y, NEW waiting, NEW own, NEW last,
         NEW z, Sound(M, p, q, x, y, waiting), Phase(t, p, x, y, waiting, own, last),
         LeadsReceiving(c, p, q), p.flight # 0, c[2] = "session"
  PROVE  /\ Len(x.consumers) = 1
         /\ Last(x.consumers) # <<>> /\
            Has(z, x.mode, x.sent, Append(x.taken, Head(Last(x.consumers))),
                Append(Front(x.consumers), Tail(Last(x.consumers))))
              => Phase(t, q, z, y, waiting, own, Head(Last(x.consumers)))
<1>1. /\ q.flight = 0 /\ q.got = p.flight /\ p.n = 1 /\ p.taken = 0 /\ q.taken = p.flight
      /\ Alters(p, q, {"got", "taken", "flight"})
  BY DEF LeadsReceiving
<1>2. /\ q.mode = p.mode /\ q.n = p.n /\ q.helper = p.helper
      /\ q.htaken = p.htaken /\ q.hn = p.hn /\ q.sent = p.sent
  BY <1>1, AltersFields
<1>3. /\ x.consumers \in Seq(Seq(M)) /\ y.consumers \in Seq(Seq(M)) /\ x.taken \in Seq(M)
      /\ Len(x.consumers) = 1 /\ Len(y.consumers) = p.hn /\ p.hn = 0
      /\ waiting \in Seq(M) /\ <<>> \in Seq(M)
  BY <1>1, SoundParts DEF Phase
<1>4. x.taken = <<>> /\ OnItsWay(t, p.flight, waiting, x.consumers, y.consumers)
  BY <1>1 DEF Phase, Holds
<1>. DEFINE b == x.consumers[1]
<1>5. Last(x.consumers) = b /\ b \in Seq(M)
  BY <1>3, OnlyBuffer
<1>6. \/ Holds(t, waiting, p.flight) /\ b = <<>> /\ NoneIn(y.consumers)
      \/ waiting = <<>> /\ Holds(t, b, p.flight) /\ NoneIn(y.consumers)
  <2>1. Len(y.consumers) # 1 /\ (NoneIn(x.consumers) <=> b = <<>>)
    BY <1>3, Buffers
  <2>. QED
    BY <1>4, <2>1 DEF OnItsWay
<1>8. ASSUME b # <<>>, Has(z, x.mode, x.sent, Append(x.taken, Head(b)),
                           Append(Front(x.consumers), Tail(b)))
      PROVE  Phase(t, q, z, y, waiting, own, Head(b))
  <2>1. waiting = <<>> /\ Len(b) = 1 /\ b[1].text = <<t, p.flight>> /\ NoneIn(y.consumers)
    BY <1>6, <1>8 DEF Holds
  <2>2. Head(b) = b[1] /\ Tail(b) = <<>> /\ ToSet(b) = {b[1]} /\ b[1] \in M
    BY <1>5, <2>1, MessagesOfSequences
  <2>. DEFINE w == Append(Front(x.consumers), Tail(b))
  <2>3. Len(w) = 1 /\ w[1] = <<>> /\ DOMAIN w = {1}
    <3>1. Append(Front(x.consumers), <<>>) = << <<>> >>
      BY <1>3, OnlyBuffer
    <3>2. w = << <<>> >>
      BY <2>2, <3>1
    <3>. HIDE DEF w
    <3>. QED
      BY <3>2
  <2>4. /\ z.mode = x.mode /\ z.sent = x.sent /\ z.taken = Append(x.taken, Head(b))
        /\ z.consumers = w
    BY <1>8 DEF Has
  <2>. HIDE DEF w
  <2>5. NoneIn(w)
    BY <2>3 DEF NoneIn
  <2>6. /\ Len(z.taken) = 1 /\ z.taken[1] = b[1] /\ ToSet(z.taken) = {b[1]}
    <3>1. z.taken = <<b[1]>>
      BY <1>4, <2>2, <2>4
    <3>2. ToSet(<<b[1]>>) = {b[1]}
      BY DEF ToSet
    <3>. QED
      BY <3>1, <3>2
  <2>7. Holds(t, z.taken, q.taken)
    BY <1>1, <2>1, <2>6 DEF Holds
  <2>8. OnItsWay(t, q.flight, waiting, w, y.consumers)
    BY <1>1, <2>1, <2>5 DEF OnItsWay, Holds
  <2>9. own \subseteq Unacknowledged(z, y, waiting)
    <3>1. Buffered(x.consumers) = {b[1]}
      BY <1>3, <2>2, Buffers
    <3>2. ToSet(x.taken) = {}
      BY <1>4, MessagesOfSequences
    <3>. QED
      BY <2>6, <3>1, <3>2 DEF Phase, Unacknowledged
  <2>10. q.got # 0 /\ Head(b).text = <<t, q.got>>
    BY <1>1, <2>1, <2>2
  <2>. QED
    BY <1>1, <1>2, <1>3, <2>3, <2>4, <2>7, <2>8, <2>9, <2>10 DEF Phase
<1>. QED
  BY <1>3, <1>5, <1>8

(* The message on its way is received by the session of the helpers.       *)
LEMMA PhaseAsking ==
  ASSUME NEW M, NEW c, NEW t, NEW p, NEW q, NEW x, NEW y, NEW waiting, NEW own, NEW last,
         NEW z, Sound(M, p, q, x, y, waiting), Phase(t, p, x, y, waiting, own, last),
         LeadsReceiving(c, p, q), p.flight # 0, c[2] = "helper"
  PROVE  /\ Len(y.consumers) = 1
         /\ Last(y.consumers) # <<>> /\
            Has(z, y.mode, y.sent, Append(y.taken, Head(Last(y.consumers))),
                Append(Front(y.consumers), Tail(Last(y.consumers))))
              => Phase(t, q, x, z, waiting, own, Head(Last(y.consumers)))
<1>1. /\ q.flight = 0 /\ q.got = p.flight /\ p.hn = 1 /\ p.htaken = 0 /\ q.htaken = p.flight
      /\ Alters(p, q, {"got", "htaken", "flight"})
  BY DEF LeadsReceiving
<1>2. /\ q.mode = p.mode /\ q.n = p.n /\ q.helper = p.helper
      /\ q.taken = p.taken /\ q.hn = p.hn /\ q.sent = p.sent
  BY <1>1, AltersFields
<1>3. /\ x.consumers \in Seq(Seq(M)) /\ y.consumers \in Seq(Seq(M)) /\ y.taken \in Seq(M)
      /\ Len(y.consumers) = 1 /\ Len(x.consumers) = p.n /\ p.n = 0
      /\ waiting \in Seq(M) /\ <<>> \in Seq(M)
  BY <1>1, SoundParts DEF Phase
<1>4. /\ y.sent = <<>> /\ y.taken = <<>>
      /\ OnItsWay(t, p.flight, waiting, x.consumers, y.consumers)
  BY <1>1 DEF Phase, Holds
<1>. DEFINE b == y.consumers[1]
<1>5. Last(y.consumers) = b /\ b \in Seq(M)
  BY <1>3, OnlyBuffer
<1>6. \/ Holds(t, waiting, p.flight) /\ b = <<>> /\ NoneIn(x.consumers)
      \/ waiting = <<>> /\ Holds(t, b, p.flight) /\ NoneIn(x.consumers)
  <2>1. Len(x.consumers) # 1 /\ (NoneIn(y.consumers) <=> b = <<>>)
    BY <1>3, Buffers
  <2>. QED
    BY <1>4, <2>1 DEF OnItsWay
<1>8. ASSUME b # <<>>, Has(z, y.mode, y.sent, Append(y.taken, Head(b)),
                           Append(Front(y.consumers), Tail(b)))
      PROVE  Phase(t, q, x, z, waiting, own, Head(b))
  <2>1. waiting = <<>> /\ Len(b) = 1 /\ b[1].text = <<t, p.flight>> /\ NoneIn(x.consumers)
    BY <1>6, <1>8 DEF Holds
  <2>2. Head(b) = b[1] /\ Tail(b) = <<>> /\ ToSet(b) = {b[1]} /\ b[1] \in M
    BY <1>5, <2>1, MessagesOfSequences
  <2>. DEFINE w == Append(Front(y.consumers), Tail(b))
  <2>3. Len(w) = 1 /\ w[1] = <<>> /\ DOMAIN w = {1}
    <3>1. Append(Front(y.consumers), <<>>) = << <<>> >>
      BY <1>3, OnlyBuffer
    <3>2. w = << <<>> >>
      BY <2>2, <3>1
    <3>. HIDE DEF w
    <3>. QED
      BY <3>2
  <2>4. /\ z.mode = y.mode /\ z.sent = y.sent /\ z.taken = Append(y.taken, Head(b))
        /\ z.consumers = w
    BY <1>8 DEF Has
  <2>. HIDE DEF w
  <2>5. NoneIn(w)
    BY <2>3 DEF NoneIn
  <2>6. /\ Len(z.taken) = 1 /\ z.taken[1] = b[1] /\ ToSet(z.taken) = {b[1]}
    <3>1. z.taken = <<b[1]>>
      BY <1>4, <2>2, <2>4
    <3>2. ToSet(<<b[1]>>) = {b[1]}
      BY DEF ToSet
    <3>. QED
      BY <3>1, <3>2
  <2>7. Holds(t, z.taken, q.htaken)
    BY <1>1, <2>1, <2>6 DEF Holds
  <2>8. OnItsWay(t, q.flight, waiting, x.consumers, w)
    BY <1>1, <2>1, <2>5 DEF OnItsWay, Holds
  <2>9. own \subseteq Unacknowledged(x, z, waiting)
    <3>1. Buffered(y.consumers) = {b[1]}
      BY <1>3, <2>2, Buffers
    <3>2. ToSet(y.taken) = {}
      BY <1>4, MessagesOfSequences
    <3>. QED
      BY <2>6, <3>1, <3>2 DEF Phase, Unacknowledged
  <2>10. q.got # 0 /\ Head(b).text = <<t, q.got>>
    BY <1>1, <2>1, <2>2
  <2>. QED
    BY <1>1, <1>2, <1>3, <1>4, <2>3, <2>4, <2>7, <2>8, <2>9, <2>10 DEF Phase
<1>. QED
  BY <1>3, <1>5, <1>8

(* What the session has received is acknowledged.                          *)
LEMMA PhaseAcknowledging ==
  ASSUME NEW M, NEW t, NEW p, NEW q, NEW x, NEW y, NEW waiting, NEW own, NEW last,
         NEW z, NEW left, Sound(M, p, q, x, y, waiting),
         Phase(t, p, x, y, waiting, own, last), q.taken = 0, Alters(p, q, {"taken"}),
         Has(z, x.mode, x.sent, <<>>, x.consumers), left \subseteq own \ ToSet(x.taken)
  PROVE  Phase(t, q, z, y, waiting, left, last)
<1>1. /\ q.mode = p.mode /\ q.n = p.n /\ q.helper = p.helper /\ q.htaken = p.htaken
      /\ q.hn = p.hn /\ q.sent = p.sent /\ q.flight = p.flight /\ q.got = p.got
  BY AltersFields
<1>2. z.mode = x.mode /\ z.sent = x.sent /\ z.taken = <<>> /\ z.consumers = x.consumers
  BY DEF Has
<1>3. left \subseteq Unacknowledged(z, y, waiting)
  BY <1>2 DEF Phase, Unacknowledged
<1>4. Holds(t, z.taken, q.taken)
  BY <1>2 DEF Holds
<1>. QED
  BY <1>1, <1>2, <1>3, <1>4 DEF Phase

(* The transaction of the session is committed.                            *)
LEMMA PhaseCommitting ==
  ASSUME NEW M, NEW t, NEW p, NEW q, NEW x, NEW y, NEW waiting, NEW own, NEW last,
         NEW z, NEW left, Sound(M, p, q, x, y, waiting),
         Phase(t, p, x, y, waiting, own, last), LeadsCommitting(p, q),
         Has(z, x.mode, <<>>, <<>>, x.consumers),
         left \subseteq (own \union ToSet(x.sent)) \ ToSet(x.taken)
  PROVE  Phase(t, q, z, y, waiting \o x.sent, left, last)
<1>1. /\ q.sent = 0 /\ q.taken = 0
      /\ q.mode = p.mode /\ q.n = p.n /\ q.helper = p.helper /\ q.htaken = p.htaken
      /\ q.hn = p.hn /\ q.got = p.got
  BY AltersFields DEF LeadsCommitting
<1>2. z.mode = x.mode /\ z.sent = <<>> /\ z.taken = <<>> /\ z.consumers = x.consumers
  BY DEF Has
<1>3. /\ x.consumers \in Seq(Seq(M)) /\ y.consumers \in Seq(Seq(M)) /\ x.sent \in Seq(M)
      /\ waiting \in Seq(M)
  BY SoundParts
<1>4. Holds(t, z.sent, q.sent) /\ Holds(t, z.taken, q.taken)
  BY <1>1, <1>2 DEF Holds
<1>5. CASE p.sent = 0 /\ q.flight = p.flight
  <2>1. x.sent = <<>>
    BY <1>5 DEF Phase, Holds
  <2>2. waiting \o x.sent = waiting /\ ToSet(x.sent) = {}
    BY <1>3, <2>1, MessagesOfSequences
  <2>3. left \subseteq Unacknowledged(z, y, waiting)
    BY <1>2, <2>2 DEF Phase, Unacknowledged
  <2>. QED
    BY <1>1, <1>2, <1>4, <1>5, <2>2, <2>3 DEF Phase
<1>6. CASE p.sent # 0 /\ p.flight = 0 /\ q.flight = p.sent
  <2>1. waiting = <<>> /\ NoneIn(x.consumers) /\ NoneIn(y.consumers)
    BY <1>3, <1>6, NoFlight DEF Phase
  <2>2. waiting \o x.sent = x.sent
    BY <1>3, <2>1, MessagesOfSequences
  <2>3. Holds(t, x.sent, q.flight)
    BY <1>6 DEF Phase
  <2>4. OnItsWay(t, q.flight, x.sent, x.consumers, y.consumers)
    BY <2>1, <2>3 DEF OnItsWay
  <2>5. ToSet(waiting) = {}
    BY <2>1, MessagesOfSequences
  <2>6. left \subseteq Unacknowledged(z, y, x.sent)
    BY <1>2, <2>5 DEF Phase, Unacknowledged
  <2>. QED
    BY <1>1, <1>2, <1>4, <2>2, <2>4, <2>6 DEF Phase
<1>. QED
  BY <1>5, <1>6 DEF LeadsCommitting

(* What a session hands back that has no message in its buffers.           *)
LEMMA HandedBack ==
  ASSUME NEW M, NEW x \in SessionOf(M), NoneIn(x.consumers)
  PROVE  /\ Delivered(x) = x.taken
         /\ x.mode \in Automatic \/ x.taken = <<>> => ReturnedAtClose(x) = <<>>
         /\ x.mode \notin Automatic => ReturnedAtClose(x) = x.taken
<1>1. x.consumers \in Seq(Seq(M)) /\ x.taken \in Seq(M)
  BY SessionUpdates
<1>2. FlattenSeq(x.consumers) = <<>>
  BY <1>1, EmptyFlattened DEF NoneIn
<1>3. x.taken \o <<>> = x.taken
  BY <1>1, MessagesOfSequences
<1>. QED
  BY <1>2, <1>3 DEF Delivered, ReturnedAtClose, AcknowledgedAtClose, Automatic

(* Nothing is left in any buffer.                                          *)
LEMMA Emptied ==
  ASSUME NEW M, NEW w \in Seq(Seq(M))
  PROVE  NoneIn([i \in DOMAIN w |-> <<>>]) /\ Len([i \in DOMAIN w |-> <<>>]) = Len(w)
<1>1. Len(w) \in Nat /\ DOMAIN w = 1..Len(w)
  OBVIOUS
<1>2. [i \in DOMAIN w |-> <<>>] = [i \in 1..Len(w) |-> <<>>]
  BY <1>1
<1>3. \A k \in Nat : Len([i \in 1..k |-> <<>>]) = k
  OBVIOUS
<1>4. Len([i \in DOMAIN w |-> <<>>]) = Len(w)
  BY <1>1, <1>2, <1>3
<1>. QED
  BY <1>4 DEF NoneIn

(* The transaction of the session is rolled back.                          *)
LEMMA PhaseRollingBack ==
  ASSUME NEW M, NEW t, NEW p, NEW q, NEW x, NEW y, NEW waiting, NEW own, NEW last,
         NEW z, Sound(M, p, q, x, y, waiting),
         Phase(t, p, x, y, waiting, own, last), LeadsRollingBack(p, q),
         Has(z, x.mode, <<>>, <<>>, [i \in DOMAIN x.consumers |-> <<>>])
  PROVE  Phase(t, q, z, y, Delivered(x) \o waiting, own, last)
<1>1. /\ p.flight = 0 /\ q.flight = p.taken /\ q.sent = 0 /\ q.taken = 0
      /\ q.mode = p.mode /\ q.n = p.n /\ q.helper = p.helper /\ q.htaken = p.htaken
      /\ q.hn = p.hn /\ q.got = p.got
  BY AltersFields DEF LeadsRollingBack
<1>. DEFINE w == [i \in DOMAIN x.consumers |-> <<>>]
<1>2. z.mode = x.mode /\ z.sent = <<>> /\ z.taken = <<>> /\ z.consumers = w
  BY DEF Has
<1>3. /\ x.consumers \in Seq(Seq(M)) /\ y.consumers \in Seq(Seq(M)) /\ x.taken \in Seq(M)
      /\ waiting \in Seq(M)
  BY SoundParts
<1>4. waiting = <<>> /\ NoneIn(x.consumers) /\ NoneIn(y.consumers)
  BY <1>1, <1>3, NoFlight DEF Phase
<1>5. Delivered(x) = x.taken
  BY <1>4, HandedBack DEF Sound
<1>6. Delivered(x) \o waiting = x.taken
  BY <1>3, <1>4, <1>5, MessagesOfSequences
<1>7. NoneIn(w) /\ Len(w) = Len(x.consumers)
  BY <1>3, Emptied
<1>. HIDE DEF w
<1>8. OnItsWay(t, q.flight, x.taken, w, y.consumers)
  BY <1>1, <1>4, <1>7 DEF Phase, OnItsWay
<1>9. own \subseteq Unacknowledged(z, y, x.taken)
  <2>1. ToSet(waiting) = {} /\ Buffered(x.consumers) = {}
    BY <1>3, <1>4, MessagesOfSequences, Buffers
  <2>. QED
    BY <2>1 DEF Phase, Unacknowledged
<1>10. Holds(t, z.sent, q.sent) /\ Holds(t, z.taken, q.taken)
  BY <1>1, <1>2 DEF Holds
<1>. QED
  BY <1>1, <1>2, <1>6, <1>7, <1>8, <1>9, <1>10 DEF Phase

(* What a session has acknowledged when it is closed.                      *)
LEMMA Acknowledged ==
  ASSUME NEW x, x.mode \in Automatic \/ x.taken = <<>>
  PROVE  AcknowledgedAtClose(x) = x.taken
  BY DEF AcknowledgedAtClose, Automatic

(* Closing a session leaves the message on its way where it is.            *)
LEMMA StillOnItsWay ==
  ASSUME NEW M, NEW t, NEW k, NEW waiting \in Seq(M),
         NEW w \in Seq(Seq(M)), NEW v \in Seq(Seq(M)), Len(w) = 0 \/ k = 0
  PROVE  /\ OnItsWay(t, k, waiting, w, v) =>
              OnItsWay(t, k, waiting, <<>>, v) /\ NoneIn(w)
         /\ OnItsWay(t, k, waiting, v, w) =>
              OnItsWay(t, k, waiting, v, <<>>) /\ NoneIn(w)
<1>0. <<>> \in Seq(Seq(M)) /\ Len(<<>>) = 0
  OBVIOUS
<1>1. CASE Len(w) = 0
  <2>1. w = <<>>
    BY <1>1
  <2>2. NoneIn(w)
    BY <1>1, Buffers
  <2>. QED
    BY <2>1, <2>2
<1>2. CASE k = 0
  <2>1. NoneIn(<<>>)
    BY <1>0, Buffers
  <2>. QED
    BY <1>0, <1>2, <2>1, NoFlight
<1>. QED
  BY <1>1, <1>2

(* A session is closed.                                                    *)
LEMMA PhaseClosing ==
  ASSUME NEW M, NEW c, NEW t, NEW p, NEW q, NEW x, NEW y, NEW waiting, NEW own, NEW last,
         NEW z, NEW left, Sound(M, p, q, x, y, waiting),
         Phase(t, p, x, y, waiting, own, last), LeadsClosing(c, p, q),
         Has(z, "closed", <<>>, <<>>, <<>>)
  PROVE  /\ c[2] = "session" /\ left \subseteq own \ ToSet(AcknowledgedAtClose(x))
              => Phase(t, q, z, y, ReturnedAtClose(x) \o waiting, left, last)
         /\ c[2] = "helper" /\ left \subseteq own \ ToSet(AcknowledgedAtClose(y))
              => Phase(t, q, x, z, ReturnedAtClose(y) \o waiting, left, last)
<1>1. z.mode = "closed" /\ z.sent = <<>> /\ z.taken = <<>> /\ z.consumers = <<>>
  BY DEF Has
<1>2. /\ x.consumers \in Seq(Seq(M)) /\ y.consumers \in Seq(Seq(M)) /\ x.taken \in Seq(M)
      /\ y.taken \in Seq(M) /\ waiting \in Seq(M) /\ <<>> \o waiting = waiting
      /\ x \in SessionOf(M) /\ y \in SessionOf(M) /\ Len(<<>>) = 0
  BY SoundParts, MessagesOfSequences DEF Sound
<1>3. OnItsWay(t, p.flight, waiting, x.consumers, y.consumers)
  BY DEF Phase
<1>4. CASE c[2] = "session" /\ left \subseteq own \ ToSet(AcknowledgedAtClose(x))
  <2>1. /\ p.n = 0 \/ p.flight = 0
        /\ p.mode \in Automatic \/ p.taken = 0
        /\ q.mode = "closed" /\ q.sent = 0 /\ q.taken = 0 /\ q.n = 0
        /\ Alters(p, q, {"mode", "sent", "taken", "n"})
    BY <1>4 DEF LeadsClosing
  <2>2. /\ q.helper = p.helper /\ q.htaken = p.htaken /\ q.hn = p.hn
        /\ q.flight = p.flight /\ q.got = p.got
    BY <2>1, AltersFields
  <2>3. x.mode \in Automatic \/ x.taken = <<>>
    BY <2>1 DEF Phase, Holds
  <2>4. Len(x.consumers) = 0 \/ p.flight = 0
    BY <2>1 DEF Phase
  <2>5. OnItsWay(t, q.flight, waiting, <<>>, y.consumers) /\ NoneIn(x.consumers)
    BY <1>2, <1>3, <2>2, <2>4, StillOnItsWay
  <2>6. ReturnedAtClose(x) = <<>> /\ AcknowledgedAtClose(x) = x.taken
    BY <1>2, <2>3, <2>5, HandedBack, Acknowledged
  <2>7. left \subseteq Unacknowledged(z, y, waiting)
    <3>1. Buffered(x.consumers) = {}
      BY <1>2, <2>5, Buffers
    <3>. QED
      BY <1>4, <2>6, <3>1 DEF Phase, Unacknowledged
  <2>8. Holds(t, z.sent, q.sent) /\ Holds(t, z.taken, q.taken)
    BY <1>1, <2>1 DEF Holds
  <2>. QED
    BY <1>1, <1>2, <1>4, <2>1, <2>2, <2>5, <2>6, <2>7, <2>8 DEF Phase
<1>5. CASE c[2] = "helper" /\ left \subseteq own \ ToSet(AcknowledgedAtClose(y))
  <2>1. /\ p.hn = 0 \/ p.flight = 0
        /\ p.helper = "AUTO" \/ p.htaken = 0
        /\ q.helper = "closed" /\ q.htaken = 0 /\ q.hn = 0
        /\ Alters(p, q, {"helper", "htaken", "hn"})
    BY <1>5 DEF LeadsClosing
  <2>2. /\ q.mode = p.mode /\ q.sent = p.sent /\ q.taken = p.taken /\ q.n = p.n
        /\ q.flight = p.flight /\ q.got = p.got
    BY <2>1, AltersFields
  <2>3. y.mode \in Automatic \/ y.taken = <<>>
    BY <2>1 DEF Phase, Holds, Automatic
  <2>4. Len(y.consumers) = 0 \/ p.flight = 0
    BY <2>1 DEF Phase
  <2>5. OnItsWay(t, q.flight, waiting, x.consumers, <<>>) /\ NoneIn(y.consumers)
    BY <1>2, <1>3, <2>2, <2>4, StillOnItsWay
  <2>6. ReturnedAtClose(y) = <<>> /\ AcknowledgedAtClose(y) = y.taken
    BY <1>2, <2>3, <2>5, HandedBack, Acknowledged
  <2>7. left \subseteq Unacknowledged(x, z, waiting)
    <3>1. Buffered(y.consumers) = {}
      BY <1>2, <2>5, Buffers
    <3>. QED
      BY <1>5, <2>6, <3>1 DEF Phase, Unacknowledged
  <2>8. Holds(t, z.taken, q.htaken)
    BY <1>1, <2>1 DEF Holds
  <2>. QED
    BY <1>1, <1>2, <1>5, <2>1, <2>2, <2>5, <2>6, <2>7, <2>8 DEF Phase
<1>. QED
  BY <1>4, <1>5

(* The connection is closed: what is not acknowledged is in the queue.     *)
LEMMA PhaseReconnecting ==
  ASSUME NEW M, NEW t, NEW p, NEW q, NEW x, NEW y, NEW waiting, NEW own, NEW last,
         NEW left, Sound(M, p, q, x, y, waiting),
         Phase(t, p, x, y, waiting, own, last), LeadsReconnecting(p, q),
         left \subseteq own \ ToSet(AcknowledgedAtClose(x) \o AcknowledgedAtClose(y))
  PROVE  Phase(t, q, Closed, Closed, ReturnedAtClose(x) \o ReturnedAtClose(y) \o waiting,
               left, NoMessage)
<1>1. /\ Closed.mode = "closed" /\ Closed.sent = <<>> /\ Closed.taken = <<>>
      /\ Closed.consumers = <<>>
  BY DEF Closed
<1>2. /\ x.consumers \in Seq(Seq(M)) /\ y.consumers \in Seq(Seq(M)) /\ x.taken \in Seq(M)
      /\ waiting \in Seq(M)
      /\ x \in SessionOf(M) /\ y \in SessionOf(M) /\ Len(<<>>) = 0
  BY SoundParts DEF Sound
<1>3. /\ OnItsWay(t, p.flight, waiting, x.consumers, y.consumers)
      /\ Len(x.consumers) = p.n /\ Len(y.consumers) = p.hn
      /\ own \subseteq Unacknowledged(x, y, waiting)
  BY DEF Phase
<1>4. /\ p.helper = "closed" /\ p.htaken = 0 /\ p.hn = 0 /\ Alters(Fresh, q, {"flight"})
      /\ \/ p.taken # 0 /\ p.mode \notin Automatic /\ p.flight = 0 /\ q.flight = p.taken
         \/ (p.taken = 0 \/ p.mode \in Automatic) /\ q.flight = p.flight
  BY DEF LeadsReconnecting
<1>5. /\ q.mode = "closed" /\ q.sent = 0 /\ q.taken = 0 /\ q.n = 0 /\ q.helper = "closed"
      /\ q.htaken = 0 /\ q.hn = 0 /\ q.got = 0
  BY <1>4, AltersFields DEF Fresh
<1>6. y.mode = "closed" /\ y.taken = <<>> /\ y.consumers = <<>>
  BY <1>2, <1>4 DEF Phase, Holds
<1>7. /\ ReturnedAtClose(y) = <<>> /\ AcknowledgedAtClose(y) = <<>>
      /\ NoneIn(y.consumers) /\ Buffered(y.consumers) = {} /\ ToSet(y.taken) = {}
  <2>1. NoneIn(y.consumers) /\ Buffered(y.consumers) = {} /\ ToSet(y.taken) = {}
    BY <1>2, <1>6, Buffers, MessagesOfSequences
  <2>. QED
    BY <1>2, <1>6, <2>1, HandedBack, Acknowledged
<1>8. AcknowledgedAtClose(x) \in Seq(M) /\ ReturnedAtClose(x) \in Seq(M)
  BY <1>2, Handed
<1>9. AcknowledgedAtClose(x) \o AcknowledgedAtClose(y) = AcknowledgedAtClose(x)
  BY <1>7, <1>8, MessagesOfSequences
<1>10. ReturnedAtClose(x) \o ReturnedAtClose(y) \o waiting = ReturnedAtClose(x) \o waiting
  BY <1>7, <1>8, MessagesOfSequences
<1>11. NoneIn(<<>>)
  BY DEF NoneIn
<1>12. ASSUME NEW back, OnItsWay(t, q.flight, back, <<>>, <<>>), left \subseteq ToSet(back),
              ReturnedAtClose(x) \o waiting = back
       PROVE  Phase(t, q, Closed, Closed, ReturnedAtClose(x) \o ReturnedAtClose(y) \o waiting,
                    left, NoMessage)
  <2>1. left \subseteq Unacknowledged(Closed, Closed, back)
    BY <1>12 DEF Unacknowledged
  <2>. QED
    BY <1>1, <1>2, <1>5, <1>10, <1>12, <2>1 DEF Phase, Holds
<1>13. CASE p.taken # 0 /\ p.mode \notin Automatic /\ p.flight = 0 /\ q.flight = p.taken
  <2>1. waiting = <<>> /\ NoneIn(x.consumers)
    BY <1>2, <1>3, <1>13, NoFlight
  <2>2. x.mode \notin Automatic /\ Holds(t, x.taken, p.taken)
    BY <1>13 DEF Phase
  <2>3. ReturnedAtClose(x) = x.taken
    BY <1>2, <2>1, <2>2, HandedBack
  <2>4. ReturnedAtClose(x) \o waiting = x.taken
    BY <1>2, <2>1, <2>3, MessagesOfSequences
  <2>5. OnItsWay(t, q.flight, x.taken, <<>>, <<>>)
    BY <1>11, <1>13, <2>2 DEF OnItsWay
  <2>6. left \subseteq ToSet(x.taken)
    <3>1. ToSet(waiting) = {} /\ Buffered(x.consumers) = {}
      BY <1>2, <2>1, Buffers, MessagesOfSequences
    <3>. QED
      BY <1>3, <1>7, <3>1 DEF Unacknowledged
  <2>. QED
    BY <1>12, <2>4, <2>5, <2>6
<1>14. CASE (p.taken = 0 \/ p.mode \in Automatic) /\ q.flight = p.flight
  <2>1. x.mode \in Automatic \/ x.taken = <<>>
    BY <1>14 DEF Phase, Holds
  <2>2. AcknowledgedAtClose(x) = x.taken
    BY <2>1, Acknowledged
  <2>3. left \subseteq ToSet(waiting) \union Buffered(x.consumers)
    BY <1>3, <1>7, <1>9, <2>2 DEF Unacknowledged
  <2>4. CASE Holds(t, waiting, p.flight) /\ NoneIn(x.consumers)
    <3>1. ReturnedAtClose(x) \o waiting = waiting
      BY <1>2, <2>1, <2>4, HandedBack, MessagesOfSequences
    <3>2. OnItsWay(t, q.flight, waiting, <<>>, <<>>)
      BY <1>11, <1>14, <2>4 DEF OnItsWay
    <3>3. left \subseteq ToSet(waiting)
      BY <1>2, <2>3, <2>4, Buffers
    <3>. QED
      BY <1>12, <3>1, <3>2, <3>3
  <2>5. CASE waiting = <<>> /\ Len(x.consumers) = 1 /\ Holds(t, x.consumers[1], p.flight)
    <3>1. FlattenSeq(x.consumers) = x.consumers[1] /\ x.consumers[1] \in Seq(M)
      BY <1>2, <2>5, Flattened, Buffers
    <3>2. ReturnedAtClose(x) = x.consumers[1]
      <4>1. x.taken = <<>> => Delivered(x) = x.consumers[1]
        BY <3>1, MessagesOfSequences DEF Delivered
      <4>. QED
        BY <2>2, <3>1, <4>1 DEF ReturnedAtClose
    <3>3. ReturnedAtClose(x) \o waiting = x.consumers[1]
      BY <2>5, <3>1, <3>2, MessagesOfSequences
    <3>4. OnItsWay(t, q.flight, x.consumers[1], <<>>, <<>>)
      BY <1>11, <1>14, <2>5 DEF OnItsWay
    <3>5. left \subseteq ToSet(x.consumers[1])
      <4>1. ToSet(waiting) = {} /\ Buffered(x.consumers) = ToSet(x.consumers[1])
        BY <1>2, <2>5, Buffers, MessagesOfSequences
      <4>. QED
        BY <2>3, <4>1
    <3>. QED
      BY <1>12, <3>3, <3>4, <3>5
  <2>. QED
    BY <1>2, <1>3, <1>6, <2>4, <2>5 DEF OnItsWay
<1>. QED
  BY <1>4, <1>13, <1>14

(* The broker hands its message to the only consumer.                      *)
LEMMA PhaseDelivering ==
  ASSUME NEW M, NEW t, NEW p, NEW x, NEW y, NEW waiting, NEW own, NEW last,
         NEW z, NEW c, Sound(M, p, p, x, y, waiting), waiting # <<>>,
         Phase(t, p, x, y, waiting, own, last)
  PROVE  /\ c \in DOMAIN x.consumers /\
            Has(z, x.mode, x.sent, x.taken,
                [x.consumers EXCEPT ![c] = Append(x.consumers[c], Head(waiting))])
              => Phase(t, p, z, y, Tail(waiting), own, last)
         /\ c \in DOMAIN y.consumers /\
            Has(z, y.mode, y.sent, y.taken,
                [y.consumers EXCEPT ![c] = Append(y.consumers[c], Head(waiting))])
              => Phase(t, p, x, z, Tail(waiting), own, last)
<1>1. /\ x.consumers \in Seq(Seq(M)) /\ y.consumers \in Seq(Seq(M)) /\ waiting \in Seq(M)
      /\ p.n \in Nat /\ p.hn \in Nat /\ (p.flight = 0 \/ p.n + p.hn <= 1)
      /\ Len(x.consumers) = p.n /\ Len(y.consumers) = p.hn
      /\ own \subseteq Unacknowledged(x, y, waiting)
  BY SoundParts DEF Phase
<1>2. /\ Holds(t, waiting, p.flight) /\ NoneIn(x.consumers) /\ NoneIn(y.consumers)
      /\ p.flight # 0
  BY DEF Phase, OnItsWay, Holds
<1>3. /\ Len(waiting) = 1 /\ waiting[1].text = <<t, p.flight>> /\ Head(waiting) = waiting[1]
      /\ Tail(waiting) = <<>> /\ ToSet(waiting) = {waiting[1]} /\ ToSet(Tail(waiting)) = {}
  BY <1>1, <1>2, MessagesOfSequences DEF Holds
<1>. DEFINE m == waiting[1]
<1>4. \A w \in Seq(Seq(M)) : Len(w) = 1 /\ NoneIn(w) =>
        \A i \in DOMAIN w : [w EXCEPT ![i] = Append(w[i], m)] = << <<m>> >>
  <2>1. SUFFICES ASSUME NEW w \in Seq(Seq(M)), Len(w) = 1, NoneIn(w), NEW i \in DOMAIN w
                 PROVE  [w EXCEPT ![i] = Append(w[i], m)] = << <<m>> >>
    BY Zenon
  <2>2. i = 1 /\ w = << <<>> >>
    BY <2>1 DEF NoneIn
  <2>3. Append(<<>>, m) = <<m>>
    OBVIOUS
  <2>. HIDE DEF m
  <2>. QED
    BY <2>2, <2>3
<1>5. NoneIn(<<>>) /\ Buffered(<< <<m>> >>) = {m} /\ Len(<<m>>) = 1 /\ <<m>>[1] = m
      /\ Len(<< <<m>> >>) = 1
  <2>1. ToSet(<<m>>) = {m}
    BY DEF ToSet
  <2>. HIDE DEF m
  <2>. QED
    BY <2>1 DEF NoneIn, Buffered
<1>6. ASSUME c \in DOMAIN x.consumers,
             Has(z, x.mode, x.sent, x.taken,
                [x.consumers EXCEPT ![c] = Append(x.consumers[c], Head(waiting))])
      PROVE  Phase(t, p, z, y, Tail(waiting), own, last)
  <2>1. p.n = 1 /\ p.hn = 0
    <3>1. p.n # 0
      BY <1>1, <1>6
    <3>. QED
      BY <1>1, <1>2, <3>1
  <2>2. z.mode = x.mode /\ z.sent = x.sent /\ z.taken = x.taken /\ z.consumers = << <<m>> >>
    <3>1. [x.consumers EXCEPT ![c] = Append(x.consumers[c], m)] = << <<m>> >>
      BY <1>1, <1>2, <1>4, <1>6, <2>1
    <3>2. z.consumers = [x.consumers EXCEPT ![c] = Append(x.consumers[c], m)]
      BY <1>3, <1>6 DEF Has
    <3>. QED
      BY <1>6, <3>1, <3>2 DEF Has
  <2>3. OnItsWay(t, p.flight, <<>>, z.consumers, y.consumers)
    BY <1>2, <1>3, <1>5, <2>2 DEF OnItsWay, Holds
  <2>4. own \subseteq Unacknowledged(z, y, Tail(waiting))
    BY <1>1, <1>2, <1>3, <1>5, <2>2, Buffers DEF Unacknowledged
  <2>. QED
    BY <1>1, <1>3, <1>5, <2>1, <2>2, <2>3, <2>4 DEF Phase
<1>7. ASSUME c \in DOMAIN y.consumers,
             Has(z, y.mode, y.sent, y.taken,
                [y.consumers EXCEPT ![c] = Append(y.consumers[c], Head(waiting))])
      PROVE  Phase(t, p, x, z, Tail(waiting), own, last)
  <2>1. p.hn = 1 /\ p.n = 0
    <3>1. p.hn # 0
      BY <1>1, <1>7
    <3>. QED
      BY <1>1, <1>2, <3>1
  <2>2. z.mode = y.mode /\ z.sent = y.sent /\ z.taken = y.taken /\ z.consumers = << <<m>> >>
    <3>1. [y.consumers EXCEPT ![c] = Append(y.consumers[c], m)] = << <<m>> >>
      BY <1>1, <1>2, <1>4, <1>7, <2>1
    <3>2. z.consumers = [y.consumers EXCEPT ![c] = Append(y.consumers[c], m)]
      BY <1>3, <1>7 DEF Has
    <3>. QED
      BY <1>7, <3>1, <3>2 DEF Has
  <2>3. OnItsWay(t, p.flight, <<>>, x.consumers, z.consumers)
    BY <1>2, <1>3, <1>5, <2>2 DEF OnItsWay, Holds
  <2>4. own \subseteq Unacknowledged(x, z, Tail(waiting))
    BY <1>1, <1>2, <1>3, <1>5, <2>2, Buffers DEF Unacknowledged
  <2>. QED
    BY <1>1, <1>3, <1>5, <2>1, <2>2, <2>3, <2>4 DEF Phase
<1>. QED
  BY <1>6, <1>7

-----------------------------------------------------------------------------
(* The phase of a running test                                             *)

(* What the next state has to satisfy to be in a phase.                    *)
LEMMA PhaseAgain ==
  ASSUME NEW t, NEW q, NEW own, own = {m \in pending' : m.id[1] = n'},
         Phase(t, q, session'["session"], session'["helper"], queue', own, received')
  PROVE  InPhase(t, q)'
  BY DEF InPhase, OwnPending, Phase, OnItsWay, Unacknowledged, Holds, NoneIn, Buffered

(* The other session stays when one changes.                               *)
LEMMA OtherStays ==
  ASSUME NEW s \in Sessions, NEW mode, NEW sent, NEW taken, NEW w, Turns(s, mode, sent, taken, w)
  PROVE  /\ s = "session" => /\ session'["helper"] = session["helper"]
                             /\ Has(session'["session"], mode, sent, taken, w)
         /\ s = "helper" => /\ session'["session"] = session["session"]
                            /\ Has(session'["helper"], mode, sent, taken, w)
  BY DEF Turns, Sessions

(* A served call leads from phase to phase.                                *)
LEMMA PhaseServed ==
  ASSUME NEW M, Holding(M), Prepared, Running, Call \in BodyCalls, Served, n' = n,
         \A k \in {1, 2} : [text |-> <<test, k>>, id |-> <<n, pc>>] \in M,
         NEW t, NEW p \in Phases, NEW q \in Phases, t = test, Sole(p), Leads(Call, p, q),
         InPhase(t, p)
  PROVE  InPhase(t, q)'
<1>. DEFINE x == session["session"]  y == session["helper"]  own == OwnPending
            left == {m \in pending' : m.id[1] = n'}
<1>1. Sound(M, p, q, x, y, queue)
  BY Held DEF Sound, Leads
<1>2. Phase(t, p, x, y, queue, own, received)
  BY DEF InPhase
<1>3. own = {m \in pending : m.id[1] = n}
  BY DEF OwnPending
<1>4. /\ "session" \in Sessions /\ "helper" \in Sessions
      /\ \A s \in Sessions : s \in {"session", "helper"}
  BY DEF Sessions
<1>5. Call[1] \notin {"whileReceived", "assertText", "assertNull"}
  BY ServedBy
<1>. HIDE DEF own, Sessions
<1>6. CASE Call[1] \in {"getConnection", "start", "stop"}
  <2>1. q = p /\ UNCHANGED <<session, queue, pending, received>>
    <3>1. GetConnection \/ Start \/ Stop
      BY <1>6, ServedBy DEF IsOp
    <3>2. UNCHANGED <<session, queue, pending, received>>
      BY <3>1 DEF GetConnection, Start, Stop
    <3>3. q = p
      BY <1>6 DEF Leads
    <3>. QED
      BY <3>2, <3>3
  <2>2. own = left
    BY <1>3, <2>1
  <2>. QED
    BY <1>2, <2>1, <2>2, PhaseAgain
<1>7. CASE Call[1] = "createSession"
  <2>1. OpenSession /\ LeadsOpening(Call, p, q)
    BY <1>7, ServedBy DEF IsOp, Leads
  <2>2. /\ Call[2] \in Sessions /\ Turns(Call[2], Call[3], <<>>, <<>>, <<>>)
        /\ queue' = queue /\ pending' = pending /\ received' = received
    BY <2>1, OpenSessionEffect
  <2>3. own = left
    BY <1>3, <2>2
  <2>4. CASE Call[2] = "session"
    <3>1. Phase(t, q, session'["session"], y, queue, own, received)
      BY <1>1, <1>2, <2>1, <2>2, <2>4, OtherStays, PhaseOpening
    <3>. QED
      BY <2>2, <2>3, <2>4, <3>1, OtherStays, PhaseAgain
  <2>5. CASE Call[2] = "helper"
    <3>1. Phase(t, q, x, session'["helper"], queue, own, received)
      BY <1>1, <1>2, <2>1, <2>2, <2>5, OtherStays, PhaseOpening
    <3>. QED
      BY <2>2, <2>3, <2>5, <3>1, OtherStays, PhaseAgain
  <2>. QED
    BY <1>4, <2>2, <2>4, <2>5
<1>8. CASE Call[1] = "send"
  <2>1. Send /\ LeadsSending(Call, p, q)
    BY <1>8, ServedBy DEF IsOp, Leads
  <2>. DEFINE m == [text |-> <<test, Call[2]>>, id |-> <<n, pc>>]
  <2>2. Call[2] \in {1, 2}
    BY <1>8, CallTypes
  <2>3. m \in M /\ m.text = <<t, Call[2]>> /\ m.id[1] = n
    BY <2>2
  <2>. DEFINE now == /\ x.mode = "TRANSACTED"
                     /\ Turns("session", "TRANSACTED", Append(x.sent, m), x.taken, x.consumers)
                     /\ queue' = queue /\ pending' = pending
              later == /\ x.mode # "TRANSACTED" /\ session' = session
                       /\ queue' = Append(queue, m) /\ pending' = pending \union {m}
  <2>4. received' = received /\ (now \/ later)
    BY <2>1, <2>3, SendEffect
  <2>. HIDE DEF m
  <2>5. CASE now
    <3>3. Has(session'["session"], x.mode, Append(x.sent, m), x.taken, x.consumers)
      BY <1>4, <2>5, OtherStays
    <3>1. Phase(t, q, session'["session"], y, queue, own, received)
      BY <1>1, <1>2, <2>1, <2>2, <2>3, <2>5, <3>3, PhaseSending
    <3>2. own = left
      BY <1>3, <2>5
    <3>. QED
      BY <1>4, <2>4, <2>5, <3>1, <3>2, OtherStays, PhaseAgain
  <2>6. CASE later
    <3>1. Phase(t, q, x, y, Append(queue, m), own \union {m}, received)
      BY <1>1, <1>2, <2>1, <2>2, <2>3, <2>6, PhaseSending
    <3>2. own \union {m} = left
      BY <1>3, <2>3, <2>6
    <3>. QED
      BY <2>4, <2>6, <3>1, <3>2, PhaseAgain
  <2>. QED
    BY <2>4, <2>5, <2>6
<1>9. CASE Call[1] = "createConsumer"
  <2>1. CreateConsumer /\ LeadsConsuming(Call, p, q)
    BY <1>9, ServedBy DEF IsOp, Leads
  <2>2. /\ Call[2] \in Sessions
        /\ Turns(Call[2], session[Call[2]].mode, session[Call[2]].sent,
                  session[Call[2]].taken, Append(session[Call[2]].consumers, <<>>))
        /\ queue' = queue /\ pending' = pending /\ received' = received
    BY <2>1, CreateConsumerEffect
  <2>3. own = left
    BY <1>3, <2>2
  <2>4. CASE Call[2] = "session"
    <3>1. Phase(t, q, session'["session"], y, queue, own, received)
      BY <1>1, <1>2, <2>1, <2>2, <2>4, OtherStays, PhaseConsuming
    <3>. QED
      BY <2>2, <2>3, <2>4, <3>1, OtherStays, PhaseAgain
  <2>5. CASE Call[2] = "helper"
    <3>1. Phase(t, q, x, session'["helper"], queue, own, received)
      BY <1>1, <1>2, <2>1, <2>2, <2>5, OtherStays, PhaseConsuming
    <3>. QED
      BY <2>2, <2>3, <2>5, <3>1, OtherStays, PhaseAgain
  <2>. QED
    BY <1>4, <2>2, <2>4, <2>5
<1>10. CASE Call[1] = "acknowledge"
  <2>1. Acknowledge /\ q.taken = 0 /\ Alters(p, q, {"taken"})
    BY <1>10, ServedBy DEF IsOp, Leads
  <2>2. /\ Turns("session", x.mode, x.sent, <<>>, x.consumers)
        /\ queue' = queue /\ received' = received /\ pending' = pending \ ToSet(x.taken)
    BY <2>1, AcknowledgeEffect
  <2>3. left \subseteq own \ ToSet(x.taken)
    BY <1>3, <2>2
  <2>. HIDE DEF left
  <2>4. Phase(t, q, session'["session"], y, queue, left, received)
    BY <1>1, <1>2, <1>4, <2>1, <2>2, <2>3, OtherStays, PhaseAcknowledging
  <2>. QED
    BY <1>4, <2>2, <2>4, OtherStays, PhaseAgain DEF left
<1>11. CASE Call[1] = "commit"
  <2>1. Commit /\ LeadsCommitting(p, q)
    BY <1>11, ServedBy DEF IsOp, Leads
  <2>2. /\ Turns("session", x.mode, <<>>, <<>>, x.consumers)
        /\ received' = received /\ queue' = queue \o x.sent
        /\ pending' = (pending \union ToSet(x.sent)) \ ToSet(x.taken)
    BY <2>1, CommitEffect
  <2>3. left \subseteq (own \union ToSet(x.sent)) \ ToSet(x.taken)
    BY <1>3, <2>2
  <2>. HIDE DEF left
  <2>4. Phase(t, q, session'["session"], y, queue \o x.sent, left, received)
    BY <1>1, <1>2, <1>4, <2>1, <2>2, <2>3, OtherStays, PhaseCommitting
  <2>. QED
    BY <1>4, <2>2, <2>4, OtherStays, PhaseAgain DEF left
<1>12. CASE Call[1] = "rollback"
  <2>1. Rollback /\ LeadsRollingBack(p, q)
    BY <1>12, ServedBy DEF IsOp, Leads
  <2>2. /\ Turns("session", x.mode, <<>>, <<>>, [i \in DOMAIN x.consumers |-> <<>>])
        /\ received' = received /\ queue' = Delivered(x) \o queue /\ pending' = pending
    BY <2>1, RollbackEffect
  <2>3. own = left
    BY <1>3, <2>2
  <2>4. Phase(t, q, session'["session"], y, Delivered(x) \o queue, own, received)
    BY <1>1, <1>2, <1>4, <2>1, <2>2, OtherStays, PhaseRollingBack
  <2>. QED
    BY <1>4, <2>2, <2>3, <2>4, OtherStays, PhaseAgain
<1>13. CASE Call[1] = "closeSession"
  <2>1. SessionClose /\ LeadsClosing(Call, p, q)
    BY <1>13, ServedBy DEF IsOp, Leads
  <2>2. /\ Call[2] \in Sessions /\ Turns(Call[2], "closed", <<>>, <<>>, <<>>)
        /\ received' = received /\ queue' = ReturnedAtClose(session[Call[2]]) \o queue
        /\ pending' = pending \ ToSet(AcknowledgedAtClose(session[Call[2]]))
    BY <2>1, SessionCloseEffect
  <2>3. left \subseteq own \ ToSet(AcknowledgedAtClose(session[Call[2]]))
    BY <1>3, <2>2
  <2>. HIDE DEF left
  <2>4. CASE Call[2] = "session"
    <3>1. Phase(t, q, session'["session"], y, queue', left, received)
      BY <1>1, <1>2, <2>1, <2>2, <2>3, <2>4, OtherStays, PhaseClosing
    <3>. QED
      BY <2>2, <2>4, <3>1, OtherStays, PhaseAgain DEF left
  <2>5. CASE Call[2] = "helper"
    <3>1. Phase(t, q, x, session'["helper"], queue', left, received)
      BY <1>1, <1>2, <2>1, <2>2, <2>3, <2>5, OtherStays, PhaseClosing
    <3>. QED
      BY <2>2, <2>5, <3>1, OtherStays, PhaseAgain DEF left
  <2>. QED
    BY <1>4, <2>2, <2>4, <2>5
<1>14. CASE Call[1] = "close"
  <2>1. ConnectionClose /\ LeadsReconnecting(p, q)
    BY <1>14, ServedBy DEF IsOp, Leads
  <2>2. /\ session'["session"] = Closed /\ session'["helper"] = Closed
        /\ received' = NoMessage
        /\ queue' = ReturnedAtClose(x) \o ReturnedAtClose(y) \o queue
        /\ pending' = pending \ ToSet(AcknowledgedAtClose(x) \o AcknowledgedAtClose(y))
    BY <2>1, ConnectionCloseEffect
  <2>3. left \subseteq own \ ToSet(AcknowledgedAtClose(x) \o AcknowledgedAtClose(y))
    BY <1>3, <2>2
  <2>. HIDE DEF left
  <2>4. Phase(t, q, Closed, Closed, ReturnedAtClose(x) \o ReturnedAtClose(y) \o queue,
              left, NoMessage)
    BY <1>1, <1>2, <2>1, <2>3, PhaseReconnecting
  <2>. QED
    BY <2>2, <2>4, PhaseAgain DEF left
<1>15. CASE Call[1] = "receive"
  <2>1. Receive /\ LeadsReceiving(Call, p, q)
    BY <1>15, ServedBy DEF IsOp, Leads
  <2>. DEFINE b == Buffer(Call[2])
              takes == /\ b # <<>> /\ received' = Head(b)
                       /\ Turns(Call[2], session[Call[2]].mode, session[Call[2]].sent,
                                Append(session[Call[2]].taken, Head(b)),
                                Append(Front(session[Call[2]].consumers), Tail(b)))
              finds == /\ b = <<>> /\ queue = <<>> /\ received' = NoMessage
                       /\ session' = session
  <2>2. /\ Call[2] \in Sessions /\ queue' = queue /\ pending' = pending
        /\ takes \/ finds
    BY <2>1, ReceiveEffect
  <2>3. own = left
    BY <1>3, <2>2
  <2>4. CASE p.flight = 0
    <3>1. ~takes
      <4>1. /\ NoneIn(x.consumers) /\ NoneIn(y.consumers)
            /\ x.consumers \in Seq(Seq(M)) /\ y.consumers \in Seq(Seq(M))
        BY <1>1, <1>2, <2>4, SoundParts, NoFlight DEF Phase
      <4>2. session[Call[2]].consumers # <<>>
        BY <2>1, ReceiveEffect
      <4>3. \A w \in Seq(Seq(M)) : w # <<>> /\ NoneIn(w) => Last(w) = <<>>
        BY DEF NoneIn, Last
      <4>4. b = <<>>
        BY <1>4, <2>2, <4>1, <4>2, <4>3 DEF Buffer
      <4>. QED
        BY <4>4
    <3>2. Phase(t, q, x, y, queue, own, NoMessage)
      BY <1>1, <1>2, <2>1, <2>4, PhaseFindingNothing
    <3>. QED
      BY <2>2, <2>3, <3>1, <3>2, PhaseAgain
  <2>5. CASE p.flight # 0 /\ Call[2] = "session"
    <3>1. b = Last(x.consumers)
      BY <2>5 DEF Buffer
    <3>2. takes
      BY <1>1, <1>2, <2>1, <2>2, <2>5, <3>1, MessageThere
    <3>3. Phase(t, q, session'["session"], y, queue, own, Head(b))
      BY <1>1, <1>2, <2>1, <2>2, <2>5, <3>1, <3>2, OtherStays, PhaseReceiving
    <3>. QED
      BY <2>2, <2>3, <2>5, <3>2, <3>3, OtherStays, PhaseAgain
  <2>6. CASE p.flight # 0 /\ Call[2] = "helper"
    <3>1. b = Last(y.consumers)
      BY <2>6 DEF Buffer
    <3>2. takes
      BY <1>1, <1>2, <2>1, <2>2, <2>6, <3>1, MessageThere
    <3>3. Phase(t, q, x, session'["helper"], queue, own, Head(b))
      BY <1>1, <1>2, <2>1, <2>2, <2>6, <3>1, <3>2, OtherStays, PhaseAsking
    <3>. QED
      BY <2>2, <2>3, <2>6, <3>2, <3>3, OtherStays, PhaseAgain
  <2>. QED
    BY <1>4, <2>2, <2>4, <2>5, <2>6
<1>. QED
  BY <1>5, <1>6, <1>7, <1>8, <1>9, <1>10, <1>11, <1>12, <1>13, <1>14, <1>15 DEF Leads

(* A delivery leaves the phase as it is.                                   *)
LEMMA PhaseDelivered ==
  ASSUME NEW M, Holding(M), NEW t, NEW p \in Phases, Sole(p), InPhase(t, p), DeliverAny
  PROVE  InPhase(t, p)'
<1>. DEFINE x == session["session"]  y == session["helper"]  own == OwnPending
            left == {m \in pending' : m.id[1] = n'}
<1>1. Sound(M, p, p, x, y, queue)
  BY Held DEF Sound
<1>2. Phase(t, p, x, y, queue, own, received)
  BY DEF InPhase
<1>3. own = {m \in pending : m.id[1] = n}
  BY DEF OwnPending
<1>. HIDE DEF own
<1>4. PICK s \in Sessions : \E c \in DOMAIN session[s].consumers : Deliver(s, c)
  BY DEF DeliverAny
<1>5. PICK c \in DOMAIN session[s].consumers : Deliver(s, c)
  BY <1>4
<1>6. /\ queue # <<>>
      /\ Turns(s, session[s].mode, session[s].sent, session[s].taken,
               [session[s].consumers EXCEPT
                  ![c] = Append(session[s].consumers[c], Head(queue))])
      /\ queue' = Tail(queue) /\ pending' = pending /\ received' = received
  BY <1>5, DeliverEffect
<1>7. n' = n
  BY <1>5 DEF Deliver
<1>8. own = left
  BY <1>3, <1>6, <1>7
<1>9. CASE s = "session"
  <2>1. Phase(t, p, session'["session"], y, Tail(queue), own, received)
    BY <1>1, <1>2, <1>6, <1>9, OtherStays, PhaseDelivering
  <2>. QED
    BY <1>6, <1>8, <1>9, <2>1, OtherStays, PhaseAgain
<1>10. CASE s = "helper"
  <2>1. Phase(t, p, x, session'["helper"], Tail(queue), own, received)
    BY <1>1, <1>2, <1>6, <1>10, OtherStays, PhaseDelivering
  <2>. QED
    BY <1>6, <1>8, <1>10, <2>1, OtherStays, PhaseAgain
<1>. QED
  BY <1>9, <1>10 DEF Sessions

-----------------------------------------------------------------------------
(* setUp drains the queue                                                  *)

(* Nothing is a message that says nothing.                                 *)
LEMMA NoMessageSent ==
  ASSUME NEW k, NEW m \in MessagesOf(k)
  PROVE  m # NoMessage
<1>1. m.text \in Tests \X {1, 2}
  BY DEF MessagesOf
<1>2. m.text[2] \in {1, 2}
  BY <1>1
<1>3. NoMessage.text[2] = 0
  BY DEF NoMessage
<1>. QED
  BY <1>2, <1>3

(* A test starts without messages of its own.                              *)
LEMMA SetUpStarts ==
  ASSUME Typed, AtRest, NEW t \in Tests, StartTest(t)
  PROVE  pc' = 1 /\ SetUpInv'
<1>1. /\ n \in Nat /\ Holding(MessagesOf(n))
  BY TypedParts
<1>2. /\ pc' = 1 /\ n' = n + 1 /\ session' = session /\ pending' = pending /\ ~Running
  BY DEF StartTest, broker
<1>3. session["session"] = Closed /\ session["helper"] = Closed
  BY <1>2 DEF AtRest, AllClosed, Sessions
<1>4. ASSUME NEW m \in pending PROVE m.id[1] # n + 1
  <2>1. m \in MessagesOf(n)
    BY <1>1 DEF Holding
  <2>2. m.id \in (0..n) \X Nat
    BY <2>1 DEF MessagesOf
  <2>3. m.id[1] \in 0..n
    BY <2>2
  <2>. QED
    BY <1>1, <2>3
<1>5. OwnPending' = {}
  BY <1>2, <1>4 DEF OwnPending
<1>. QED
  BY <1>2, <1>3, <1>5 DEF SetUpInv

(* setUp goes on, call by call.                                            *)
LEMMA SetUpGoesOn ==
  ASSUME Typed, Prepared, Running, Served, pc <= 8, SetUpInv, pc' = pc + 1, n' = n
  PROVE  pc' <= 8 /\ SetUpInv'
<1>1. /\ test \in Tests /\ pc \in 1..End /\ n \in Nat /\ pc \in Nat /\ Holding(MessagesOf(n))
  BY TypedParts
<1>2. Call = SetUp[pc] /\ Call \in BodyCalls
  BY <1>1, CallKnown, ServedKnown
<1>3. /\ session["session"] = Closed /\ OwnPending = {}
      /\ OwnPending = {m \in pending : m.id[1] = n}
  BY DEF SetUpInv, OwnPending
<1>4. pc \in {1, 2, 3, 4, 5, 6, 7}
  <2>1. pc # 8
    BY <1>2, SetUpText, ServedBy
  <2>. QED
    BY <1>1, <2>1
<1>5. ASSUME pending' \subseteq pending PROVE OwnPending' = {}
  BY <1>3, <1>5 DEF OwnPending
<1>6. CASE pc = 1
  <2>1. GetConnection
    BY <1>2, <1>6, SetUpText, ServedBy DEF IsOp
  <2>2. session' = session /\ pending' = pending /\ pc' = 2
    BY <1>6, <2>1 DEF GetConnection
  <2>. QED
    BY <1>5, <1>6, <2>2 DEF SetUpInv
<1>7. CASE pc = 2
  <2>1. OpenSession /\ Call = <<"createSession", "helper", "AUTO">>
    BY <1>2, <1>7, SetUpText, ServedBy DEF IsOp
  <2>2. session' = [session EXCEPT !["helper"] = Opened("AUTO")] /\ pending' = pending
        /\ pc' = 3
    BY <1>7, <2>1 DEF OpenSession
  <2>3. session'["helper"] = Opened("AUTO") /\ session'["session"] = session["session"]
    BY <1>1, <2>2, Held DEF Sessions
  <2>. QED
    BY <1>3, <1>5, <2>2, <2>3 DEF SetUpInv
<1>8. CASE pc = 3
  <2>1. Start
    BY <1>2, <1>8, SetUpText, ServedBy DEF IsOp
  <2>2. session' = session /\ pending' = pending /\ pc' = 4
    BY <1>8, <2>1 DEF Start
  <2>. QED
    BY <1>5, <1>8, <2>2 DEF SetUpInv
<1>9. CASE pc = 4
  <2>1. CreateConsumer /\ Call = <<"createConsumer", "helper">>
    BY <1>2, <1>9, SetUpText, ServedBy DEF IsOp
  <2>2. /\ Turns("helper", session["helper"].mode, session["helper"].sent,
                  session["helper"].taken, Append(session["helper"].consumers, <<>>))
        /\ pending' = pending /\ pc' = 5
    BY <1>1, <1>2, <1>9, <2>1, CreateConsumerEffect
  <2>3. session["helper"] = Opened("AUTO")
    BY <1>9 DEF SetUpInv
  <2>4. /\ session["helper"].mode = "AUTO" /\ session["helper"].taken = <<>>
        /\ session["helper"].consumers = <<>>
    BY <2>3 DEF Opened, Closed
  <2>5. Append(<<>>, <<>>) = << <<>> >> /\ Len(<< <<>> >>) = 1
    OBVIOUS
  <2>6. /\ session'["session"] = session["session"] /\ session'["helper"].mode = "AUTO"
        /\ session'["helper"].taken = <<>> /\ Len(session'["helper"].consumers) = 1
    BY <2>2, <2>4, <2>5 DEF Turns, Has, Sessions
  <2>. QED
    BY <1>3, <1>5, <2>2, <2>6 DEF SetUpInv
<1>10. CASE pc = 5
  <2>1. Receive /\ Call = <<"receive", "helper">>
    BY <1>2, <1>10, SetUpText, ServedBy DEF IsOp
  <2>. DEFINE y == session["helper"]  b == Buffer("helper")
              takes == /\ b # <<>> /\ received' = Head(b)
                       /\ Turns("helper", y.mode, y.sent, Append(y.taken, Head(b)),
                                Append(Front(y.consumers), Tail(b)))
              finds == b = <<>> /\ queue = <<>> /\ received' = NoMessage /\ session' = session
  <2>2. /\ b \in Seq(MessagesOf(n)) /\ queue' = queue /\ pending' = pending
        /\ takes \/ finds
    BY <1>1, <1>2, <2>1, ReceiveEffect
  <2>3. y.mode = "AUTO" /\ Len(y.consumers) = 1 /\ y.taken = <<>> /\ pc' = 6
    BY <1>10 DEF SetUpInv
  <2>4. b = y.consumers[1] /\ \A e : Append(Front(y.consumers), e) = <<e>>
    BY <1>1, <2>3, Held, OnlyBuffer DEF Buffer
  <2>5. CASE takes
    <3>1. received' # NoMessage
      <4>1. Head(b) \in MessagesOf(n)
        BY <2>2, <2>5
      <4>. QED
        BY <2>5, <4>1, NoMessageSent
    <3>2. /\ session'["session"] = session["session"] /\ session'["helper"].mode = "AUTO"
          /\ session'["helper"].consumers = <<Tail(b)>>
      BY <2>3, <2>4, <2>5 DEF Turns, Has, Sessions
    <3>3. Len(session'["helper"].consumers) = 1
      BY <3>2
    <3>. QED
      BY <1>3, <1>5, <2>2, <2>3, <3>1, <3>2, <3>3 DEF SetUpInv
  <2>6. CASE finds
    BY <1>3, <1>5, <2>2, <2>3, <2>4, <2>6 DEF SetUpInv
  <2>. QED
    BY <2>2, <2>5, <2>6
<1>11. CASE pc = 6
  <2>1. Stop
    BY <1>2, <1>11, SetUpText, ServedBy DEF IsOp
  <2>2. session' = session /\ pending' = pending /\ pc' = 7 /\ received' = received
        /\ queue' = queue
    BY <1>11, <2>1 DEF Stop
  <2>. QED
    BY <1>5, <1>11, <2>2 DEF SetUpInv
<1>12. CASE pc = 7
  <2>1. SessionClose /\ Call = <<"closeSession", "helper">>
    BY <1>2, <1>12, SetUpText, ServedBy DEF IsOp
  <2>. DEFINE y == session["helper"]
  <2>2. /\ Turns("helper", "closed", <<>>, <<>>, <<>>) /\ session'["helper"] = Closed
        /\ received' = received /\ queue' = ReturnedAtClose(y) \o queue
        /\ pending' \subseteq pending /\ pc' = 8
    BY <1>1, <1>2, <1>12, <2>1, SessionCloseEffect
  <2>3. session'["session"] = session["session"]
    BY <2>2, OtherStays DEF Sessions
  <2>4. Len(y.consumers) = 1 /\ y.consumers \in Seq(Seq(MessagesOf(n)))
        /\ y \in SessionOf(MessagesOf(n))
    BY <1>1, <1>12, Held DEF SetUpInv
  <2>5. ASSUME received = NoMessage PROVE queue' = <<>>
    <3>1. y.taken = <<>> /\ y.consumers[1] = <<>> /\ queue = <<>>
      BY <1>12, <2>5 DEF SetUpInv
    <3>2. NoneIn(y.consumers)
      BY <2>4, <3>1, Buffers
    <3>3. ReturnedAtClose(y) = <<>>
      BY <2>4, <3>1, <3>2, HandedBack
    <3>. QED
      BY <2>2, <3>1, <3>3
  <2>. QED
    BY <1>3, <1>5, <2>2, <2>3, <2>5 DEF SetUpInv
<1>. QED
  BY <1>4, <1>6, <1>7, <1>8, <1>9, <1>10, <1>11, <1>12

(* The broker may hand out what is left in the queue meanwhile.            *)
LEMMA SetUpDelivers ==
  ASSUME Typed, SetUpInv, pc <= 8, Running, DeliverAny
  PROVE  SetUpInv'
<1>1. /\ pc \in 1..End /\ pc \in Nat /\ Holding(MessagesOf(n)) /\ test \in Tests
  BY TypedParts
<1>2. PICK s \in Sessions : \E c \in DOMAIN session[s].consumers : Deliver(s, c)
  BY DEF DeliverAny
<1>3. PICK c \in DOMAIN session[s].consumers : Deliver(s, c)
  BY <1>2
<1>. DEFINE w == [session[s].consumers EXCEPT
                    ![c] = Append(session[s].consumers[c], Head(queue))]
<1>4. /\ queue # <<>>
      /\ Turns(s, session[s].mode, session[s].sent, session[s].taken, w)
      /\ pending' = pending /\ received' = received
  BY <1>1, <1>3, DeliverEffect
<1>5. pc' = pc /\ n' = n
  BY <1>3 DEF Deliver
<1>6. session[s].consumers # <<>>
  BY <1>3
<1>7. session["session"] = Closed /\ s = "helper"
  BY <1>6 DEF SetUpInv, Closed, Sessions
<1>8. pc \in {5, 6, 7}
  <2>1. session["helper"] # Closed /\ session["helper"] # Opened("AUTO")
    BY <1>6, <1>7 DEF Closed, Opened
  <2>2. pc \in {1, 2, 3, 4, 5, 6, 7, 8}
    BY <1>1
  <2>. QED
    BY <2>1, <2>2 DEF SetUpInv
<1>9. received # NoMessage \/ pc = 5
  BY <1>4, <1>8 DEF SetUpInv
<1>10. session["helper"].consumers \in Seq(Seq(MessagesOf(n)))
       /\ Len(session["helper"].consumers) = 1 /\ session["helper"].mode = "AUTO"
       /\ (pc = 5 => session["helper"].taken = <<>>)
  BY <1>1, <1>8, Held DEF SetUpInv
<1>11. Len(w) = 1
  BY <1>7, <1>10
<1>12. /\ session'["session"] = session["session"]
       /\ Has(session'["helper"], session["helper"].mode, session["helper"].sent,
              session["helper"].taken, w)
  BY <1>4, <1>7, OtherStays
<1>. HIDE DEF w
<1>13. OwnPending' = {}
  BY <1>4, <1>5 DEF OwnPending, SetUpInv
<1>. QED
  BY <1>4, <1>5, <1>7, <1>8, <1>9, <1>10, <1>11, <1>12, <1>13 DEF SetUpInv, Has

-----------------------------------------------------------------------------
(* A test that nothing disturbs keeps to its course                        *)

(* Where a test is in its course.                                          *)
LEMMA OnCourse ==
  ASSUME NEW t \in Tests, NEW i \in 1..Len(Told(t)) + 1
  PROVE  /\ CourseOf(t)[i] \in Phases /\ Sole(CourseOf(t)[i])
         /\ i <= Len(Told(t)) =>
              /\ i + 1 \in 1..Len(Told(t)) + 1 /\ Told(t)[i] = Scripts[t][8 + i]
              /\ Leads(Told(t)[i], CourseOf(t)[i], CourseOf(t)[i + 1])
         /\ CourseOf(t)[1] = Fresh /\ CourseOf(t)[Len(Told(t)) + 1] = EndOf(t)
<1>1. /\ Len(Told(t)) \in Nat /\ Course(Told(t), CourseOf(t), Fresh, EndOf(t))
      /\ \A j \in 1..Len(Told(t)) : Scripts[t][8 + j] = Told(t)[j]
  BY CoursesExist, ToldText
<1>. DEFINE f == CourseOf(t)  L == Len(Told(t))
<1>2. /\ f \in [1..L + 1 -> Phases] /\ f[1] = Fresh /\ f[L + 1] = EndOf(t)
      /\ \A j \in 1..L : Leads(Told(t)[j], f[j], f[j + 1])
  BY <1>1 DEF Course
<1>. HIDE DEF f, L
<1>3. Sole(f[i])
  <2>1. CASE i = 1
    BY <1>2, <2>1 DEF Sole, Fresh
  <2>2. CASE i # 1
    <3>. DEFINE j == i - 1
    <3>1. j \in 1..L /\ j + 1 = i
      BY <1>1, <2>2 DEF L
    <3>. HIDE DEF j
    <3>2. Leads(Told(t)[j], f[j], f[j + 1])
      BY <1>2, <3>1
    <3>3. Leads(Told(t)[j], f[j], f[i])
      BY <3>1, <3>2
    <3>. QED
      BY <3>3 DEF Leads
  <2>. QED
    BY <2>1, <2>2
<1>4. f[i] \in Phases
  BY <1>2 DEF L
<1>5. i <= L => i \in 1..L /\ i + 1 \in 1..L + 1
  BY <1>1 DEF L
<1>. QED
  BY <1>1, <1>2, <1>3, <1>4, <1>5 DEF f, L

(* The next state is in the course of its test.                            *)
LEMMA CourseAgain ==
  ASSUME NEW t, NEW i \in Int, NEW q, t = test', pc' = 8 + i, i <= Len(Told(t)) + 1,
         q = CourseOf(t)[i], InPhase(t, q)'
  PROVE  CourseInv'
<1>1. pc' - 8 = i
  OBVIOUS
<1>. HIDE DEF CourseOf, Told
<1>. QED
  BY <1>1 DEF CourseInv, InPhase

(* The next state is past the course of transactedWithRollback.            *)
LEMMA PastCourse ==
  ASSUME test' = "transactedWithRollback", pc' \in Nat,
         pc' > Len(Told("transactedWithRollback")) + 9, OnlySecond',
         Len(Told("transactedWithRollback")) \in Nat
  PROVE  CourseInv'
<1>. HIDE DEF Told
<1>1. ~(pc' - 8 <= Len(Told(test')) + 1)
  OBVIOUS
<1>. QED
  BY <1>1 DEF CourseInv

(* What a test has to acknowledge when it is over.                         *)
LEMMA NothingLeft ==
  ASSUME NEW M, NEW t, NEW x \in SessionOf(M), NEW y \in SessionOf(M), NEW waiting \in Seq(M),
         NEW own, NEW last, Phase(t, Fresh, x, y, waiting, own, last)
  PROVE  own = {}
<1>1. /\ Holds(t, x.taken, 0) /\ Len(x.consumers) = 0
      /\ Holds(t, y.taken, 0) /\ Len(y.consumers) = 0
      /\ OnItsWay(t, 0, waiting, x.consumers, y.consumers)
      /\ own \subseteq Unacknowledged(x, y, waiting)
  BY DEF Phase, Fresh
<1>2. x.consumers \in Seq(Seq(M)) /\ y.consumers \in Seq(Seq(M))
  BY DEF SessionOf
<1>3. waiting = <<>> /\ x.taken = <<>> /\ y.taken = <<>>
  BY <1>1, <1>2, NoFlight DEF Holds
<1>4. ToSet(waiting) = {} /\ ToSet(x.taken) = {} /\ ToSet(y.taken) = {}
      /\ Buffered(x.consumers) = {} /\ Buffered(y.consumers) = {}
  BY <1>1, <1>2, <1>3, Buffers, MessagesOfSequences
<1>. QED
  BY <1>1, <1>4 DEF Unacknowledged

(* The last commit of transactedWithRollback leaves its message + "2".     *)
LEMMA SecondCommitted ==
  ASSUME NEW M, Holding(M), InPhase("transactedWithRollback", BothTaken), Commit, n' = n
  PROVE  OnlySecond'
<1>. DEFINE x == session["session"]  y == session["helper"]
<1>1. /\ Holds("transactedWithRollback", x.sent, 2)
      /\ Holds("transactedWithRollback", y.taken, 0) /\ Len(y.consumers) = 0
      /\ OnItsWay("transactedWithRollback", 0, queue, x.consumers, y.consumers)
      /\ OwnPending \subseteq Unacknowledged(x, y, queue)
  BY DEF InPhase, Phase, BothTaken
<1>2. /\ x.consumers \in Seq(Seq(M)) /\ y.consumers \in Seq(Seq(M)) /\ queue \in Seq(M)
      /\ x.sent \in Seq(M)
  BY Held
<1>3. queue = <<>> /\ y.taken = <<>> /\ NoneIn(x.consumers)
  BY <1>1, <1>2, NoFlight DEF Holds
<1>4. ToSet(queue) = {} /\ ToSet(y.taken) = {}
      /\ Buffered(x.consumers) = {} /\ Buffered(y.consumers) = {}
  BY <1>1, <1>2, <1>3, Buffers, MessagesOfSequences
<1>5. OwnPending \subseteq ToSet(x.taken)
  BY <1>1, <1>4 DEF Unacknowledged
<1>6. ToSet(x.sent) = {x.sent[1]} /\ x.sent[1].text = <<"transactedWithRollback", 2>>
  BY <1>1, <1>2, MessagesOfSequences DEF Holds
<1>7. pending' = (pending \union ToSet(x.sent)) \ ToSet(x.taken)
  BY CommitEffect
<1>8. ASSUME NEW m \in pending', m.id[1] = n
      PROVE  m.text = <<"transactedWithRollback", 2>>
  BY <1>5, <1>6, <1>7, <1>8 DEF OwnPending
<1>. QED
  BY <1>8 DEF OnlySecond, OwnPending

(* No call but send and commit adds a pending message.                     *)
LEMMA PendingShrinks ==
  ASSUME NEW M, Holding(M), Prepared, Running, Call \in BodyCalls, Served,
         Call[1] \notin {"send", "commit"}
  PROVE  pending' \subseteq pending
<1>1. ~Send /\ ~Commit
  BY DEF Send, Commit, IsOp
<1>2. CASE GetConnection \/ Start \/ Stop
  BY <1>2 DEF GetConnection, Start, Stop
<1>. QED
  BY <1>1, <1>2, OpenSessionEffect, CreateConsumerEffect, ReceiveEffect, AcknowledgeEffect,
     RollbackEffect, SessionCloseEffect, ConnectionCloseEffect DEF Served

(* Without new messages there are none but the second.                     *)
LEMMA OnlySecondKept ==
  ASSUME OnlySecond, pending' \subseteq pending, n' = n
  PROVE  OnlySecond'
  BY DEF OnlySecond, OwnPending

(* A served call of a test in its course.                                  *)
LEMMA CourseServed ==
  ASSUME Typed, Prepared, Running, Served, n' = n, NEW t, t = test,
         NEW i \in 1..Len(Told(t)), pc = 8 + i, CourseInv
  PROVE  InPhase(t, CourseOf(t)[i + 1])'
<1>1. t \in Tests /\ Holding(MessagesOf(n)) /\ Call \in BodyCalls
      /\ \A k \in {1, 2} : [text |-> <<test, k>>, id |-> <<n, pc>>] \in MessagesOf(n)
  BY TypedParts, ServedKnown, OwnMessages
<1>2. Len(Told(t)) \in Nat
  BY <1>1, ToldText
<1>. DEFINE f == CourseOf(t)  L == Len(Told(t))
<1>3. /\ i \in 1..L + 1 /\ i + 1 \in 1..L + 1 /\ i <= L
  BY <1>2
<1>4. /\ f[i] \in Phases /\ Sole(f[i]) /\ Told(t)[i] = Scripts[t][8 + i]
      /\ Leads(Told(t)[i], f[i], f[i + 1])
  BY <1>1, <1>3, OnCourse
<1>5. f[i + 1] \in Phases
  BY <1>1, <1>3, OnCourse
<1>6. Call = Told(t)[i]
  BY <1>4 DEF Call
<1>7. InPhase(t, f[i])
  <2>1. pc - 8 = i /\ i <= Len(Told(test)) + 1
    BY <1>3
  <2>. HIDE DEF InPhase, CourseOf, Told
  <2>. QED
    BY <2>1 DEF CourseInv
<1>8. \A p, q : p = f[i] /\ q = f[i + 1] => InPhase(t, q)'
  <2>1. SUFFICES ASSUME NEW p, NEW q, p = f[i], q = f[i + 1] PROVE InPhase(t, q)'
    OBVIOUS
  <2>. HIDE DEF f, InPhase
  <2>2. p \in Phases /\ q \in Phases /\ Sole(p) /\ Leads(Call, p, q) /\ InPhase(t, p)
    BY <1>4, <1>5, <1>6, <1>7, <2>1
  <2>. QED
    BY <1>1, <2>2, PhaseServed
<1>. QED
  BY <1>8 DEF f

(* Past its course transactedWithRollback makes calls without any message. *)
LEMMA PastServed ==
  ASSUME Typed, Prepared, Running, Served, n' = n, CourseInv,
         pc > Len(Told(test)) + 8
  PROVE  test = "transactedWithRollback" /\ OnlySecond'
<1>. DEFINE L == Len(Told(test))
<1>1. /\ test \in Tests /\ Holding(MessagesOf(n)) /\ Call \in BodyCalls
      /\ pc \in 1..End /\ pc \in Nat
  BY TypedParts, ServedKnown
<1>2. L \in Nat
  BY <1>1, ToldText
<1>3. test = "transactedWithRollback"
  <2>1. test # "transactedWithRollback" => End = 8 + L
    BY <1>1, ToldText DEF End
  <2>. QED
    BY <1>1, <1>2, <2>1
<1>4. /\ End = L + 17 /\ Scripts[test][L + 9] = <<"commit">>
      /\ \A i \in L + 10..L + 17 :
           /\ Scripts[test][i][1] \notin {"send", "commit", "assertText"}
           /\ Scripts[test][i][1] = "assertNull" => i = L + 16
  BY <1>1, <1>3, ToldText DEF End
<1>. HIDE DEF L, Told, CourseOf
<1>5. CASE pc = L + 9
  <2>1. pc - 8 = L + 1 /\ pc - 8 <= L + 1
    BY <1>2, <1>5
  <2>2. CourseOf(test)[L + 1] = BothTaken
    <3>1. L + 1 \in 1..L + 1
      BY <1>2
    <3>. QED
      BY <1>1, <1>3, <3>1, OnCourse DEF EndOf, L
  <2>3. InPhase(test, BothTaken)
    BY <2>1, <2>2 DEF CourseInv, L
  <2>4. Commit
    BY <1>4, <1>5, ServedBy DEF Call, IsOp
  <2>. QED
    BY <1>1, <1>3, <2>3, <2>4, SecondCommitted
<1>6. CASE pc # L + 9
  <2>1. pc \in L + 10..L + 17
    BY <1>1, <1>2, <1>4, <1>6 DEF L
  <2>2. OnlySecond
    <3>1. ~(pc - 8 <= L + 1)
      BY <1>2, <2>1
    <3>. QED
      BY <3>1 DEF CourseInv, L
  <2>3. Call[1] \notin {"send", "commit"}
    BY <1>4, <2>1 DEF Call
  <2>4. pending' \subseteq pending
    BY <1>1, <2>3, PendingShrinks
  <2>. QED
    BY <1>3, <2>2, <2>4, OnlySecondKept
<1>. QED
  BY <1>5, <1>6

(* The next call of a test after its setUp.                                *)
LEMMA CourseGoesOn ==
  ASSUME Typed, Prepared, Running, Served, pc > 8, CourseInv, n' = n, test' = test,
         pc' = pc + 1
  PROVE  CourseInv'
<1>1. test \in Tests /\ pc \in Nat /\ Len(Told(test)) \in Nat
  BY TypedParts, ToldText
<1>2. CASE pc <= Len(Told(test)) + 8
  <2>1. SUFFICES ASSUME NEW t, NEW i, t = test, i = pc - 8 PROVE CourseInv'
    OBVIOUS
  <2>2. i \in 1..Len(Told(t)) /\ pc = 8 + i /\ i + 1 \in Int /\ pc' = 8 + (i + 1)
        /\ i + 1 <= Len(Told(t)) + 1
    BY <1>1, <1>2, <2>1
  <2>3. InPhase(t, CourseOf(t)[i + 1])'
    BY <2>1, <2>2, CourseServed
  <2>4. SUFFICES ASSUME NEW q, q = CourseOf(t)[i + 1], NEW j, j = i + 1 PROVE CourseInv'
    OBVIOUS
  <2>5. InPhase(t, q)'
    BY <2>3, <2>4
  <2>. QED
    BY <2>1, <2>2, <2>4, <2>5, CourseAgain
<1>3. CASE pc > Len(Told(test)) + 8
  <2>1. test = "transactedWithRollback" /\ OnlySecond'
    BY <1>3, PastServed
  <2>. QED
    BY <1>1, <1>3, <2>1, PastCourse
<1>. QED
  BY <1>1, <1>2, <1>3

(* The last call of a test.                                                *)
LEMMA CourseEnds ==
  ASSUME Typed, Prepared, Running, Served, pc > 8, CourseInv, n' = n, pc = End
  PROVE  OnlySecond'
<1>1. test \in Tests /\ pc \in Nat /\ Len(Told(test)) \in Nat /\ n \in Nat
      /\ Holding(MessagesOf(n)) /\ Call \in BodyCalls
  BY TypedParts, ToldText, ServedKnown
<1>2. CASE pc <= Len(Told(test)) + 8
  <2>1. SUFFICES ASSUME NEW t, NEW i, t = test, i = pc - 8 PROVE OnlySecond'
    OBVIOUS
  <2>2. t # "transactedWithRollback" /\ i = Len(Told(t))
    <3>1. /\ t # "transactedWithRollback" => End = 8 + Len(Told(t))
          /\ t = "transactedWithRollback" => End = Len(Told(t)) + 17
      BY <1>1, <2>1, ToldText DEF End
    <3>. QED
      BY <1>1, <1>2, <2>1, <3>1
  <2>3. i \in 1..Len(Told(t)) /\ pc = 8 + i /\ i + 1 \in 1..Len(Told(t)) + 1
    BY <1>1, <2>1, <2>2
  <2>4. InPhase(t, CourseOf(t)[i + 1])'
    BY <2>1, <2>3, CourseServed
  <2>5. CourseOf(t)[i + 1] = Fresh
    BY <1>1, <2>1, <2>2, <2>3, OnCourse DEF EndOf
  <2>6. InPhase(t, Fresh)'
    BY <2>4, <2>5
  <2>7. \A X : X = MessagesOf(n) => Holding(X)'
    <3>1. SUFFICES ASSUME NEW X, X = MessagesOf(n) PROVE Holding(X)'
      OBVIOUS
    <3>. QED
      BY <1>1, <3>1, ServedTyped, OwnMessages
  <2>8. OwnPending' = {}
    <3>1. SUFFICES ASSUME NEW X, X = MessagesOf(n), NEW own, own = OwnPending'
                   PROVE own = {}
      OBVIOUS
    <3>2. /\ session'["session"] \in SessionOf(X) /\ session'["helper"] \in SessionOf(X)
          /\ queue' \in Seq(X)
      BY <2>7, <3>1 DEF Holding, Sessions
    <3>3. Phase(t, Fresh, session'["session"], session'["helper"], queue', own, received')
      BY <2>6, <3>1 DEF InPhase, Phase, OnItsWay, Unacknowledged, Holds, NoneIn, Buffered
    <3>. HIDE DEF OwnPending
    <3>. QED
      BY <3>2, <3>3, NothingLeft
  <2>. QED
    BY <2>8 DEF OnlySecond
<1>3. CASE pc > Len(Told(test)) + 8
  BY <1>3, PastServed
<1>. QED
  BY <1>1, <1>2, <1>3

(* No assertion is part of setUp.                                          *)
LEMMA NoAssertInSetUp ==
  ASSUME Typed, Running, IsOp("assertText") \/ IsOp("assertNull")
  PROVE  pc > 8
<1>1. test \in Tests /\ pc \in 1..End /\ pc \in Nat
  BY TypedParts
<1>2. CASE pc <= 8
  <2>1. Call = SetUp[pc]
    BY <1>1, <1>2, CallKnown
  <2>2. pc \in {1, 2, 3, 4, 5, 6, 7, 8}
    BY <1>1, <1>2
  <2>3. Call[1] \notin {"assertText", "assertNull"}
    BY <2>1, <2>2, SetUpText
  <2>. QED
    BY <2>3 DEF IsOp
<1>. QED
  BY <1>1, <1>2

(* In its course, a test finds what it asserts.                            *)
LEMMA CourseAsserts ==
  ASSUME Typed, CourseInv, AssertReceived, NEW t, t = test, NEW i \in 1..Len(Told(t)),
         pc = 8 + i
  PROVE  AsExpected /\ InPhase(t, CourseOf(t)[i + 1])'
<1>1. test \in Tests /\ pc \in 1..End /\ Len(Told(t)) \in Nat /\ Running
  BY TypedParts, ToldText DEF AssertReceived
<1>. DEFINE f == CourseOf(t)  L == Len(Told(t))
<1>2. /\ f[i] \in Phases /\ Told(t)[i] = Scripts[t][8 + i]
      /\ Leads(Told(t)[i], f[i], f[i + 1])
  <2>1. i \in 1..L + 1 /\ i <= L
    BY <1>1
  <2>. QED
    BY <1>1, <2>1, OnCourse
<1>3. Call = Told(t)[i]
  BY <1>2 DEF Call
<1>4. InPhase(t, f[i])
  <2>1. pc - 8 = i /\ i <= Len(Told(test)) + 1
    BY <1>1
  <2>. HIDE DEF InPhase, CourseOf, Told
  <2>. QED
    BY <2>1 DEF CourseInv
<1>5. Call[1] \in {"assertText", "assertNull"} /\ Call \in BodyCalls
  <2>1. Call[1] \in {"assertText", "assertNull"}
    BY DEF AssertReceived, IsOp
  <2>. QED
    BY <1>1, <2>1, CallKnown DEF IsOp
<1>6. \A p, q : p = f[i] /\ q = f[i + 1] => AsExpected /\ InPhase(t, q)'
  <2>1. SUFFICES ASSUME NEW p, NEW q, p = f[i], q = f[i + 1]
                 PROVE  AsExpected /\ InPhase(t, q)'
    OBVIOUS
  <2>. HIDE DEF f, BodyCalls
  <2>2. /\ q = p
        /\ Call[1] = "assertText" => p.got = Call[2]
        /\ Call[1] = "assertNull" => p.got = 0
    BY <1>2, <1>3, <1>5, <2>1 DEF Leads
  <2>3. Phase(t, p, session["session"], session["helper"], queue, OwnPending, received)
    BY <1>4, <2>1 DEF InPhase
  <2>4. AsExpected
    <3>1. IF p.got = 0 THEN received = NoMessage ELSE received.text = <<t, p.got>>
      BY <2>3 DEF Phase
    <3>2. Call[1] = "assertText" => Call[2] # 0
      BY <1>5, CallTypes
    <3>. QED
      BY <1>5, <2>2, <3>1, <3>2 DEF AsExpected, IsOp
  <2>5. InPhase(t, q)'
    <3>1. UNCHANGED <<session, queue, pending, n, received>>
      BY DEF AssertReceived
    <3>2. OwnPending = {m \in pending' : m.id[1] = n'}
      BY <3>1 DEF OwnPending
    <3>. QED
      BY <2>2, <2>3, <3>1, <3>2, PhaseAgain
  <2>. QED
    BY <2>4, <2>5
<1>. QED
  BY <1>6 DEF f

(* The one assertion that may fail is the last of transactedWithRollback.  *)
LEMMA AssertionsMade ==
  ASSUME Typed, CourseInv, AssertReceived, pc > 8, failed \in {<<>>, Excused}
  PROVE  pc' > 8 /\ CourseInv' /\ failed' \in {<<>>, Excused}
<1>1. /\ test \in Tests /\ pc \in 1..End /\ pc \in Nat /\ Len(Told(test)) \in Nat /\ Running
      /\ test' = test /\ UNCHANGED <<pending, n>>
      /\ Call[1] \in {"assertText", "assertNull"}
  BY TypedParts, ToldText DEF AssertReceived, IsOp
<1>2. IF AsExpected THEN pc' = pc + 1 /\ failed' = failed
                    ELSE pc' = End /\ failed' = <<test, pc>>
  BY DEF AssertReceived
<1>3. CASE pc <= Len(Told(test)) + 8
  <2>1. SUFFICES ASSUME NEW t, NEW i, t = test, i = pc - 8
                 PROVE  pc' > 8 /\ CourseInv' /\ failed' \in {<<>>, Excused}
    OBVIOUS
  <2>2. i \in 1..Len(Told(t)) /\ pc = 8 + i /\ i + 1 \in Int
        /\ i + 1 <= Len(Told(t)) + 1
    BY <1>1, <1>3, <2>1
  <2>3. AsExpected /\ InPhase(t, CourseOf(t)[i + 1])'
    BY <2>1, <2>2, CourseAsserts
  <2>4. pc' = 8 + (i + 1) /\ failed' = failed /\ pc' > 8
    BY <1>1, <1>2, <2>2, <2>3
  <2>5. \A q, j : q = CourseOf(t)[i + 1] /\ j = i + 1 => CourseInv'
    <3>1. SUFFICES ASSUME NEW q, q = CourseOf(t)[i + 1], NEW j, j = i + 1 PROVE CourseInv'
      OBVIOUS
    <3>2. InPhase(t, q)'
      BY <2>3, <3>1
    <3>. QED
      BY <1>1, <2>1, <2>2, <2>4, <3>1, <3>2, CourseAgain
  <2>. QED
    BY <2>4, <2>5
<1>4. CASE pc > Len(Told(test)) + 8
  <2>. DEFINE L == Len(Told(test))
  <2>1. test = "transactedWithRollback"
    <3>1. test # "transactedWithRollback" => End = 8 + L
      BY <1>1, ToldText DEF End
    <3>. QED
      BY <1>1, <1>4, <3>1
  <2>2. /\ End = L + 17 /\ Scripts[test][L + 9] = <<"commit">>
        /\ \A i \in L + 10..L + 17 :
             /\ Scripts[test][i][1] \notin {"send", "commit", "assertText"}
             /\ Scripts[test][i][1] = "assertNull" => i = L + 16
    BY <1>1, <2>1, ToldText DEF End
  <2>. HIDE DEF L, Told, CourseOf
  <2>3. pc = L + 16
    <3>1. pc # L + 9
      BY <1>1, <2>2 DEF Call
    <3>2. pc \in L + 10..L + 17
      BY <1>1, <1>4, <2>2, <3>1 DEF L
    <3>. QED
      BY <1>1, <2>2, <3>2 DEF Call
  <2>4. pc' = L + 17 /\ pc' \in Nat /\ pc = End - 1
    BY <1>1, <1>2, <2>2, <2>3 DEF L
  <2>5. failed' \in {<<>>, Excused}
    BY <1>2, <2>1, <2>4 DEF Excused, End
  <2>6. OnlySecond
    <3>1. ~(pc - 8 <= L + 1)
      BY <1>1, <2>3 DEF L
    <3>. QED
      BY <3>1 DEF CourseInv, L
  <2>7. OnlySecond'
    BY <1>1, <2>6, OnlySecondKept
  <2>8. CourseInv'
    BY <1>1, <2>1, <2>4, <2>7, PastCourse DEF L
  <2>. QED
    BY <1>1, <2>4, <2>5, <2>8 DEF L
<1>. QED
  BY <1>1, <1>3, <1>4

(* After a null the loop of setUp leaves nothing for the test.             *)
LEMMA SetUpEnds ==
  ASSUME Typed, SetUpInv, WhileReceived
  PROVE  (pc' = 2 /\ SetUpInv') \/ (pc' = 9 /\ CourseInv')
<1>1. test \in Tests /\ pc \in 1..End /\ pc \in Nat /\ Running
  BY TypedParts DEF WhileReceived
<1>2. pc = 8 /\ Call = <<"whileReceived">>
  BY <1>1, CallKnown DEF WhileReceived
<1>3. /\ UNCHANGED <<test, n, session, queue, pending>> /\ received' = NoMessage
      /\ pc' = IF received = NoMessage THEN 9 ELSE 2
  BY <1>2 DEF WhileReceived
<1>4. /\ session["session"] = Closed /\ session["helper"] = Closed
      /\ OwnPending = {} /\ (received = NoMessage => queue = <<>>)
  BY <1>2 DEF SetUpInv
<1>5. OwnPending' = {} /\ OwnPending = {m \in pending' : m.id[1] = n'}
  BY <1>3, <1>4 DEF OwnPending
<1>6. CASE received # NoMessage
  <2>1. session'["helper"] = Closed /\ session'["session"] = Closed /\ pc' = 2
    BY <1>3, <1>4, <1>6
  <2>. QED
    BY <1>5, <2>1 DEF SetUpInv
<1>7. CASE received = NoMessage
  <2>1. Phase(test, Fresh, Closed, Closed, <<>>, {}, NoMessage)
    <3>1. NoneIn(<<>>)
      BY DEF NoneIn
    <3>. QED
      BY <3>1 DEF Phase, Fresh, Closed, OnItsWay, Holds
  <2>2. \A t : t = test => CourseInv'
    <3>1. SUFFICES ASSUME NEW t, t = test PROVE CourseInv'
      OBVIOUS
    <3>2. t \in Tests /\ Len(Told(t)) \in Nat /\ 1 \in 1..Len(Told(t)) + 1 /\ 1 <= Len(Told(t)) + 1
      BY <1>1, <3>1, ToldText
    <3>3. CourseOf(t)[1] = Fresh
      BY <3>2, OnCourse
    <3>4. InPhase(t, Fresh)'
      <4>1. Phase(t, Fresh, session'["session"], session'["helper"], queue', OwnPending, received')
        BY <1>3, <1>4, <1>7, <2>1, <3>1
      <4>. QED
        BY <1>5, <4>1, PhaseAgain
    <3>5. pc' = 8 + 1 /\ t = test' /\ 1 \in Int
      BY <1>3, <1>7, <3>1
    <3>. QED
      BY <3>2, <3>3, <3>4, <3>5, CourseAgain
  <2>. QED
    BY <1>3, <1>7, <2>2
<1>. QED
  BY <1>6, <1>7

(* The broker may hand out a message of the test meanwhile.                *)
LEMMA CourseDelivers ==
  ASSUME Typed, Running, CourseInv, pc > 8, DeliverAny
  PROVE  CourseInv'
<1>1. /\ test \in Tests /\ pc \in 1..End /\ pc \in Nat /\ Len(Told(test)) \in Nat
      /\ Holding(MessagesOf(n))
  BY TypedParts, ToldText
<1>2. UNCHANGED <<test, n, pc, pending>>
  BY DEF DeliverAny, Deliver
<1>3. CASE pc <= Len(Told(test)) + 9
  <2>1. SUFFICES ASSUME NEW t, NEW i, t = test, i = pc - 8 PROVE CourseInv'
    OBVIOUS
  <2>2. i \in 1..Len(Told(t)) + 1 /\ pc = 8 + i /\ i \in Int
        /\ i <= Len(Told(t)) + 1
    BY <1>1, <1>3, <2>1
  <2>3. CourseOf(t)[i] \in Phases /\ Sole(CourseOf(t)[i])
    BY <1>1, <2>1, <2>2, OnCourse
  <2>4. InPhase(t, CourseOf(t)[i])
    <3>. HIDE DEF InPhase, CourseOf, Told
    <3>. QED
      BY <2>1, <2>2 DEF CourseInv
  <2>5. SUFFICES ASSUME NEW q, q = CourseOf(t)[i] PROVE CourseInv'
    OBVIOUS
  <2>6. q \in Phases /\ Sole(q) /\ InPhase(t, q)
    BY <2>3, <2>4, <2>5
  <2>7. InPhase(t, q)'
    BY <1>1, <2>6, PhaseDelivered
  <2>. QED
    BY <1>2, <2>1, <2>2, <2>5, <2>7, CourseAgain
<1>4. CASE pc > Len(Told(test)) + 9
  <2>1. test = "transactedWithRollback" /\ OnlySecond
    <3>1. ~(pc - 8 <= Len(Told(test)) + 1)
      BY <1>1, <1>4
    <3>. HIDE DEF Told
    <3>. QED
      BY <3>1 DEF CourseInv
  <2>2. OnlySecond'
    BY <1>2, <2>1, OnlySecondKept
  <2>. QED
    BY <1>1, <1>2, <1>4, <2>1, <2>2, PastCourse
<1>. QED
  BY <1>1, <1>3, <1>4

-----------------------------------------------------------------------------
(* The invariant                                                           *)

(* Every step of a test that nothing has disturbed keeps its invariant.    *)
LEMMA TestNext ==
  ASSUME Typed, Prepared, AtRest, ~disturbed => TestInv, [Next]_vars, ~disturbed'
  PROVE  TestInv'
<1>1. Running => test \in Tests /\ pc \in 1..End /\ pc \in Nat /\ End \in Nat /\ End >= 9
  BY TypedParts, CallKnown
<1>2. CASE \E t \in Tests : StartTest(t)
  <2>1. PICK t \in Tests : StartTest(t)
    BY <1>2
  <2>2. pc' = 1 /\ SetUpInv'
    BY <2>1, SetUpStarts
  <2>3. failed' = <<>> /\ test' = t /\ t # "none"
    BY <2>1 DEF StartTest, Tests, Bodies
  <2>. QED
    BY <2>2, <2>3 DEF TestInv, Running
<1>3. CASE Step
  <2>1. /\ Running /\ Served /\ pc' = pc + 1 /\ n' = n /\ test' = test /\ failed' = failed
        /\ ~disturbed
    BY <1>3 DEF Step
  <2>2. CASE pc <= 8
    <3>1. SetUpInv
      BY <2>1, <2>2 DEF TestInv
    <3>2. pc' <= 8 /\ SetUpInv'
      BY <2>1, <2>2, <3>1, SetUpGoesOn
    <3>. QED
      BY <1>1, <2>1, <2>2, <3>2 DEF TestInv, Running
  <2>3. CASE pc > 8
    <3>1. CourseInv
      BY <2>1, <2>3 DEF TestInv
    <3>2. CourseInv'
      BY <2>1, <2>3, <3>1, CourseGoesOn
    <3>. QED
      BY <1>1, <2>1, <2>3, <3>2 DEF TestInv, Running
  <2>. QED
    BY <1>1, <2>1, <2>2, <2>3
<1>4. CASE Finish
  <2>1. /\ Running /\ Served /\ pc = End /\ n' = n /\ test' = "none" /\ failed' = failed
        /\ ~disturbed
    BY <1>4 DEF Finish
  <2>2. pc > 8 /\ CourseInv /\ failed \in {<<>>, Excused}
    BY <1>1, <2>1 DEF TestInv
  <2>3. OnlySecond'
    BY <2>1, <2>2, CourseEnds
  <2>. QED
    BY <2>1, <2>2, <2>3 DEF TestInv, Running
<1>5. CASE WhileReceived
  <2>1. Running /\ test' = test /\ failed' = failed /\ ~disturbed
    BY <1>5 DEF WhileReceived
  <2>2. SetUpInv /\ failed \in {<<>>, Excused}
    <3>1. pc = 8
      BY <1>1, <1>5, CallKnown DEF WhileReceived
    <3>. QED
      BY <2>1, <3>1 DEF TestInv
  <2>3. (pc' = 2 /\ SetUpInv') \/ (pc' = 9 /\ CourseInv')
    BY <1>5, <2>2, SetUpEnds
  <2>. QED
    BY <2>1, <2>2, <2>3 DEF TestInv, Running
<1>6. CASE AssertReceived
  <2>1. Running /\ test' = test /\ ~disturbed /\ (IsOp("assertText") \/ IsOp("assertNull"))
    BY <1>6 DEF AssertReceived
  <2>2. pc > 8
    BY <2>1, NoAssertInSetUp
  <2>3. CourseInv /\ failed \in {<<>>, Excused}
    BY <2>1, <2>2 DEF TestInv
  <2>4. pc' > 8 /\ CourseInv' /\ failed' \in {<<>>, Excused}
    BY <1>6, <2>2, <2>3, AssertionsMade
  <2>5. pc' \in Nat
    BY <1>1, <1>6 DEF AssertReceived
  <2>. QED
    BY <2>1, <2>4, <2>5 DEF TestInv, Running
<1>7. CASE Throw \/ CloseThrows \/ Kill \/ ReceiveTimesOut
  BY <1>7 DEF Throw, CloseThrows, Kill, ReceiveTimesOut
<1>8. CASE DeliverAny
  <2>1. UNCHANGED <<test, n, pc, failed, disturbed, pending>>
    BY <1>8 DEF DeliverAny, Deliver
  <2>2. TestInv
    BY <2>1
  <2>3. CASE Running /\ pc <= 8
    <3>1. SetUpInv'
      BY <1>8, <2>2, <2>3, SetUpDelivers DEF TestInv
    <3>. QED
      BY <1>1, <2>1, <2>2, <2>3, <3>1 DEF TestInv, Running
  <2>4. CASE Running /\ pc > 8
    <3>1. CourseInv'
      BY <1>8, <2>2, <2>4, CourseDelivers DEF TestInv
    <3>. QED
      BY <1>1, <2>1, <2>2, <2>4, <3>1 DEF TestInv, Running
  <2>5. CASE ~Running
    <3>1. OnlySecond'
      BY <2>1, <2>2, <2>5, OnlySecondKept DEF TestInv
    <3>. QED
      BY <2>1, <2>2, <2>5, <3>1 DEF TestInv, Running
  <2>. QED
    BY <1>1, <2>3, <2>4, <2>5
<1>9. CASE ReturnOrphaned
  <2>1. UNCHANGED <<test, n, pc, failed, pending>> /\ ~disturbed /\ ~Running
    BY <1>9 DEF ReturnOrphaned
  <2>2. TestInv /\ OnlySecond
    BY <2>1 DEF TestInv
  <2>3. OnlySecond'
    BY <2>1, <2>2, OnlySecondKept
  <2>. QED
    BY <2>1, <2>2, <2>3 DEF TestInv, Running
<1>10. CASE UNCHANGED vars
  <2>1. TestInv /\ ~disturbed
    BY <1>10 DEF vars
  <2>2. UNCHANGED <<test, n, pc, session, queue, pending, received, failed>>
    BY <1>10 DEF vars
  <2>3. Running /\ pc > 8 => CourseInv'
    <3>. HIDE DEF CourseOf, Told
    <3>. QED
      BY <2>1, <2>2 DEF TestInv, CourseInv, InPhase, OwnPending, Phase, OnItsWay,
                        Unacknowledged, Holds, NoneIn, Buffered, OnlySecond
  <2>4. Running /\ pc <= 8 => SetUpInv'
    BY <2>1, <2>2 DEF TestInv, SetUpInv, OwnPending
  <2>5. ~Running => OnlySecond'
    BY <2>1, <2>2 DEF TestInv, OnlySecond, OwnPending
  <2>. QED
    BY <2>1, <2>2, <2>3, <2>4, <2>5 DEF TestInv, Running
<1>. QED
  BY <1>2, <1>3, <1>4, <1>5, <1>6, <1>7, <1>8, <1>9, <1>10 DEF Next, Thread

(* It holds at the start.                                                  *)
LEMMA JmsInit ==
  ASSUME Init
  PROVE  Typed /\ JmsInv
<1>1. /\ test = "none" /\ n = 0 /\ pc = 0 /\ session = [s \in Sessions |-> Closed]
      /\ queue = <<>> /\ orphaned = <<>> /\ pending = {} /\ received = NoMessage
      /\ failed = <<>>
  BY DEF Init
<1>2. ~Running
  BY <1>1 DEF Running
<1>3. Typed
  <2>1. ASSUME NEW M PROVE Holding(M)
    <3>1. Closed \in SessionOf(M)
      BY DEF Closed, SessionOf
    <3>. QED
      BY <1>1, <3>1 DEF Holding
  <2>2. Holding(MessagesOf(n)) /\ orphaned \in Seq(MessagesOf(n))
    BY <1>1, <2>1
  <2>. QED
    BY <1>1, <1>2, <2>2 DEF Typed
<1>4. Prepared /\ AtRest
  BY <1>1, <1>2 DEF Prepared, AtRest, AllClosed
<1>5. TestInv
  BY <1>1, <1>2 DEF TestInv, OnlySecond, OwnPending
<1>. QED
  BY <1>3, <1>4, <1>5 DEF JmsInv

(* The sessions, the broker and the running test go together: a test that  *)
(* nothing has disturbed drains the queue in its setUp and then keeps to   *)
(* the course that its script has for it, whatever the broker hands to     *)
(* which consumer meanwhile (JMSTest.java, JmsProvider.java).              *)
THEOREM JmsInvariant == Spec => [](Typed /\ JmsInv)
<1>1. Init => Typed /\ JmsInv
  BY JmsInit
<1>2. Typed /\ JmsInv /\ [Next]_vars => (Typed /\ JmsInv)'
  <2>1. SUFFICES ASSUME Typed, JmsInv, [Next]_vars PROVE Typed' /\ JmsInv'
    OBVIOUS
  <2>2. Prepared /\ AtRest /\ (~disturbed => TestInv)
    BY <2>1 DEF JmsInv
  <2>3. Typed' /\ Prepared' /\ AtRest'
    BY <2>1, <2>2, TypedNext, PreparedNext, AtRestNext
  <2>4. ~disturbed' => TestInv'
    BY <2>1, <2>2, TestNext
  <2>. QED
    BY <2>3, <2>4 DEF JmsInv
<1>. QED
  BY <1>1, <1>2, PTL DEF Spec

(* A test that nothing disturbs leaves none of its own messages pending on *)
(* the broker, but for the message + "2" that transactedWithRollback       *)
(* commits (JMSTest.java:212, 220).                                        *)
THEOREM LeavesNothingHolds == Spec => []LeavesNothing
<1>1. Typed /\ JmsInv => LeavesNothing
  BY DEF JmsInv, TestInv, LeavesNothing, OnlySecond, OwnPending
<1>. QED
  BY <1>1, JmsInvariant, PTL

(* The assertions of a test that nothing disturbs hold, whatever the tests *)
(* and killed runs before it have left on the broker; the last one of      *)
(* transactedWithRollback is the exception (JMSTest.java:212, 220).        *)
THEOREM AssertionsHoldAlways == Spec => []AssertionsHold
<1>1. Typed /\ JmsInv => AssertionsHold
  BY DEF JmsInv, TestInv, AssertionsHold, Excused
<1>. QED
  BY <1>1, JmsInvariant, PTL

=============================================================================
