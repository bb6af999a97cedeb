----------------------------- MODULE JmsSession -----------------------------
(***************************************************************************)
(* The standalone JMS tests (JMSTest) over JmsProvider.  One test runs at a *)
(* time: it drains the queue, plays its script and closes its connection.  *)
(* Around the one thread of the tests the broker hands messages to         *)
(* consumers, notices connections of a killed JVM late, and answers slowly  *)
(* or not at all.                                                          *)
(*                                                                         *)
(* A script is a sequence of the calls a test makes, helpers inlined.  The *)
(* consumers that JmsProvider.receiveMessage creates are never closed: each *)
(* is a buffer of its session that the broker may fill whenever the        *)
(* connection is started.                                                  *)
(***************************************************************************)
EXTENDS Naturals, Sequences, SequencesExt, FiniteSetsExt

CONSTANTS MaxTests,    \* tests started, over all runs of the suite
          MaxFaults,   \* calls that throw, and receives that time out early
          MaxKills     \* times the JVM of the tests is killed

ASSUME BoundsAssumption == MaxTests \in Nat /\ MaxFaults \in Nat /\ MaxKills \in Nat

VARIABLES
  test,           \* the running test, "none" between tests
  n,              \* tests started so far
  pc,             \* position in the script of the running test
  jmsConnection,  \* state of the connection of the test
  session,        \* the session of the test and the one of its helpers
  queue,          \* messages the broker can hand out
  orphaned,       \* messages held by connections the broker takes for alive
  pending,        \* messages committed to the broker and not acknowledged
  received,       \* result of the last receive
  disturbed,      \* a fault or a late message has touched the running test
  failed,         \* the assertion that failed, <<>> when none has
  faults, kills

vars == <<test, n, pc, jmsConnection, session, queue, orphaned, pending,
          received, disturbed, failed, faults, kills>>

Sessions == {"session", "helper"}
Modes == {"AUTO", "DUPS_OK", "CLIENT", "TRANSACTED"}
NoMessage == [text |-> <<"none", 0>>, id |-> <<0, 0>>]
Closed == [mode |-> "closed", sent |-> <<>>, taken |-> <<>>, consumers |-> <<>>]
Opened(mode) == [Closed EXCEPT !.mode = mode]

-----------------------------------------------------------------------------
(* The scripts.                                                            *)

SendMessage(k) == << <<"send", k>> >>

ReceiveMessage(s) == << <<"start">>, <<"createConsumer", s>>, <<"receive", s>>, <<"stop">> >>

CreateSession(s, mode) == << <<"createSession", s, mode>> >>
CloseSession(s) == << <<"closeSession", s>> >>
Reconnect == << <<"close">>, <<"getConnection">> >>
Do(call) == << <<call>> >>

AssertText(k) == << <<"assertText", k>> >>

GetMessageFromQueue ==
  CreateSession("helper", "AUTO") \o ReceiveMessage("helper") \o CloseSession("helper")

CheckQueue(k) == GetMessageFromQueue \o AssertText(k)
CheckQueueIsEmpty == GetMessageFromQueue \o Do("assertNull")

(* Mutant: the messages are drained in a transaction nobody commits.       *)
SetUpTransacted ==
  Do("getConnection") \o CreateSession("helper", "TRANSACTED") \o ReceiveMessage("helper")
    \o CloseSession("helper") \o Do("whileReceived")

(* Mutant: setUp receives once and takes the queue for empty.              *)
SetUpOnce == Do("getConnection") \o GetMessageFromQueue

(* The loop ends with the null, on which getText() throws.                 *)
SetUp ==
  Do("getConnection") \o GetMessageFromQueue \o Do("whileReceived")

(* Mutant: what the transacted session has received is not committed.      *)
HowToUncommitted ==
  Do("getConnection") \o CreateSession("session", "AUTO") \o SendMessage(1)
    \o CloseSession("session") \o CreateSession("session", "TRANSACTED")
    \o ReceiveMessage("session") \o AssertText(1) \o Do("close")

HowTo ==
  Do("getConnection") \o CreateSession("session", "AUTO") \o SendMessage(1)
    \o CloseSession("session") \o CreateSession("session", "TRANSACTED")
    \o << <<"start">>, <<"createConsumer", "session">>, <<"receive", "session">>,
          <<"commit">>, <<"stop">> >>
    \o AssertText(1) \o Do("close")

SessionWithAutoAck ==
  CreateSession("session", "AUTO") \o SendMessage(1) \o ReceiveMessage("session")
    \o AssertText(1) \o CloseSession("session") \o CheckQueueIsEmpty

SessionWithDuplAck ==
  CreateSession("session", "DUPS_OK") \o SendMessage(1) \o ReceiveMessage("session")
    \o AssertText(1) \o CloseSession("session")

SessionWithClientAck ==
  CreateSession("session", "CLIENT") \o SendMessage(1) \o ReceiveMessage("session")
    \o AssertText(1) \o Reconnect
    \o CreateSession("session", "CLIENT") \o ReceiveMessage("session")
    \o AssertText(1) \o Do("acknowledge") \o Reconnect \o CheckQueueIsEmpty

SessionTransacted ==
  CreateSession("session", "TRANSACTED") \o SendMessage(1) \o CheckQueueIsEmpty
    \o Do("commit") \o CheckQueue(1)

TransactionChaining ==
  CreateSession("session", "TRANSACTED")
    \o SendMessage(1) \o CheckQueueIsEmpty \o Do("commit") \o CheckQueue(1)
    \o SendMessage(1) \o CheckQueueIsEmpty \o Do("commit") \o CheckQueue(1)
    \o CloseSession("session")

(* The null of the last receive is expected, and a message not refused.    *)
TransactedWithRollback ==
  CreateSession("session", "TRANSACTED") \o SendMessage(1) \o Do("commit")
    \o ReceiveMessage("session") \o AssertText(1) \o Do("rollback") \o SendMessage(2)
    \o Reconnect \o CreateSession("session", "TRANSACTED") \o SendMessage(2)
    \o ReceiveMessage("session") \o AssertText(1) \o ReceiveMessage("session")
    \o Do("commit") \o CheckQueueIsEmpty

TransactedWithConnectionClosed ==
  CreateSession("session", "TRANSACTED") \o SendMessage(1) \o CloseSession("session")
    \o CheckQueueIsEmpty

TearDown == Do("close")

Bodies ==
  [howTo |-> HowTo, sessionWithAutoAck |-> SessionWithAutoAck,
   sessionWithDuplAck |-> SessionWithDuplAck, sessionWithClientAck |-> SessionWithClientAck,
   sessionTransacted |-> SessionTransacted, transactionChaining |-> TransactionChaining,
   transactedWithRollback |-> TransactedWithRollback,
   transactedWithConnectionClosed |-> TransactedWithConnectionClosed]

Tests == DOMAIN Bodies
Scripts == [t \in Tests |-> SetUp \o Bodies[t] \o TearDown]

Call == Scripts[test][pc]
End == Len(Scripts[test])

-----------------------------------------------------------------------------
(* What the broker does for a call.                                        *)

broker == <<jmsConnection, session, queue, pending, received>>

IsOp(name) == Call[1] = name

(* The call sends to, or acts on, the session of the test.                 *)
Mine == session["session"]

Delivered(s) == s.taken \o FlattenSeq(s.consumers)

(* A closed session keeps what the automatic modes received; everything    *)
(* else it was handed goes back, and what it sent in a transaction is lost. *)
AcknowledgedAtClose(s) == IF s.mode \in {"AUTO", "DUPS_OK"} THEN s.taken ELSE <<>>

ReturnedAtClose(s) ==
  IF AcknowledgedAtClose(s) = <<>> THEN Delivered(s) ELSE FlattenSeq(s.consumers)

GetConnection ==
  /\ IsOp("getConnection")
  /\ jmsConnection' = "stopped"
  /\ UNCHANGED <<session, queue, pending, received>>

OpenSession ==
  /\ IsOp("createSession")
  /\ session' = [session EXCEPT ![Call[2]] = Opened(Call[3])]
  /\ UNCHANGED <<jmsConnection, queue, pending, received>>

Send ==
  /\ IsOp("send")
  /\ LET m == [text |-> <<test, Call[2]>>, id |-> <<n, pc>>]
     IN  IF Mine.mode = "TRANSACTED"
         THEN /\ session' = [session EXCEPT !["session"].sent = Append(@, m)]
              /\ UNCHANGED <<queue, pending>>
         ELSE /\ queue' = Append(queue, m)
              /\ pending' = pending \union {m}
              /\ UNCHANGED session
  /\ UNCHANGED <<jmsConnection, received>>

Start ==
  /\ IsOp("start")
  /\ jmsConnection' = "started"
  /\ UNCHANGED <<session, queue, pending, received>>

Stop ==
  /\ IsOp("stop")
  /\ jmsConnection' = "stopped"
  /\ UNCHANGED <<session, queue, pending, received>>

CreateConsumer ==
  /\ IsOp("createConsumer")
  /\ session' = [session EXCEPT ![Call[2]].consumers = Append(@, <<>>)]
  /\ UNCHANGED <<jmsConnection, queue, pending, received>>

Buffer(s) == Last(session[s].consumers)

(* A receive reads the buffer of its own consumer only.                    *)
Receive ==
  /\ IsOp("receive")
  /\ \/ /\ Buffer(Call[2]) # <<>>
        /\ received' = Head(Buffer(Call[2]))
        /\ session' = [session EXCEPT
             ![Call[2]].taken = Append(@, received'),
             ![Call[2]].consumers = Append(Front(@), Tail(Last(@)))]
     \/ /\ Buffer(Call[2]) = <<>> /\ queue = <<>>
        /\ received' = NoMessage
        /\ UNCHANGED session
  /\ UNCHANGED <<jmsConnection, queue, pending>>

Acknowledge ==
  /\ IsOp("acknowledge")
  /\ pending' = pending \ ToSet(Mine.taken)
  /\ session' = [session EXCEPT !["session"].taken = <<>>]
  /\ UNCHANGED <<jmsConnection, queue, received>>

Commit ==
  /\ IsOp("commit")
  /\ queue' = queue \o Mine.sent
  /\ pending' = (pending \union ToSet(Mine.sent)) \ ToSet(Mine.taken)
  /\ session' = [session EXCEPT !["session"].sent = <<>>, !["session"].taken = <<>>]
  /\ UNCHANGED <<jmsConnection, received>>

(* The consumers stay open, with nothing in their buffers.                 *)
Rollback ==
  /\ IsOp("rollback")
  /\ queue' = Delivered(Mine) \o queue
  /\ session' = [session EXCEPT !["session"].sent = <<>>, !["session"].taken = <<>>,
                               !["session"].consumers = [i \in DOMAIN @ |-> <<>>]]
  /\ UNCHANGED <<jmsConnection, pending, received>>

SessionClose ==
  /\ IsOp("closeSession")
  /\ LET s == session[Call[2]]
     IN  /\ queue' = ReturnedAtClose(s) \o queue
         /\ pending' = pending \ ToSet(AcknowledgedAtClose(s))
  /\ session' = [session EXCEPT ![Call[2]] = Closed]
  /\ UNCHANGED <<jmsConnection, received>>

ConnectionClose ==
  /\ IsOp("close")
  /\ queue' = ReturnedAtClose(Mine) \o ReturnedAtClose(session["helper"]) \o queue
  /\ pending' = pending \ ToSet(AcknowledgedAtClose(Mine)
                                  \o AcknowledgedAtClose(session["helper"]))
  /\ session' = [s \in Sessions |-> Closed]
  /\ jmsConnection' = "none"
  /\ received' = NoMessage

Served ==
  \/ GetConnection \/ OpenSession \/ Send \/ Start \/ Stop \/ CreateConsumer \/ Receive
  \/ Acknowledge \/ Commit \/ Rollback \/ SessionClose \/ ConnectionClose

-----------------------------------------------------------------------------
Running == test # "none"

StartTest(t) ==
  /\ ~Running /\ n < MaxTests
  /\ test' = t /\ n' = n + 1 /\ pc' = 1
  /\ disturbed' = FALSE /\ failed' = <<>>
  /\ UNCHANGED <<broker, orphaned, faults, kills>>

Step ==
  /\ Running /\ Served /\ pc < End
  /\ pc' = pc + 1
  /\ UNCHANGED <<test, n, orphaned, disturbed, failed, faults, kills>>

(* The last call of a script closes the connection.                        *)
Finish ==
  /\ Running /\ Served /\ pc = End
  /\ test' = "none" /\ pc' = 0
  /\ UNCHANGED <<n, orphaned, disturbed, failed, faults, kills>>

(* The loop of setUp starts over with a new session.                       *)
WhileReceived ==
  /\ Running /\ IsOp("whileReceived")
  /\ pc' = IF received = NoMessage THEN pc + 1 ELSE 2
  /\ received' = NoMessage
  /\ UNCHANGED <<test, n, jmsConnection, session, queue, orphaned, pending,
                 disturbed, failed, faults, kills>>

(* getText() of a null throws, which fails the test as an assertion does.  *)
AsExpected ==
  IF IsOp("assertNull") THEN received = NoMessage ELSE received.text = <<test, Call[2]>>

AssertReceived ==
  /\ Running /\ (IsOp("assertText") \/ IsOp("assertNull"))
  /\ IF AsExpected
     THEN pc' = pc + 1 /\ UNCHANGED <<received, failed>>
     ELSE pc' = End /\ failed' = <<test, pc>> /\ UNCHANGED received
  /\ UNCHANGED <<test, n, jmsConnection, session, queue, orphaned, pending,
                 disturbed, faults, kills>>

(* A call throws a JMSException, whether or not the broker served it; the  *)
(* test goes on with its tearDown.                                         *)
Throw ==
  /\ Running /\ pc < End /\ faults < MaxFaults
  /\ Call[1] \notin {"whileReceived", "assertText", "assertNull"}
  /\ Served \/ UNCHANGED broker
  /\ pc' = End /\ disturbed' = TRUE /\ faults' = faults + 1
  /\ UNCHANGED <<test, n, orphaned, failed, kills>>

(* The messages the connection holds when it is lost.                      *)
HeldBack(acked) ==
  LET held == Delivered(Mine) \o Delivered(session["helper"])
  IN  FlattenSeq([i \in DOMAIN held |-> IF held[i] \in acked THEN <<>> ELSE <<held[i]>>])

LoseConnection(acked) ==
  /\ orphaned' = orphaned \o HeldBack(acked)
  /\ pending' = pending \ acked
  /\ session' = [s \in Sessions |-> Closed]
  /\ jmsConnection' = "none" /\ received' = NoMessage
  /\ test' = "none" /\ pc' = 0
  /\ UNCHANGED <<n, queue, failed>>

(* The close in tearDown throws: the broker is left to find out.           *)
CloseThrows ==
  /\ Running /\ pc = End /\ faults < MaxFaults
  /\ faults' = faults + 1 /\ disturbed' = TRUE
  /\ LoseConnection({})
  /\ UNCHANGED kills

(* An automatic acknowledgement may or may not have reached the broker.    *)
Kill ==
  /\ Running /\ kills < MaxKills
  /\ kills' = kills + 1 /\ disturbed' = TRUE
  /\ \E acked \in SUBSET ToSet(AcknowledgedAtClose(Mine)
                                 \o AcknowledgedAtClose(session["helper"])) :
       LoseConnection(acked)
  /\ UNCHANGED faults

(* A receive gives up while a message is still on its way.                 *)
ReceiveTimesOut ==
  /\ Running /\ IsOp("receive") /\ faults < MaxFaults
  /\ Buffer(Call[2]) = <<>> /\ queue # <<>>
  /\ received' = NoMessage
  /\ pc' = pc + 1 /\ disturbed' = TRUE /\ faults' = faults + 1
  /\ UNCHANGED <<test, n, jmsConnection, session, queue, orphaned, pending, failed, kills>>

(* The broker pushes its first message to any consumer it knows, the ones  *)
(* nobody reads any more included.                                         *)
Deliver(s, c) ==
  /\ jmsConnection = "started" /\ queue # <<>>
  /\ session' = [session EXCEPT ![s].consumers[c] = Append(@, Head(queue))]
  /\ queue' = Tail(queue)
  /\ UNCHANGED <<test, n, pc, jmsConnection, orphaned, pending, received,
                 disturbed, failed, faults, kills>>

(* The broker notices a lost connection and takes its messages back.       *)
ReturnOrphaned ==
  /\ orphaned # <<>>
  /\ queue' = orphaned \o queue
  /\ orphaned' = <<>>
  /\ disturbed' = (disturbed \/ Running)
  /\ UNCHANGED <<test, n, pc, jmsConnection, session, pending, received,
                 failed, faults, kills>>

Init ==
  /\ test = "none" /\ n = 0 /\ pc = 0
  /\ jmsConnection = "none"
  /\ session = [s \in Sessions |-> Closed]
  /\ queue = <<>> /\ orphaned = <<>> /\ pending = {}
  /\ received = NoMessage
  /\ disturbed = FALSE /\ failed = <<>>
  /\ faults = 0 /\ kills = 0

DeliverAny == \E s \in Sessions : \E c \in DOMAIN session[s].consumers : Deliver(s, c)

Thread == Step \/ Finish \/ WhileReceived \/ AssertReceived

Next ==
  \/ \E t \in Tests : StartTest(t)
  \/ Thread
  \/ Throw \/ CloseThrows \/ Kill \/ ReceiveTimesOut
  \/ DeliverAny \/ ReturnOrphaned

Spec == Init /\ [][Next]_vars

(* The thread of the tests goes on, and the broker delivers.  Faults, and  *)
(* when a lost connection is noticed, are left open.                       *)
FairSpec == Spec /\ WF_vars(Thread) /\ WF_vars(DeliverAny)

-----------------------------------------------------------------------------
MaxScript == Max({Len(Scripts[t]) : t \in Tests})

Message == [text : Tests \X {1, 2}, id : (1..MaxTests) \X Nat]

TypeOK ==
  /\ test \in Tests \union {"none"} /\ n \in 0..MaxTests
  /\ IF Running THEN pc \in DOMAIN Scripts[test] ELSE pc = 0
  /\ jmsConnection \in {"none", "stopped", "started"}
  /\ DOMAIN session = Sessions
  /\ \A s \in Sessions :
       /\ session[s].mode \in Modes \union {"closed"}
       /\ session[s].sent \in Seq(Message) /\ session[s].taken \in Seq(Message)
       /\ session[s].consumers \in Seq(Seq(Message))
  /\ queue \in Seq(Message) /\ orphaned \in Seq(Message)
  /\ pending \subseteq Message /\ received \in Message \union {NoMessage}
  /\ disturbed \in BOOLEAN
  /\ failed = <<>> \/ failed \in Tests \X (1..MaxScript)
  /\ faults \in 0..MaxFaults /\ kills \in 0..MaxKills

(* A test nothing disturbs leaves the broker none of its own messages: in  *)
(* each mode, through reconnections and the consumers nobody closes,       *)
(* exactly what it has sent is acknowledged.  The exception is the message *)
(* + "2" that transactedWithRollback commits (JMSTest.java:212, 220).      *)
LeavesNothing ==
  ~Running /\ ~disturbed =>
    \A m \in pending : m.id[1] = n => m.text = <<"transactedWithRollback", 2>>

(* Whatever earlier tests and killed runs have left on the broker, the     *)
(* assertions of a test nothing disturbs hold.  The exception is the last  *)
(* one of transactedWithRollback, which finds the message the test has     *)
(* committed itself (JMSTest.java:212, 220).                               *)
AssertionsHold ==
  failed # <<>> /\ ~disturbed =>
    failed = <<"transactedWithRollback", Len(Scripts["transactedWithRollback"]) - 1>>

(* Every test ends: setUp does not receive the same messages for ever, and *)
(* no receive waits for a message that another consumer holds.             *)
TestsEnd == Running ~> ~Running

(* JMSTest.java:218: "expected behaviour as message + 2 should not be      *)
(* delivered to queue".                                                    *)
NotDelivered ==
  ~Running /\ ~disturbed => \A m \in pending : m.id[1] = n => m.text[2] # 2

=============================================================================
