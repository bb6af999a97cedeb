------------------------ MODULE ManagementOperations ------------------------
(***************************************************************************)
(* The management client of the test suite: ManagementOperations, with the *)
(* datasource removal of DatasourceSetupUtil.  One thread calls its public *)
(* methods; an operation is sent to the server at once or, in batch mode,  *)
(* collected for one composite that the server applies whole or not at     *)
(* all.  A method is the program of instructions its body runs; an         *)
(* instruction that throws ends the call where it is.                      *)
(*                                                                         *)
(* The server is external: its persistent configuration, the part of it in *)
(* effect since the last boot, and its lifecycle.  The values of           *)
(* attributes, the parsing of addresses and the logging are left out; the  *)
(* two-second sleep before a poll is taken to be long enough for the       *)
(* server to leave its running state.                                      *)
(***************************************************************************)
EXTENDS Naturals, Sequences, FiniteSets, SequencesExt

CONSTANTS Names,      \* datasource names callers use
          Db2,        \* those of them on a DB2 database
          Queues,     \* names of JMS queues
          Loggers,    \* logging categories
          Props,      \* the properties of a datasource, in the order added
          PollLimit,  \* the 20 of the wait for a reload
          MaxCalls,   \* bound: calls made
          MaxFaults   \* bound: operations that fail through no fault of theirs

ASSUME ManagementAssumption ==
  /\ Db2 \subseteq Names
  /\ Props \in Seq(Range(Props))
  /\ PollLimit \in Nat
  /\ MaxCalls \in Nat
  /\ MaxFaults \in Nat

-----------------------------------------------------------------------------
(* The paths of the configuration.  A path of three is a child or an       *)
(* attribute of the resource its first two elements name.                  *)

DataSource(n)   == <<"data-source", n>>
XaDataSource(n) == <<"xa-data-source", n>>
JdbcDriver      == <<"jdbc-driver", "driver">>
JmsQueue(q)     == <<"jms-queue", q>>
Logger(l)       == <<"logger", l>>
Transactions    == <<"subsystem", "transactions">>
Jacorb          == <<"subsystem", "jacorb">>

Validation == <<"validate-on-match", "valid-connection-checker-class-name",
                "exception-sorter-class-name">>
RecoveryPlugin == <<"recovery-plugin-class-name", "recovery-plugin-properties">>

Of(path) == SubSeq(path, 1, 2)

(* Operations and instructions. *)

AddOp(p)      == [do |-> "execute", op |-> "add", at |-> p]
RemoveOp(p)   == [do |-> "execute", op |-> "remove", at |-> p]
WriteOp(p, a) == [do |-> "execute", op |-> "write", at |-> Append(p, a)]
ClearOp(p, a) == [do |-> "execute", op |-> "clear", at |-> Append(p, a)]

IfDefined(p, yes, no) == [do |-> "isDefined", at |-> p, yes |-> yes, no |-> no]
IfExists(p, yes, no)  == [do |-> "isResourceExists", at |-> p, yes |-> yes, no |-> no]

StartBatch  == [do |-> "startBatch"]
RunBatch    == [do |-> "runBatch"]
CancelBatch == [do |-> "cancelBatch"]
Wait        == [do |-> "wait"]         \* while (!reloaded)
AwaitStop   == [do |-> "awaitStop"]    \* the 31 probes of stopAndStartServer
Start       == [do |-> "start"]        \* controller.start

Reinitialize(op) == [do |-> "reinitialize", op |-> op, at |-> <<>>]

Each(Instruction(_), s) == [i \in 1..Len(s) |-> Instruction(s[i])]

-----------------------------------------------------------------------------

(* The methods. *)

Reload == <<Reinitialize("reload"), Wait>>
StopRestart == <<Reinitialize("restart"), Wait>>
Stop == <<Reinitialize("shutdown")>>
StopAndStartServer == Stop \o <<AwaitStop, Start>>

AddDatasource(n, properties) ==
  LET AddProperty(p) == AddOp(Append(DataSource(n), p))
  IN  <<AddOp(DataSource(n))>> \o Each(AddProperty, properties)

(* Mutant: every operation on its own. *)
AddXADataSourceUnbatched(n) ==
  LET AddProperty(p) == AddOp(Append(XaDataSource(n), p))
  IN  <<AddOp(XaDataSource(n))>> \o Each(AddProperty, Props)

(* The datasource and its properties in one composite; the recovery plugin *)
(* of DB2 in two more operations.                                          *)
AddXADataSource(n) ==
  LET AddProperty(p) == AddOp(Append(XaDataSource(n), p))
      WritePlugin(a) == WriteOp(XaDataSource(n), a)
  IN  <<StartBatch, AddOp(XaDataSource(n))>> \o Each(AddProperty, Props) \o <<RunBatch>>
      \o IF n \in Db2 THEN Each(WritePlugin, RecoveryPlugin) ELSE <<>>

RemoveDatasourceConfigurations(n) ==
  <<IfDefined(XaDataSource(n), <<RemoveOp(XaDataSource(n))>>, <<>>),
    IfDefined(DataSource(n), <<RemoveOp(DataSource(n))>>, <<>>)>>

(* Mutant: the reload before the writes. *)
SetValidationReloadFirst(p) ==
  LET WriteIt(a) == WriteOp(p, a) IN Reload \o Each(WriteIt, Validation)

SetValidationAttributes(p) ==
  LET WriteIt(a) == WriteOp(p, a) IN Each(WriteIt, Validation) \o Reload

(* Both questions are asked before either datasource is changed. *)
SetDatasourceConnectionValidation(n) ==
  LET IfXa(first, second) == <<IfDefined(XaDataSource(n), first \o second, first)>>
      xa == SetValidationAttributes(XaDataSource(n))
  IN  <<IfDefined(DataSource(n), IfXa(SetValidationAttributes(DataSource(n)), xa),
                                 IfXa(<<>>, xa))>>

AddJdbcDriver    == <<IfExists(JdbcDriver, <<>>, <<AddOp(JdbcDriver)>>)>>
RemoveJdbcDriver == <<RemoveOp(JdbcDriver)>>
AddJmsQueue(q)    == <<AddOp(JmsQueue(q))>>
RemoveJmsQueue(q) == <<RemoveOp(JmsQueue(q))>>

SetLogger(l) ==
  <<IfDefined(Logger(l), <<WriteOp(Logger(l), "level")>>, <<AddOp(Logger(l))>>)>>

SetJTS(enabled) ==
  IF enabled THEN <<WriteOp(Transactions, "jts"), WriteOp(Jacorb, "transactions")>>
             ELSE <<ClearOp(Transactions, "jts"), ClearOp(Jacorb, "transactions")>>

(* What a caller may ask for, by name, and the program of it. *)
Methods ==
  ({"addDatasource", "addXADataSource", "removeDatasourceConfigurations",
    "setDatasourceConnectionValidation"} \X Names)
  \cup ({"addJmsQueue", "removeJmsQueue"} \X Queues)
  \cup ({"setLogger"} \X Loggers)
  \cup ({"setJTS"} \X BOOLEAN)
  \cup ({"addJdbcDriver", "removeJdbcDriver", "reload", "restart", "stop",
         "stopAndStartServer", "startBatch", "runBatch", "cancelBatch"} \X {"-"})

Program(m) ==
  CASE m[1] = "addDatasource"   -> AddDatasource(m[2], Props)
    [] m[1] = "addXADataSource" -> AddXADataSource(m[2])
    [] m[1] = "removeDatasourceConfigurations" -> RemoveDatasourceConfigurations(m[2])
    [] m[1] = "setDatasourceConnectionValidation" ->
         SetDatasourceConnectionValidation(m[2])
    [] m[1] = "addJmsQueue"      -> AddJmsQueue(m[2])
    [] m[1] = "removeJmsQueue"   -> RemoveJmsQueue(m[2])
    [] m[1] = "setLogger"        -> SetLogger(m[2])
    [] m[1] = "setJTS"           -> SetJTS(m[2])
    [] m[1] = "addJdbcDriver"    -> AddJdbcDriver
    [] m[1] = "removeJdbcDriver" -> RemoveJdbcDriver
    [] m[1] = "reload"           -> Reload
    [] m[1] = "restart"          -> StopRestart
    [] m[1] = "stop"             -> Stop
    [] m[1] = "stopAndStartServer" -> StopAndStartServer
    [] m[1] = "startBatch"       -> <<StartBatch>>
    [] m[1] = "runBatch"         -> <<RunBatch>>
    [] m[1] = "cancelBatch"      -> <<CancelBatch>>

-----------------------------------------------------------------------------
VARIABLES prog,         \* the instructions left of the call
          isBatchMode,  \* operations are collected, not executed
          batch,        \* the operations collected; kept by a failed runBatch
          polls,        \* i of the wait for a reload
          call,         \* history: the latest call
          outcome,      \* history: what became of it
          opened,       \* history: the caller's own batch is being collected
          calls,        \* calls made
          faults,       \* faults so far
          server,       \* "up", "reloading", "stopping" or "down"
          config,       \* the resources and attributes configured
          booted,       \* config at the last boot
          rebooted,     \* history: the server booted since the call began
          jar,          \* the driver's jar in the deployments directory
          deployed      \* the server offers the driver of that jar

caller == <<calls, call, opened>>
client == <<prog, isBatchMode, batch, polls, outcome>>
remote == <<server, config, booted, rebooted, jar, deployed>>
vars   == <<client, caller, faults, remote>>

(* What an operation does to a configuration, and when it is possible.  A  *)
(* datasource needs its driver; a remove takes the children along.         *)
Accepted(o, c) ==
  CASE o.op = "add"    -> /\ o.at \notin c
                          /\ Len(o.at) > 2 => Of(o.at) \in c
                          /\ o.at[1] \in {"data-source", "xa-data-source"}
                               => deployed \/ JdbcDriver \in c
    [] o.op = "remove" -> o.at \in c
    [] o.op \in {"write", "clear"} -> Of(o.at) \in c
    [] OTHER -> TRUE

Applied(o, c) ==
  CASE o.op \in {"add", "write"} -> c \cup {o.at}
    [] o.op = "clear"  -> c \ {o.at}
    [] o.op = "remove" -> {p \in c : Of(p) # o.at}
    [] OTHER -> c

(* A composite: each step on the result of the ones before it. *)
Composite(steps) ==
  LET after[i \in 0..Len(steps)] ==
        IF i = 0
        THEN [ok |-> TRUE, config |-> config]
        ELSE LET before == after[i - 1]
             IN  [ok     |-> before.ok /\ Accepted(steps[i], before.config),
                  config |-> Applied(steps[i], before.config)]
  IN  after[Len(steps)]

IsLifecycle(o) == o.op \in {"reload", "restart", "shutdown"}

(* The server leaves its running state for a lifecycle operation. *)
Leaving(op) == IF op = "shutdown" THEN "stopping" ELSE "reloading"

Running == prog # <<>>
Doing(d) == Running /\ Head(prog).do = d

Continue(p) ==
  /\ prog' = p
  /\ outcome' = IF p = <<>> THEN "ok" ELSE "running"

Throw ==
  /\ prog' = <<>>
  /\ outcome' = "failed"

Fault ==
  /\ faults < MaxFaults
  /\ faults' = faults + 1

NoFault == UNCHANGED faults

-----------------------------------------------------------------------------
Init ==
  /\ prog = <<>> /\ isBatchMode = FALSE /\ batch = <<>> /\ polls = 0
  /\ call = <<"none", "-">> /\ outcome = "ok" /\ opened = FALSE
  /\ calls = 0 /\ faults = 0
  /\ server = "up"
  /\ config \in {{Transactions}, {Transactions, Jacorb, JdbcDriver}}
  /\ booted = config
  /\ rebooted = FALSE
  /\ jar \in {"none", "whole"}
  /\ deployed = (jar = "whole")

(* A caller runs a method to its end before it calls the next. *)
Call(m) ==
  /\ ~Running
  /\ calls < MaxCalls
  /\ calls' = calls + 1
  /\ call' = m
  /\ prog' = Program(m)
  /\ outcome' = "running"
  /\ rebooted' = FALSE
  /\ opened' = CASE m[1] = "startBatch" -> TRUE
                 [] m[1] \in {"runBatch", "cancelBatch"} -> FALSE
                 [] OTHER -> opened
  /\ UNCHANGED <<isBatchMode, batch, polls, faults, server, config, booted, jar, deployed>>

DoStartBatch ==
  /\ Doing("startBatch")
  /\ IF isBatchMode
     THEN Throw /\ UNCHANGED <<isBatchMode, batch>>
     ELSE Continue(Tail(prog)) /\ isBatchMode' = TRUE /\ batch' = <<>>
  /\ UNCHANGED <<polls, caller, faults, remote>>

DoCancelBatch ==
  /\ Doing("cancelBatch")
  /\ Continue(Tail(prog))
  /\ isBatchMode' = FALSE
  /\ batch' = <<>>
  /\ UNCHANGED <<polls, caller, faults, remote>>

(* executeOperation in batch mode: the operation is kept and the caller    *)
(* gets a success without a result.                                        *)
AddToBatch ==
  /\ Doing("execute")
  /\ isBatchMode
  /\ batch' = Append(batch, Head(prog))
  /\ Continue(Tail(prog))
  /\ UNCHANGED <<isBatchMode, polls, caller, faults, remote>>

(* executeOperation out of batch mode.  The server does it; or refuses it; *)
(* or cannot be reached; or does it and the answer is lost.                *)
ExecuteOperation ==
  /\ Doing("execute")
  /\ ~isBatchMode
  /\ LET o == Head(prog)
     IN  \/ /\ server = "up" /\ Accepted(o, config)
            /\ config' = Applied(o, config)
            /\ \/ Continue(Tail(prog)) /\ NoFault
               \/ Throw /\ Fault
         \/ /\ Throw
            /\ UNCHANGED config
            /\ IF server = "up" /\ Accepted(o, config) THEN Fault ELSE NoFault
  /\ UNCHANGED <<isBatchMode, batch, polls, caller, server, booted, rebooted, jar, deployed>>

(* The batch mode ends before the composite is sent; a composite that      *)
(* fails stays in batch.  One with a lifecycle operation in it may be      *)
(* refused.                                                                *)
DoRunBatch ==
  /\ Doing("runBatch")
  /\ isBatchMode' = FALSE
  /\ LET result    == Composite(batch)
         possible  == isBatchMode /\ server = "up" /\ batch # <<>> /\ result.ok
         lifecycle == {i \in DOMAIN batch : IsLifecycle(batch[i])}
     IN  \/ /\ possible
            /\ config' = result.config
            /\ server' = IF lifecycle = {} THEN server ELSE Leaving(batch[Max(lifecycle)].op)
            /\ \/ Continue(Tail(prog)) /\ batch' = <<>> /\ NoFault
               \/ Throw /\ UNCHANGED batch /\ Fault
         \/ /\ Throw
            /\ UNCHANGED <<batch, config, server>>
            /\ IF possible /\ lifecycle = {} THEN Fault ELSE NoFault
  /\ UNCHANGED <<polls, caller, booted, rebooted, jar, deployed>>

(* Mutant: a failed question is a yes. *)
IsDefinedFailureIsYes ==
  /\ Doing("isDefined")
  /\ server = "up"
  /\ LET i == Head(prog)
     IN  \/ Continue((IF i.at \in config THEN i.yes ELSE i.no) \o Tail(prog)) /\ NoFault
         \/ Continue(i.yes \o Tail(prog)) /\ Fault
  /\ UNCHANGED <<isBatchMode, batch, polls, caller, remote>>

(* isDefined.  In batch mode the question is queued and its answer is no;  *)
(* a failed one is a no as well; only a lost connection throws.            *)
IsDefined ==
  /\ Doing("isDefined")
  /\ LET i     == Head(prog)
         yes   == Continue(i.yes \o Tail(prog))
         no    == Continue(i.no \o Tail(prog))
     IN  IF isBatchMode
         THEN /\ batch' = Append(batch, [do |-> "execute", op |-> "read", at |-> i.at])
              /\ no /\ NoFault
         ELSE /\ UNCHANGED batch
              /\ \/ /\ server = "up"
                    /\ IF i.at \in config THEN yes ELSE no
                    /\ NoFault
                 \/ server = "up" /\ (no \/ Throw) /\ Fault
                 \/ server # "up" /\ Throw /\ NoFault
  /\ UNCHANGED <<isBatchMode, polls, caller, remote>>

(* isResourceExists looks at the outcome alone: the success of a queued    *)
(* question is a yes.                                                      *)
IsResourceExists ==
  /\ Doing("isResourceExists")
  /\ LET i     == Head(prog)
         yes   == Continue(i.yes \o Tail(prog))
         no    == Continue(i.no \o Tail(prog))
     IN  IF isBatchMode
         THEN /\ batch' = Append(batch, [do |-> "execute", op |-> "read", at |-> i.at])
              /\ yes /\ NoFault
         ELSE /\ UNCHANGED batch
              /\ \/ /\ server = "up"
                    /\ IF i.at \in config THEN yes ELSE no
                    /\ NoFault
                 \/ server = "up" /\ (no \/ Throw) /\ Fault
                 \/ server # "up" /\ Throw /\ NoFault
  /\ UNCHANGED <<isBatchMode, polls, caller, remote>>

(* Mutant: the operation goes to the new client past the batch. *)
ExecutePastBatch ==
  /\ Doing("reinitialize")
  /\ Continue(Tail(prog))
  /\ polls' = 0
  /\ server' = IF server = "up" THEN Leaving(Head(prog).op) ELSE server
  /\ UNCHANGED <<isBatchMode, batch, caller, faults, config, booted, rebooted, jar, deployed>>

(* executeServerReininitalization sends its operation and goes on to wait  *)
(* whether or not that threw.  In batch mode the operation is queued.      *)
ExecuteServerReinitialization ==
  /\ Doing("reinitialize")
  /\ Continue(Tail(prog))
  /\ polls' = 0
  /\ LET op == Head(prog).op
     IN  IF isBatchMode
         THEN batch' = Append(batch, Head(prog)) /\ NoFault /\ UNCHANGED server
         ELSE /\ UNCHANGED batch
              /\ \/ server = "up" /\ server' = Leaving(op) /\ NoFault
                 \/ server = "up" /\ UNCHANGED server /\ Fault
                 \/ server # "up" /\ UNCHANGED server /\ NoFault
  /\ UNCHANGED <<isBatchMode, caller, config, booted, rebooted, jar, deployed>>

(* Mutant: the counter inside the try, past what throws. *)
PollUncounted ==
  /\ Doing("wait")
  /\ IF server = "up" THEN Continue(Tail(prog)) ELSE UNCHANGED <<prog, outcome>>
  /\ UNCHANGED <<isBatchMode, batch, polls, caller, faults, remote>>

(* One turn of the wait: sleep, ask, count the turn unless it was a yes.   *)
Poll ==
  /\ Doing("wait")
  /\ IF server = "up"
     THEN Continue(Tail(prog)) /\ UNCHANGED polls
     ELSE /\ polls' = polls + 1
          /\ IF polls > PollLimit THEN Throw ELSE UNCHANGED <<prog, outcome>>
  /\ UNCHANGED <<isBatchMode, batch, caller, faults, remote>>

(* The 31 probes of stopAndStartServer end with the server gone or, all    *)
(* answered, with a line in the log.                                       *)
DoAwaitStop ==
  /\ Doing("awaitStop")
  /\ Continue(Tail(prog))
  /\ UNCHANGED <<isBatchMode, batch, polls, caller, faults, remote>>

(* controller.start: a stopped server is started, a running one is used,   *)
(* next to a stopping one there is no room for another.                    *)
DoStart ==
  /\ Doing("start")
  /\ \/ /\ server = "down"
        /\ server' = "up" /\ booted' = config /\ rebooted' = TRUE
        /\ deployed' = (jar = "whole")
        /\ Continue(Tail(prog))
     \/ /\ server = "up"
        /\ Continue(Tail(prog))
        /\ UNCHANGED remote
     \/ /\ server \in {"reloading", "stopping"}
        /\ Throw
        /\ UNCHANGED remote
  /\ UNCHANGED <<isBatchMode, batch, polls, caller, faults, config, jar>>

(* The server's own steps: it comes back from a reload, with the whole     *)
(* configuration in effect; it goes down.                                  *)
Boot ==
  /\ server = "reloading"
  /\ server' = "up"
  /\ booted' = config
  /\ rebooted' = TRUE
  /\ deployed' = (jar = "whole")
  /\ UNCHANGED <<client, caller, faults, config, jar>>

GoDown ==
  /\ server = "stopping"
  /\ server' = "down"
  /\ UNCHANGED <<client, caller, faults, config, booted, rebooted, jar, deployed>>

Client ==
  \/ DoStartBatch \/ DoCancelBatch \/ AddToBatch \/ ExecuteOperation \/ DoRunBatch
  \/ IsDefined \/ IsResourceExists
  \/ ExecuteServerReinitialization \/ Poll \/ DoAwaitStop \/ DoStart

Next ==
  \/ \E m \in Methods : Call(m)
  \/ Client
  \/ Boot
  \/ GoDown

Spec == Init /\ [][Next]_vars

-----------------------------------------------------------------------------
(* Properties. *)

Paths == {DataSource(n) : n \in Names} \cup {XaDataSource(n) : n \in Names}
         \cup {JdbcDriver, Transactions, Jacorb}
         \cup {JmsQueue(q) : q \in Queues} \cup {Logger(l) : l \in Loggers}

Attributes == Range(Props) \cup Range(Validation) \cup Range(RecoveryPlugin)
              \cup {"jts", "transactions", "level"}

Ops == {"add", "remove", "write", "clear", "read", "reload", "restart", "shutdown"}

(* The client's fields, the history and the server stay in their domains;  *)
(* what is configured has the resource it belongs to.                      *)
TypeOK ==
  /\ isBatchMode \in BOOLEAN
  /\ \A i \in DOMAIN batch : batch[i].op \in Ops
  /\ polls \in 0..(PollLimit + 2)
  /\ outcome \in {"ok", "running", "failed"}
  /\ (outcome = "running") = Running
  /\ calls \in 0..MaxCalls /\ faults \in 0..MaxFaults
  /\ server \in {"up", "reloading", "stopping", "down"}
  /\ \A p \in config \cup booted : Of(p) \in Paths /\ (Len(p) = 3 => p[3] \in Attributes)
  /\ \A p \in config : Of(p) \in config

(* However operations fail, an XA datasource is never configured without   *)
(* the properties that say where its database is: addXADataSource          *)
(* (ManagementOperations 561-633) sends them in one composite.             *)
XaComplete ==
  \A n \in Names : XaDataSource(n) \in config =>
    \A p \in Range(Props) : Append(XaDataSource(n), p) \in config

(* While a batch is being collected the server's configuration stays as it *)
(* is, whatever methods are called: only running the batch changes it.     *)
BatchIsolated ==
  [][isBatchMode /\ isBatchMode' =>
       UNCHANGED config /\ (server = "up" => server' = "up")]_vars

(* A call that ends, in a failure too, leaves no batch mode behind it that *)
(* the caller did not start: the next operation is executed, not queued.   *)
BatchClosed == ~Running /\ isBatchMode => opened

(* Without a fault, and out of a batch, a reload, a restart or a stop and  *)
(* start that returns normally has had the server boot in between.         *)
RebootedWithoutFaults ==
  /\ faults = 0 /\ ~isBatchMode /\ outcome = "ok"
  /\ call[1] \in {"reload", "restart", "stopAndStartServer"}
  => rebooted

(* Without a fault, and out of a batch, the validation a caller asked for  *)
(* is in effect when setDatasourceConnectionValidation returns: a reload   *)
(* follows the writes of each datasource of that name.                     *)
ValidationEffective ==
  /\ faults = 0 /\ ~isBatchMode /\ outcome = "ok"
  /\ call[1] = "setDatasourceConnectionValidation"
  => \A p \in {DataSource(call[2]), XaDataSource(call[2])} \cap config :
       \A a \in Range(Validation) : Append(p, a) \in booted

(* A call that returns normally has done what it reports: batch mode is    *)
(* left, the server has booted, and the validation asked for is in effect. *)
EndsAsReported == BatchClosed /\ RebootedWithoutFaults /\ ValidationEffective

(* What the comment on line 339 says: addJdbcDriver that returns has added *)
(* the driver, or put the operation that adds it in the caller's batch.    *)
DriverAdded ==
  call[1] = "addJdbcDriver" /\ outcome = "ok" =>
    JdbcDriver \in config \/ \E i \in DOMAIN batch : batch[i] = AddOp(JdbcDriver)
=============================================================================
