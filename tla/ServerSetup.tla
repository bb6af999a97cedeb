----------------------------- MODULE ServerSetup -----------------------------
(***************************************************************************)
(* The preparation of the application server by TestSetUpObserver, an      *)
(* Arquillian extension: before the container starts, the JDBC driver is   *)
(* copied into its deployments directory; after it has started, the        *)
(* datasources and the queue that are missing are defined and, when a      *)
(* datasource was, the server is reloaded.  The client it uses is          *)
(* ManagementOperations.                                                   *)
(*                                                                         *)
(* A run is one start of the test suite.  Its Java process may be killed   *)
(* at any step; the configuration and the copied jar stay for the next     *)
(* run, and so does the server, which a run connects to when it finds it   *)
(* running.  Arquillian, the deployment scanner and the server are         *)
(* external.                                                               *)
(***************************************************************************)
EXTENDS ManagementOperations

CONSTANTS PlainDs,  \* the data-sources of the setup, in its order
          XaDs,     \* its xa-data-sources
          Queue,    \* its queue
          MaxRuns   \* bound: runs of the test suite

(* The properties are the keys of a java.util.Properties, so all different.*)
ASSUME SetupAssumption ==
  /\ PlainDs \in Seq(Names) /\ XaDs \in Seq(Names)
  /\ IsInjective(Props)
  /\ Queue \in Queues
  /\ MaxRuns \in Nat

VARIABLES phase,         \* where the run is
          wasChangeDone, \* the flag of handleAfterStart
          joined,        \* the run connected to a server already running
          unscanned,     \* history: one that had not deployed the driver yet
          runs           \* runs begun

suite == <<phase, wasChangeDone, joined, unscanned, runs>>
setupVars == <<vars, suite>>

(* The instructions handleAfterStart adds to those of the client. *)
Changed         == [do |-> "changed"]          \* wasChangeDone = true
ReloadIfChanged == [do |-> "reloadIfChanged"]

DefineDatasource(n) ==
  IfDefined(DataSource(n), <<>>, AddDatasource(n, <<>>) \o <<Changed>>)

(* Mutant: the xa-data-source looked for among the data-sources. *)
DefineXaDatasourceWrongCheck(n) ==
  IfDefined(DataSource(n), <<>>, AddXADataSource(n) \o <<Changed>>)

DefineXaDatasource(n) ==
  IfDefined(XaDataSource(n), <<>>, AddXADataSource(n) \o <<Changed>>)

HandleAfterStart ==
  Each(DefineDatasource, PlainDs) \o Each(DefineXaDatasource, XaDs)
  \o <<IfDefined(JmsQueue(Queue), <<>>, AddJmsQueue(Queue)), ReloadIfChanged>>

(* All the setup defines. *)
Datasources == {DataSource(n) : n \in Range(PlainDs)} \cup {XaDataSource(n) : n \in Range(XaDs)}
XaChildren  == {Append(XaDataSource(n), p) : n \in Range(XaDs), p \in Range(Props)}
Complete    == Datasources \cup XaChildren \cup {JmsQueue(Queue)}

-----------------------------------------------------------------------------
SetupInit ==
  /\ Init
  /\ config = {Transactions}
  /\ phase = "idle" /\ wasChangeDone = FALSE /\ joined = FALSE
  /\ unscanned = FALSE /\ runs = 0

BeginRun ==
  /\ phase \in {"idle", "done", "failed"}
  /\ runs < MaxRuns
  /\ runs' = runs + 1
  /\ phase' = "before"
  /\ UNCHANGED <<vars, wasChangeDone, joined, unscanned>>

(* handleBeforeSetup: a jar that exists is taken for the driver; otherwise *)
(* Files.copy creates it and then writes it.                               *)
HandleBeforeSetup ==
  /\ phase = "before"
  /\ IF jar = "none" THEN phase' = "copying" /\ jar' = "partial"
                     ELSE phase' = "starting" /\ UNCHANGED jar
  /\ UNCHANGED <<client, caller, faults, server, config, booted, rebooted, deployed,
                 wasChangeDone, joined, unscanned, runs>>

FinishCopy ==
  /\ phase = "copying"
  /\ \/ jar' = "whole" /\ phase' = "starting" /\ NoFault
     \/ UNCHANGED jar /\ phase' = "failed" /\ Fault
  /\ UNCHANGED <<client, caller, server, config, booted, rebooted, deployed,
                 wasChangeDone, joined, unscanned, runs>>

(* Arquillian starts the server or connects to the running one, and fires  *)
(* AfterStart: handleAfterStart begins with a new ManagementOperations.    *)
StartContainer ==
  /\ phase = "starting"
  /\ server \in {"up", "down"}
  /\ server' = "up"
  /\ joined' = (server = "up")
  /\ unscanned' = (server = "up" /\ ~deployed)
  /\ IF server = "down"
     THEN booted' = config /\ deployed' = (jar = "whole")
     ELSE UNCHANGED <<booted, deployed>>
  /\ phase' = "setup"
  /\ wasChangeDone' = FALSE
  /\ prog' = HandleAfterStart /\ outcome' = "running"
  /\ isBatchMode' = FALSE /\ batch' = <<>> /\ polls' = 0
  /\ call' = <<"handleAfterStart", "-">> /\ rebooted' = FALSE
  /\ UNCHANGED <<calls, opened, faults, config, jar, runs>>

(* Arquillian gives up on a server that does not come back. *)
StartTimeout ==
  /\ phase = "starting"
  /\ server = "reloading"
  /\ phase' = "failed"
  /\ UNCHANGED <<vars, wasChangeDone, joined, unscanned, runs>>

SetupClient ==
  /\ phase = "setup"
  /\ Client
  /\ UNCHANGED suite

NoteChange ==
  /\ phase = "setup"
  /\ Doing("changed")
  /\ Continue(Tail(prog))
  /\ wasChangeDone' = TRUE
  /\ UNCHANGED <<isBatchMode, batch, polls, caller, faults, remote, phase, joined, unscanned, runs>>

DoReloadIfChanged ==
  /\ phase = "setup"
  /\ Doing("reloadIfChanged")
  /\ Continue(IF wasChangeDone THEN Reload ELSE <<>>)
  /\ UNCHANGED <<isBatchMode, batch, polls, caller, faults, remote, suite>>

EndSetup ==
  /\ phase = "setup"
  /\ ~Running
  /\ phase' = IF outcome = "ok" THEN "done" ELSE "failed"
  /\ UNCHANGED <<vars, wasChangeDone, joined, unscanned, runs>>

(* The run's process is killed.  A server it started may go with it. *)
Kill ==
  /\ phase \in {"before", "copying", "starting", "setup"}
  /\ Fault
  /\ phase' = "idle"
  /\ prog' = <<>> /\ outcome' = "failed"
  /\ isBatchMode' = FALSE /\ batch' = <<>>
  /\ server' \in {server} \cup (IF phase = "setup" /\ ~joined THEN {"down"} ELSE {})
  /\ UNCHANGED <<polls, caller, config, booted, rebooted, jar, deployed,
                 wasChangeDone, joined, unscanned, runs>>

(* At the end of the run, or by hand. *)
StopContainer ==
  /\ phase \in {"idle", "done", "failed"}
  /\ server = "up"
  /\ server' = "down"
  /\ UNCHANGED <<client, caller, faults, config, booted, rebooted, jar, deployed, suite>>

(* The deployment scanner of a running server finds the whole jar. *)
Scan ==
  /\ server = "up"
  /\ jar = "whole"
  /\ ~deployed
  /\ deployed' = TRUE
  /\ UNCHANGED <<client, caller, faults, server, config, booted, rebooted, jar, suite>>

BootServer == Boot /\ UNCHANGED suite

Observer ==
  HandleBeforeSetup \/ FinishCopy \/ SetupClient \/ NoteChange \/ DoReloadIfChanged
  \/ EndSetup

SetupNext ==
  \/ BeginRun \/ Observer \/ StartContainer \/ StartTimeout \/ Kill
  \/ StopContainer \/ Scan \/ BootServer

SetupSpec == SetupInit /\ [][SetupNext]_setupVars

(* The thread of the observer goes on and Arquillian starts the container  *)
(* or gives up.  The server need not come back from a reload.              *)
SetupFairSpec ==
  /\ SetupSpec
  /\ WF_setupVars(Observer)
  /\ WF_setupVars(StartContainer \/ StartTimeout)

-----------------------------------------------------------------------------
Phases == {"idle", "before", "copying", "starting", "setup", "done", "failed"}

(* The run's phase, its flag and the client under it. *)
SetupTypeOK ==
  /\ TypeOK
  /\ phase \in Phases
  /\ wasChangeDone \in BOOLEAN /\ joined \in BOOLEAN /\ unscanned \in BOOLEAN
  /\ runs \in 0..MaxRuns
  /\ Running => phase = "setup"
  /\ jar \in {"none", "partial", "whole"}
  /\ phase = "copying" => jar = "partial"

(* A setup that returns normally has everything configured, whatever an    *)
(* earlier run left half done and whichever questions failed.              *)
SetupComplete == phase = "done" => Complete \subseteq config

(* Without a fault, the datasources a finished setup leaves are in effect: *)
(* the server has booted since the last of them was defined.               *)
EffectiveWithoutFaults ==
  phase = "done" /\ faults = 0 => Datasources \cup XaChildren \subseteq booted

(* A setup that returns normally is one the tests can rely on.             *)
SetupDone == SetupComplete /\ EffectiveWithoutFaults

(* Without a fault a setup fails only if the server is too slow to come    *)
(* back, or was running already and had not scanned the driver yet; in     *)
(* particular it can be repeated, on a server it has set up before.        *)
NoSpuriousFailure ==
  phase = "failed" /\ faults = 0 => unscanned \/ polls > PollLimit

(* A run ends, if the server does not come back from the reload as well.   *)
SetupEnds == phase = "before" ~> phase \in {"idle", "done", "failed"}

(* What the comment on line 38 says: where handleAfterStart runs, the      *)
(* driver is deployed in the deployments directory.                        *)
DriverDeployed == phase = "setup" => jar = "whole"
=============================================================================
