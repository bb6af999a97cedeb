---------------------------- MODULE AtomicCommit ----------------------------
(***************************************************************************)
(* What a caller of RemoteEJBClient.call is promised: the update of the    *)
(* client's database and the work of the remote EJB take effect together   *)
(* or not at all.  Each transaction is decided once; a site applies its    *)
(* part only after the decision to commit, and never takes it back.        *)
(* Several undecided transactions can be aborted in one step: a crash of   *)
(* the coordinator aborts every transaction it had not decided.            *)
(***************************************************************************)
CONSTANTS Tx, Sites

VARIABLES decision,  \* the fate of each transaction
          applied    \* the sites where each transaction has taken effect

vars == <<decision, applied>>

TypeOK ==
  /\ decision \in [Tx -> {"open", "commit", "abort"}]
  /\ applied \in [Tx -> SUBSET Sites]

Init ==
  /\ decision = [t \in Tx |-> "open"]
  /\ applied = [t \in Tx |-> {}]

DecideCommit(t) ==
  /\ decision[t] = "open"
  /\ decision' = [decision EXCEPT ![t] = "commit"]
  /\ UNCHANGED applied

DecideAbort(T) ==
  /\ \A t \in T : decision[t] = "open"
  /\ decision' = [t \in Tx |-> IF t \in T THEN "abort" ELSE decision[t]]
  /\ UNCHANGED applied

Apply(t, s) ==
  /\ decision[t] = "commit"
  /\ s \notin applied[t]
  /\ applied' = [applied EXCEPT ![t] = @ \union {s}]
  /\ UNCHANGED decision

Next ==
  \/ \E t \in Tx : DecideCommit(t)
  \/ \E T \in SUBSET Tx : DecideAbort(T)
  \/ \E t \in Tx, s \in Sites : Apply(t, s)

Spec == Init /\ [][Next]_vars

(* A decision to commit eventually reaches every site.                     *)
FairSpec == Spec /\ \A t \in Tx, s \in Sites : WF_vars(Apply(t, s))

=============================================================================
