--------------------------- MODULE OnecloudUpgrade ---------------------------
(***************************************************************************)
(* The upgrade of one cluster: the tasks of the role                       *)
(* upgrade/primary_master_node, the waiter script they run on the primary  *)
(* master, and the Kubernetes cluster those tasks change.                  *)
(*                                                                         *)
(* The role moves the onecloud-operator deployment to the new version,     *)
(* waits for its pods, and only then declares the new version in the       *)
(* OnecloudCluster resource; the running operator then rolls every service *)
(* to the declared version while the role waits for the essential ones.    *)
(* Every command between two patches whose status is ignored (`kubectl     *)
(* rollout status` in a script without `set -e`) leaves the waiter as the  *)
(* only guard between one step and the next.                               *)
(*                                                                         *)
(* A version is a number, in release order.  The role's shell commands are *)
(* started in the background and polled: a lost connection, an expired     *)
(* job or a failing task end the run, which an operator may start again.   *)
(***************************************************************************)
EXTENDS Naturals, Sequences

CONSTANTS
  Services,    \* deployments the operator owns
  WaitOrder,   \* the services the waiter polls, in order
  Versions,    \* release versions, ordered
  TagMatches,  \* <<expected, tag>>: grep -F ":expected" accepts an image with tag
  MaxPolls,    \* retries of async_status; 30 in the code
  MaxRuns      \* bound: how often `ocboot upgrade` is run

ASSUME ConstantsAssumption ==
  /\ Versions \subseteq Nat
  /\ WaitOrder \in Seq(Services)
  /\ TagMatches \subseteq Versions \X Versions
  /\ \A v \in Versions : <<v, v>> \in TagMatches
  /\ MaxPolls \in Nat
  /\ MaxRuns \in Nat

VARIABLES
  specVersion,  \* OnecloudCluster .spec.version
  opTemplate,   \* pod template of the onecloud-operator deployment
  opPods,       \* for each template the operator ever had: its pod
  svcTemplate,  \* for each service: the version in its pod template
  svcPods,      \* for each service and version: its pod
  pc,           \* next task of the role; "idle" when no run is in progress
  target,       \* upgrade_onecloud_version of the current or the last run
  waitIdx,      \* position of wait-onecloud-services.sh in WaitOrder
  polls,        \* async_status retries used by the current background job
  outcome,      \* of the last finished run: "none", "done" or "failed"
  runs          \* runs started

clusterVars == <<specVersion, opTemplate, opPods, svcTemplate, svcPods>>
runVars == <<pc, target, waitIdx, polls, outcome, runs>>
vars == <<clusterVars, runVars>>

OpTemplates == [image : Versions, clear : BOOLEAN]
PodStatus == {"none", "pending", "ready"}
Tasks == {"idle", "turn_on_clear", "patch_operator", "wait_operator",
          "patch_spec", "wait_services", "wait_operator_again",
          "turn_off_clear", "rest"}

\* A pod that kubectl lists and that is not Terminating.
Live(status) == status # "none"

LiveOperators == {t \in OpTemplates : Live(opPods[t])}
LiveVersions(s) == {v \in Versions : Live(svcPods[s][v])}

\* A finished installation of version v.
Installed(v) ==
  LET template == [image |-> v, clear |-> FALSE] IN
  /\ specVersion = v
  /\ target = v
  /\ opTemplate = template
  /\ opPods = [t \in OpTemplates |-> IF t = template THEN "ready" ELSE "none"]
  /\ svcTemplate = [s \in Services |-> v]
  /\ svcPods = [s \in Services |->
                  [w \in Versions |-> IF w = v THEN "ready" ELSE "none"]]
  /\ pc = "idle"
  /\ waitIdx = 1
  /\ polls = 0
  /\ outcome = "none"
  /\ runs = 0

Init == \E v \in Versions : Installed(v)

-----------------------------------------------------------------------------
(* The waiter script.  check_svc wants at least one pod, all of them Running *)
(* and fully READY, and the expected tag among the images of each.           *)

\* Slip: one good pod is enough.
CheckOperatorAnyPod ==
  \E t \in LiveOperators : opPods[t] = "ready" /\ <<target, t.image>> \in TagMatches

CheckOperator ==
  /\ LiveOperators # {}
  /\ \A t \in LiveOperators : /\ opPods[t] = "ready"
                              /\ <<target, t.image>> \in TagMatches

\* Slip: the waiter is run without EXPECT_VERSION.
CheckServiceAnyTag(s) ==
  LiveVersions(s) # {} /\ \A v \in LiveVersions(s) : svcPods[s][v] = "ready"

CheckService(s) ==
  /\ LiveVersions(s) # {}
  /\ \A v \in LiveVersions(s) : /\ svcPods[s][v] = "ready"
                                /\ <<target, v>> \in TagMatches

-----------------------------------------------------------------------------
(* The tasks of the role, in order.                                          *)

\* `ocboot upgrade PRIMARY v`: v is not older than the installed version.
StartUpgrade(v) ==
  /\ pc = "idle"
  /\ runs < MaxRuns
  /\ v >= specVersion
  /\ pc' = "turn_on_clear"
  /\ target' = v
  /\ outcome' = "none"
  /\ runs' = runs + 1
  /\ UNCHANGED <<clusterVars, waitIdx, polls>>

TurnOnClearComponent ==
  /\ pc = "turn_on_clear"
  /\ opTemplate' = [opTemplate EXCEPT !.clear = TRUE]
  /\ pc' = "patch_operator"
  /\ UNCHANGED <<specVersion, opPods, svcTemplate, svcPods, target, waitIdx,
                 polls, outcome, runs>>

\* Slip: spec.version is patched without waiting.
PatchOperatorNoWait ==
  /\ pc = "patch_operator"
  /\ opTemplate' = [image |-> target, clear |-> TRUE]
  /\ pc' = "patch_spec"
  /\ UNCHANGED <<specVersion, opPods, svcTemplate, svcPods, target, waitIdx,
                 polls, outcome, runs>>

PatchOperator ==
  /\ pc = "patch_operator"
  /\ opTemplate' = [image |-> target, clear |-> TRUE]
  /\ pc' = "wait_operator"
  /\ polls' = 0
  /\ UNCHANGED <<specVersion, opPods, svcTemplate, svcPods, target, waitIdx,
                 outcome, runs>>

OperatorArrived ==
  /\ pc = "wait_operator"
  /\ CheckOperator
  /\ pc' = "patch_spec"
  /\ UNCHANGED <<clusterVars, target, waitIdx, polls, outcome, runs>>

\* The rollout restart that follows replaces the operator's pod by one of the
\* same template, which is what OperatorPodRestarts does to it.
PatchSpecVersion ==
  /\ pc = "patch_spec"
  /\ specVersion' = target
  /\ pc' = "wait_services"
  /\ waitIdx' = 1
  /\ polls' = 0
  /\ UNCHANGED <<opTemplate, opPods, svcTemplate, svcPods, target, outcome, runs>>

ServiceArrived ==
  /\ pc = "wait_services"
  /\ waitIdx <= Len(WaitOrder)
  /\ CheckService(WaitOrder[waitIdx])
  /\ waitIdx' = waitIdx + 1
  /\ pc' = IF waitIdx = Len(WaitOrder) THEN "wait_operator_again" ELSE pc
  /\ UNCHANGED <<clusterVars, target, polls, outcome, runs>>

OperatorArrivedAgain ==
  /\ pc = "wait_operator_again"
  /\ CheckOperator
  /\ pc' = "turn_off_clear"
  /\ UNCHANGED <<clusterVars, target, waitIdx, polls, outcome, runs>>

\* Slip: the turn-off patch leaves the option on.
TurnOffNothing ==
  pc = "turn_off_clear" /\ pc' = "rest"
  /\ UNCHANGED <<clusterVars, target, waitIdx, polls, outcome, runs>>

TurnOffClearComponent ==
  /\ pc = "turn_off_clear"
  /\ opTemplate' = [opTemplate EXCEPT !.clear = FALSE]
  /\ pc' = "rest"
  /\ UNCHANGED <<specVersion, opPods, svcTemplate, svcPods, target, waitIdx,
                 polls, outcome, runs>>

\* The plays after this role finish too: "The system has been upgraded".
FinishUpgrade ==
  /\ pc = "rest"
  /\ pc' = "idle"
  /\ outcome' = "done"
  /\ UNCHANGED <<clusterVars, target, waitIdx, polls, runs>>

Polling == pc \in {"wait_operator", "wait_services", "wait_operator_again"}

\* Slips: retries without a limit; retries that are not counted.
PollJobNoLimit ==
  Polling /\ polls' = polls + 1
  /\ UNCHANGED <<clusterVars, pc, target, waitIdx, outcome, runs>>
PollJobUncounted == Polling /\ polls < MaxPolls /\ UNCHANGED vars

\* One async_status attempt that finds the background job unfinished.
PollJob ==
  /\ Polling
  /\ polls < MaxPolls
  /\ polls' = polls + 1
  /\ UNCHANGED <<clusterVars, pc, target, waitIdx, outcome, runs>>

Abandon ==
  /\ pc' = "idle"
  /\ outcome' = "failed"
  /\ UNCHANGED <<clusterVars, target, waitIdx, polls, runs>>

\* Retries are used up, or the job's own limit killed it; both are 1800s.
JobTimesOut == Polling /\ polls = MaxPolls /\ Abandon

\* A task fails or the host becomes unreachable: any_errors_fatal ends the run
\* where it is and nothing is rolled back.
TaskFails == pc # "idle" /\ Abandon

Role ==
  \/ TurnOnClearComponent
  \/ PatchOperator
  \/ OperatorArrived
  \/ PatchSpecVersion
  \/ ServiceArrived
  \/ OperatorArrivedAgain
  \/ TurnOffClearComponent
  \/ FinishUpgrade
  \/ PollJob
  \/ JobTimesOut

-----------------------------------------------------------------------------
(* The cluster: deployments replace their pods, the operator reconciles.     *)

OperatorPodStarts ==
  /\ opPods[opTemplate] = "none"
  /\ opPods' = [opPods EXCEPT ![opTemplate] = "pending"]
  /\ UNCHANGED <<specVersion, opTemplate, svcTemplate, svcPods, runVars>>

OperatorPodReady(t) ==
  /\ opPods[t] = "pending"
  /\ opPods' = [opPods EXCEPT ![t] = "ready"]
  /\ UNCHANGED <<specVersion, opTemplate, svcTemplate, svcPods, runVars>>

OperatorPodRestarts(t) ==
  /\ opPods[t] = "ready"
  /\ opPods' = [opPods EXCEPT ![t] = "pending"]
  /\ UNCHANGED <<specVersion, opTemplate, svcTemplate, svcPods, runVars>>

\* A rolling update gives up an old pod for a ready new one, or because the old
\* one is unhealthy anyway.
OperatorPodReplaced(t) ==
  /\ t # opTemplate
  /\ opPods[t] = "pending" \/ (opPods[t] = "ready" /\ opPods[opTemplate] = "ready")
  /\ opPods' = [opPods EXCEPT ![t] = "none"]
  /\ UNCHANGED <<specVersion, opTemplate, svcTemplate, svcPods, runVars>>

\* A running operator moves a service to the declared version.
Reconcile(s) ==
  /\ \E t \in OpTemplates : opPods[t] = "ready"
  /\ svcTemplate[s] # specVersion
  /\ svcTemplate' = [svcTemplate EXCEPT ![s] = specVersion]
  /\ UNCHANGED <<specVersion, opTemplate, opPods, svcPods, runVars>>

SetServicePod(s, v, status) ==
  /\ svcPods' = [svcPods EXCEPT ![s][v] = status]
  /\ UNCHANGED <<specVersion, opTemplate, opPods, svcTemplate, runVars>>

ServicePodStarts(s) ==
  /\ svcPods[s][svcTemplate[s]] = "none"
  /\ SetServicePod(s, svcTemplate[s], "pending")

ServicePodReady(s, v) ==
  /\ svcPods[s][v] = "pending"
  /\ SetServicePod(s, v, "ready")

ServicePodRestarts(s, v) ==
  /\ svcPods[s][v] = "ready"
  /\ SetServicePod(s, v, "pending")

ServicePodReplaced(s, v) ==
  /\ v # svcTemplate[s]
  /\ \/ svcPods[s][v] = "pending"
     \/ svcPods[s][v] = "ready" /\ svcPods[s][svcTemplate[s]] = "ready"
  /\ SetServicePod(s, v, "none")

Cluster ==
  \/ OperatorPodStarts
  \/ \E t \in OpTemplates : \/ OperatorPodReady(t)
                            \/ OperatorPodRestarts(t)
                            \/ OperatorPodReplaced(t)
  \/ \E s \in Services : \/ Reconcile(s)
                         \/ ServicePodStarts(s)
  \/ \E s \in Services, v \in Versions : \/ ServicePodReady(s, v)
                                         \/ ServicePodRestarts(s, v)
                                         \/ ServicePodReplaced(s, v)

Next ==
  \/ \E v \in Versions : StartUpgrade(v)
  \/ Role
  \/ TaskFails
  \/ Cluster

Spec == Init /\ [][Next]_vars

(* Ansible carries on with the role; Kubernetes keeps starting, probing and  *)
(* replacing pods, and the operator re-queues every service, so a step that  *)
(* a restarting pod disables again and again is still taken in the end.      *)
(* Starting a run, a failing task and a restarting pod are not fair.         *)
Fairness ==
  /\ WF_vars(Role)
  /\ WF_vars(OperatorPodStarts)
  /\ SF_vars(OperatorPodReady(opTemplate))
  /\ SF_vars(\E t \in OpTemplates : OperatorPodReplaced(t))
  /\ SF_vars(\E s \in Services : Reconcile(s))

FairSpec == Spec /\ Fairness

-----------------------------------------------------------------------------

TypeOK ==
  /\ specVersion \in Versions
  /\ opTemplate \in OpTemplates
  /\ opPods \in [OpTemplates -> PodStatus]
  /\ svcTemplate \in [Services -> Versions]
  /\ svcPods \in [Services -> [Versions -> PodStatus]]
  /\ pc \in Tasks
  /\ target \in Versions
  /\ waitIdx \in 1 .. Len(WaitOrder) + 1
  /\ polls \in 0 .. MaxPolls
  /\ outcome \in {"none", "done", "failed"}
  /\ runs \in 0 .. MaxRuns

\* The waiter's grep tells the expected tag from every other one.  It does when
\* no version string in use is a prefix of another.
ExactTags == \A m \in TagMatches : m[1] = m[2]

\* upgrade_oc.yml: "set spec.version only after operator is ready".  Whatever
\* runs fail, time out and are started again, no operator pod that could still
\* reconcile is older than the version it is asked to roll out.
OperatorNotOlder == \A t \in LiveOperators : t.image >= specVersion

\* Once the waiter is through, and until another run starts, every essential
\* service runs the new version and no pod of an older one is left, although
\* the services were looked at one after the other.
WaitedUpgraded ==
  pc \in {"wait_operator_again", "turn_off_clear", "rest"} \/ outcome = "done"
    => \A i \in 1 .. Len(WaitOrder) : LiveVersions(WaitOrder[i]) = {target}

\* The order of the versions as one statement about the cluster: the role and
\* Kubernetes together implement UpgradePromise.
Essential == {WaitOrder[i] : i \in 1 .. Len(WaitOrder)}
OperatorVersions == {t.image : t \in LiveOperators}
Promise == INSTANCE UpgradePromise WITH
  declared <- specVersion,
  operators <- OperatorVersions,
  running <- [s \in Services |-> LiveVersions(s)],
  announced <- outcome = "done"
PromiseKept == Promise!Spec

\* A run ends: the waiter loops for ever, the poll count bounds it.
RunEnds == pc # "idle" ~> pc = "idle"

\* After a run that reported success, unless another one is started, the
\* services nobody waited for are moved too, and the operator pods that clear
\* components are replaced by ones that do not.
Settled == /\ \A s \in Services : svcTemplate[s] = specVersion
           /\ \A t \in LiveOperators : ~t.clear
SuccessSettles ==
  outcome = "done" ~> (Settled \/ outcome # "done")

=============================================================================
