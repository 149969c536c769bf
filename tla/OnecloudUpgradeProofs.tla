------------------------ MODULE OnecloudUpgradeProofs ------------------------
(***************************************************************************)
(* Proofs about OnecloudUpgrade for every set of services and releases,    *)
(* every order of waiting and any number of runs, provided the waiter      *)
(* tells the expected tag from the others (ExactTags).                     *)
(***************************************************************************)
EXTENDS OnecloudUpgrade, TLAPS

\* The tasks between the waiter's first return and the patch that follows it
\* leave only operators of the target version.
OperatorMoved ==
  /\ pc \notin {"idle", "turn_on_clear", "patch_operator"} => opTemplate.image = target
  /\ pc \notin {"idle", "turn_on_clear", "patch_operator", "wait_operator"}
       => \A t \in LiveOperators : t.image = target

\* No deployment is ahead of the declared version, no pod of its deployment.
ServicesBehind ==
  \A s \in Services : /\ svcTemplate[s] <= specVersion
                      /\ \A v \in LiveVersions(s) : v <= svcTemplate[s]

\* The services the waiter has passed run the declared version and nothing
\* else; this is what survives while the later ones are looked at.
Through == \/ pc \in {"wait_operator_again", "turn_off_clear", "rest"}
           \/ outcome = "done"
Confirmed ==
  /\ pc = "wait_services" \/ Through => specVersion = target
  /\ \A i \in 1 .. Len(WaitOrder) :
       Through \/ (pc = "wait_services" /\ i < waitIdx)
         => LiveVersions(WaitOrder[i]) = {target}

\* A finished run is not in progress, and nothing asked for is out of date.
RunOrder ==
  /\ outcome = "done" => pc = "idle"
  /\ target >= specVersion
  /\ opTemplate.image >= specVersion

IInv ==
  /\ TypeOK
  /\ OperatorNotOlder
  /\ OperatorMoved
  /\ ServicesBehind
  /\ Confirmed
  /\ RunOrder

-----------------------------------------------------------------------------

LEMMA InitIInv == Init => IInv
<1> USE ConstantsAssumption
<1> SUFFICES ASSUME NEW v \in Versions, Installed(v) PROVE IInv
  BY DEF Init
<1>1. TypeOK
  BY DEF Installed, TypeOK, OpTemplates, PodStatus, Tasks
<1>2. OperatorNotOlder
  BY DEF Installed, OperatorNotOlder, LiveOperators, Live, OpTemplates
<1>3. OperatorMoved
  BY DEF Installed, OperatorMoved
<1>4. ServicesBehind
  <2>1. ASSUME NEW s \in Services
        PROVE  svcTemplate[s] = v /\ \A w \in LiveVersions(s) : w = v
    <3>1. svcPods[s] = [w \in Versions |-> IF w = v THEN "ready" ELSE "none"]
      BY DEF Installed
    <3> QED
      BY <3>1 DEF Installed, LiveVersions, Live
  <2>2. specVersion = v /\ v \in Nat
    BY DEF Installed
  <2> SUFFICES ASSUME NEW s \in Services, NEW w \in LiveVersions(s)
               PROVE  svcTemplate[s] <= specVersion /\ w <= svcTemplate[s]
    <3>1. \A s \in Services : svcTemplate[s] <= specVersion
      <4> TAKE s \in Services
      <4> QED BY <2>1, <2>2
    <3> QED
      BY <3>1 DEF ServicesBehind
  <2> QED
    BY <2>1, <2>2
<1>5. Confirmed
  BY DEF Installed, Confirmed, Through
<1>6. RunOrder
  BY DEF Installed, RunOrder
<1> QED
  BY <1>1, <1>2, <1>3, <1>4, <1>5, <1>6 DEF IInv

\* Types survive every step.
LEMMA TypeStep == TypeOK /\ [Next]_vars => TypeOK'
<1> USE ConstantsAssumption DEF TypeOK, OpTemplates, PodStatus, Tasks
<1> SUFFICES ASSUME TypeOK, [Next]_vars PROVE TypeOK'
  OBVIOUS
<1>1. ASSUME NEW v \in Versions, StartUpgrade(v) PROVE TypeOK'
  BY <1>1 DEF StartUpgrade, clusterVars
<1>2. CASE TurnOnClearComponent
  BY <1>2 DEF TurnOnClearComponent
<1>3. CASE PatchOperator
  BY <1>3 DEF PatchOperator
<1>4. CASE OperatorArrived
  BY <1>4 DEF OperatorArrived, clusterVars
<1>5. CASE PatchSpecVersion
  BY <1>5 DEF PatchSpecVersion
<1>6. CASE ServiceArrived
  BY <1>6 DEF ServiceArrived, clusterVars
<1>7. CASE OperatorArrivedAgain
  BY <1>7 DEF OperatorArrivedAgain, clusterVars
<1>8. CASE TurnOffClearComponent
  BY <1>8 DEF TurnOffClearComponent
<1>9. CASE FinishUpgrade
  BY <1>9 DEF FinishUpgrade, clusterVars
<1>10. CASE PollJob
  BY <1>10 DEF PollJob, clusterVars
<1>11. CASE Abandon
  BY <1>11 DEF Abandon, clusterVars
<1>12. CASE OperatorPodStarts
  BY <1>12 DEF OperatorPodStarts, runVars
<1>13. ASSUME NEW t \in OpTemplates,
              OperatorPodReady(t) \/ OperatorPodRestarts(t) \/ OperatorPodReplaced(t)
       PROVE  TypeOK'
  BY <1>13 DEF OperatorPodReady, OperatorPodRestarts, OperatorPodReplaced, runVars
<1>14. ASSUME NEW s \in Services, Reconcile(s) PROVE TypeOK'
  BY <1>14 DEF Reconcile, runVars
<1>15. ASSUME NEW s \in Services, NEW v \in Versions, NEW status \in PodStatus,
              SetServicePod(s, v, status)
       PROVE  TypeOK'
  BY <1>15 DEF SetServicePod, runVars
<1>16. CASE UNCHANGED vars
  BY <1>16 DEF vars, clusterVars, runVars
<1> QED
  <2>1. ASSUME NEW s \in Services, ServicePodStarts(s) PROVE TypeOK'
    BY <1>15, <2>1 DEF ServicePodStarts
  <2>2. ASSUME NEW s \in Services, NEW v \in Versions,
               \/ ServicePodReady(s, v)
               \/ ServicePodRestarts(s, v)
               \/ ServicePodReplaced(s, v)
        PROVE  TypeOK'
    BY <1>15, <2>2 DEF ServicePodReady, ServicePodRestarts, ServicePodReplaced
  <2> QED
    BY <1>1, <1>2, <1>3, <1>4, <1>5, <1>6, <1>7, <1>8, <1>9, <1>10, <1>11,
       <1>12, <1>13, <1>14, <1>16, <2>1, <2>2
       DEF Next, Role, JobTimesOut, TaskFails, Cluster

-----------------------------------------------------------------------------
(* The tasks of the role: they leave every pod alone.                        *)

LEMMA RoleStep ==
  ASSUME ExactTags, IInv, TypeOK', Role \/ TaskFails \/ (\E v \in Versions : StartUpgrade(v))
  PROVE  IInv'
<1> USE ConstantsAssumption DEF IInv
<1> DEFINE Goal == /\ OperatorNotOlder'
                   /\ OperatorMoved'
                   /\ ServicesBehind'
                   /\ Confirmed'
                   /\ RunOrder'
<1>1. LiveOperators' = LiveOperators /\ \A s \in Services : LiveVersions(s)' = LiveVersions(s)
  BY DEF LiveOperators, LiveVersions, Role, TaskFails, Abandon, StartUpgrade,
         TurnOnClearComponent, PatchOperator, OperatorArrived, PatchSpecVersion,
         ServiceArrived, OperatorArrivedAgain, TurnOffClearComponent,
         FinishUpgrade, PollJob, JobTimesOut, clusterVars
<1>2. \A i \in 1 .. Len(WaitOrder) : WaitOrder[i] \in Services
  OBVIOUS
<1>3. svcTemplate' = svcTemplate
  BY DEF Role, TaskFails, Abandon, StartUpgrade,
         TurnOnClearComponent, PatchOperator, OperatorArrived, PatchSpecVersion,
         ServiceArrived, OperatorArrivedAgain, TurnOffClearComponent,
         FinishUpgrade, PollJob, JobTimesOut, clusterVars
<1> USE <1>1, <1>2, <1>3 DEF OperatorNotOlder, OperatorMoved, ServicesBehind,
        Confirmed, Through, RunOrder
<1>4. ASSUME NEW v \in Versions, StartUpgrade(v) PROVE Goal
  BY <1>4 DEF StartUpgrade, clusterVars
<1>5. CASE TurnOnClearComponent
  BY <1>5 DEF TurnOnClearComponent, TypeOK, OpTemplates
<1>6. CASE PatchOperator
  BY <1>6 DEF PatchOperator, TypeOK, OpTemplates
<1>7. CASE OperatorArrived
  <2>1. \A t \in LiveOperators : t.image = target
    BY <1>7 DEF OperatorArrived, CheckOperator, ExactTags
  <2> QED
    BY <1>7, <2>1 DEF OperatorArrived, clusterVars
<1>8. CASE PatchSpecVersion
  <2>1. /\ specVersion' = target /\ target' = target /\ opTemplate' = opTemplate
        /\ outcome' = outcome /\ pc = "patch_spec" /\ pc' = "wait_services"
        /\ waitIdx' = 1
    BY <1>8 DEF PatchSpecVersion
  <2>2. OperatorNotOlder' /\ OperatorMoved' /\ RunOrder'
    BY <2>1 DEF TypeOK, OpTemplates
  <2>3. ServicesBehind'
    <3>1. ASSUME NEW s \in Services PROVE svcTemplate[s] <= target
      <4>1. svcTemplate[s] \in Nat /\ specVersion \in Nat /\ target \in Nat
        BY DEF TypeOK
      <4> QED
        BY <4>1
    <3> QED
      BY <2>1, <3>1
  <2>4. Confirmed'
    BY <2>1
  <2> QED
    BY <2>2, <2>3, <2>4
<1>9. CASE ServiceArrived
  <2>1. LiveVersions(WaitOrder[waitIdx]) = {target}
    <3> DEFINE s == WaitOrder[waitIdx]
    <3>1. CheckService(s)
      BY <1>9 DEF ServiceArrived
    <3>2. \A v \in LiveVersions(s) : v = target
      BY <3>1 DEF CheckService, ExactTags
    <3> HIDE DEF s
    <3> QED
      BY <3>1, <3>2 DEF CheckService, s
  <2>2. /\ pc = "wait_services" /\ waitIdx' = waitIdx + 1 /\ waitIdx <= Len(WaitOrder)
        /\ pc' = IF waitIdx = Len(WaitOrder) THEN "wait_operator_again" ELSE pc
        /\ UNCHANGED <<specVersion, opTemplate, target, outcome>>
    BY <1>9 DEF ServiceArrived, clusterVars
  <2>3. OperatorNotOlder' /\ OperatorMoved' /\ ServicesBehind' /\ RunOrder'
    BY <2>2
  <2>4. Confirmed'
    <3>1. Len(WaitOrder) \in Nat /\ waitIdx \in Nat
      BY DEF TypeOK
    <3>2. ASSUME NEW i \in 1 .. Len(WaitOrder), i < waitIdx + 1
          PROVE  LiveVersions(WaitOrder[i])' = {target}
      <4>1. CASE i = waitIdx
        BY <2>1, <4>1
      <4>2. CASE i < waitIdx
        BY <2>2, <4>2
      <4> QED
        BY <3>1, <3>2, <4>1, <4>2
    <3>3. specVersion' = target'
      BY <2>2
    <3>4. ASSUME NEW i \in 1 .. Len(WaitOrder),
                 (Through \/ (pc = "wait_services" /\ i < waitIdx))'
          PROVE  i < waitIdx + 1
      BY <2>2, <3>1, <3>4
    <3> QED
      BY <2>2, <3>2, <3>3, <3>4
  <2> QED
    BY <2>3, <2>4
<1>10. CASE OperatorArrivedAgain
  BY <1>10 DEF OperatorArrivedAgain, clusterVars
<1>11. CASE TurnOffClearComponent
  BY <1>11 DEF TurnOffClearComponent, TypeOK, OpTemplates
<1>12. CASE FinishUpgrade
  BY <1>12 DEF FinishUpgrade, clusterVars
<1>13. CASE PollJob
  BY <1>13 DEF PollJob, clusterVars, Polling
<1>14. CASE Abandon
  BY <1>14 DEF Abandon, clusterVars
<1> QED
  BY <1>4, <1>5, <1>6, <1>7, <1>8, <1>9, <1>10, <1>11, <1>12, <1>13, <1>14
     DEF Role, JobTimesOut, TaskFails

-----------------------------------------------------------------------------
(* The cluster: it leaves the run alone.                                     *)

LEMMA OperatorPodsStep ==
  ASSUME IInv, TypeOK',
         \/ OperatorPodStarts
         \/ \E t \in OpTemplates : \/ OperatorPodReady(t)
                                   \/ OperatorPodRestarts(t)
                                   \/ OperatorPodReplaced(t)
  PROVE  IInv'
<1> USE DEF IInv
<1>1. UNCHANGED <<specVersion, opTemplate, svcTemplate, svcPods, runVars>>
  BY DEF OperatorPodStarts, OperatorPodReady, OperatorPodRestarts, OperatorPodReplaced
<1>2. LiveOperators' \subseteq LiveOperators \union {opTemplate}
  BY DEF OperatorPodStarts, OperatorPodReady, OperatorPodRestarts,
         OperatorPodReplaced, LiveOperators, Live, TypeOK
<1>3. \A s \in Services : LiveVersions(s)' = LiveVersions(s)
  BY <1>1 DEF LiveVersions
<1>4. OperatorNotOlder' /\ OperatorMoved'
  BY <1>1, <1>2 DEF OperatorNotOlder, OperatorMoved, RunOrder, runVars
<1>5. ServicesBehind'
  BY <1>1, <1>3 DEF ServicesBehind
<1>6. Confirmed'
  <2>1. \A i \in 1 .. Len(WaitOrder) : WaitOrder[i] \in Services
    BY ConstantsAssumption
  <2> QED
    BY <1>1, <1>3, <2>1 DEF Confirmed, Through, runVars
<1>7. RunOrder'
  BY <1>1 DEF RunOrder, runVars
<1> QED
  BY <1>4, <1>5, <1>6, <1>7

LEMMA ReconcileStep ==
  ASSUME IInv, TypeOK', NEW r \in Services, Reconcile(r)
  PROVE  IInv'
<1> USE DEF IInv
<1>1. /\ UNCHANGED <<specVersion, opTemplate, opPods, svcPods, runVars>>
      /\ svcTemplate' = [svcTemplate EXCEPT ![r] = specVersion]
  BY DEF Reconcile
<1>2. LiveOperators' = LiveOperators /\ \A s \in Services : LiveVersions(s)' = LiveVersions(s)
  BY <1>1 DEF LiveOperators, LiveVersions
<1>3. OperatorNotOlder' /\ OperatorMoved' /\ RunOrder'
  BY <1>1, <1>2 DEF OperatorNotOlder, OperatorMoved, RunOrder, runVars
<1>4. ServicesBehind'
  <2> SUFFICES ASSUME NEW s \in Services
               PROVE  /\ svcTemplate'[s] <= specVersion
                      /\ \A v \in LiveVersions(s) : v <= svcTemplate'[s]
    BY <1>1, <1>2 DEF ServicesBehind
  <2>1. /\ svcTemplate[s] <= specVersion
        /\ \A v \in LiveVersions(s) : v \in Nat /\ v <= svcTemplate[s]
        /\ svcTemplate[s] \in Nat /\ specVersion \in Nat
    BY ConstantsAssumption DEF ServicesBehind, TypeOK, LiveVersions
  <2>2. svcTemplate'[s] = svcTemplate[s] \/ svcTemplate'[s] = specVersion
    BY <1>1 DEF TypeOK
  <2> QED
    BY <2>1, <2>2
<1>5. Confirmed'
  <2>1. \A i \in 1 .. Len(WaitOrder) : WaitOrder[i] \in Services
    BY ConstantsAssumption
  <2> QED
    BY <1>1, <1>2, <2>1 DEF Confirmed, Through, runVars
<1> QED
  BY <1>3, <1>4, <1>5

\* A service's pods come at the version of its template and go at another one.
LEMMA ServicePodsStep ==
  ASSUME IInv, TypeOK', NEW r \in Services,
         \/ ServicePodStarts(r)
         \/ \E v \in Versions : \/ ServicePodReady(r, v)
                                \/ ServicePodRestarts(r, v)
                                \/ ServicePodReplaced(r, v)
  PROVE  IInv'
<1> USE DEF IInv
<1>1. UNCHANGED <<specVersion, opTemplate, opPods, svcTemplate, runVars>>
  BY DEF ServicePodStarts, ServicePodReady, ServicePodRestarts,
         ServicePodReplaced, SetServicePod
<1>2. \A s \in Services : /\ s # r => LiveVersions(s)' = LiveVersions(s)
                          /\ LiveVersions(s)' \subseteq LiveVersions(s) \union {svcTemplate[s]}
                          /\ svcTemplate[s] \in LiveVersions(s) => svcTemplate[s] \in LiveVersions(s)'
  BY DEF ServicePodStarts, ServicePodReady, ServicePodRestarts,
         ServicePodReplaced, SetServicePod, LiveVersions, Live, TypeOK
<1>3. LiveOperators' = LiveOperators
  BY <1>1 DEF LiveOperators
<1>4. OperatorNotOlder' /\ OperatorMoved' /\ RunOrder'
  BY <1>1, <1>3 DEF OperatorNotOlder, OperatorMoved, RunOrder, runVars
<1>5. \A s \in Services : svcTemplate[s] \in Nat /\ specVersion \in Nat
  BY ConstantsAssumption DEF TypeOK
<1>6. ServicesBehind'
  <2> SUFFICES ASSUME NEW s \in Services
               PROVE  /\ svcTemplate[s] <= specVersion
                      /\ \A v \in LiveVersions(s)' : v <= svcTemplate[s]
    BY <1>1 DEF ServicesBehind
  <2>1. svcTemplate[s] <= svcTemplate[s]
    BY <1>5
  <2> QED
    BY <1>2, <2>1 DEF ServicesBehind
\* The only live version of a service the waiter passed is its template's, so
\* no other one can come and that one cannot go.
<1>7. ASSUME NEW s \in Services, LiveVersions(s) = {target}, specVersion = target
      PROVE  LiveVersions(s)' = {target}
  <2>1. svcTemplate[s] <= target /\ target <= svcTemplate[s]
    BY <1>7 DEF ServicesBehind
  <2>2. svcTemplate[s] = target
    BY <1>5, <1>7, <2>1
  <2> QED
    BY <1>2, <1>7, <2>2
<1>8. Confirmed'
  <2>1. \A i \in 1 .. Len(WaitOrder) : WaitOrder[i] \in Services
    BY ConstantsAssumption
  <2>2. pc' = pc /\ outcome' = outcome /\ waitIdx' = waitIdx /\ target' = target
    BY <1>1 DEF runVars
  <2> QED
    BY <1>1, <1>7, <2>1, <2>2 DEF Confirmed, Through
<1> QED
  BY <1>4, <1>6, <1>8

-----------------------------------------------------------------------------

LEMMA NextIInv == ExactTags /\ IInv /\ [Next]_vars => IInv'
<1> SUFFICES ASSUME ExactTags, IInv, [Next]_vars PROVE IInv'
  OBVIOUS
<1>1. TypeOK'
  BY TypeStep DEF IInv
<1>2. CASE Role \/ TaskFails \/ \E v \in Versions : StartUpgrade(v)
  BY <1>1, <1>2, RoleStep
<1>3. CASE Cluster
  <2>1. CASE \/ OperatorPodStarts
             \/ \E t \in OpTemplates : \/ OperatorPodReady(t)
                                       \/ OperatorPodRestarts(t)
                                       \/ OperatorPodReplaced(t)
    BY <1>1, <2>1, OperatorPodsStep
  <2>2. ASSUME NEW s \in Services, Reconcile(s) PROVE IInv'
    BY <1>1, <2>2, ReconcileStep
  <2>3. ASSUME NEW s \in Services,
               \/ ServicePodStarts(s)
               \/ \E v \in Versions : \/ ServicePodReady(s, v)
                                      \/ ServicePodRestarts(s, v)
                                      \/ ServicePodReplaced(s, v)
        PROVE  IInv'
    BY <1>1, <2>3, ServicePodsStep
  <2> QED
    BY <1>3, <2>1, <2>2, <2>3 DEF Cluster
<1>4. CASE UNCHANGED vars
  <2> USE <1>4 DEF vars, clusterVars, runVars
  <2>1. LiveOperators' = LiveOperators /\ \A s \in Services : LiveVersions(s)' = LiveVersions(s)
    BY DEF LiveOperators, LiveVersions
  <2>2. \A i \in 1 .. Len(WaitOrder) : WaitOrder[i] \in Services
    BY ConstantsAssumption
  <2> QED
    BY <1>1, <2>1, <2>2 DEF IInv, OperatorNotOlder, OperatorMoved, ServicesBehind,
                            Confirmed, Through, RunOrder
<1> QED
  BY <1>2, <1>3, <1>4 DEF Next

\* The inductive invariant of the role and the cluster holds throughout, however
\* many runs fail, time out and are started again.
THEOREM Invariance == ASSUME ExactTags PROVE Spec => []IInv
<1>1. ExactTags
  OBVIOUS
<1>2. IInv /\ [Next]_vars => IInv'
  BY <1>1, NextIInv
<1> QED
  BY <1>2, InitIInv, PTL DEF Spec

\* The variables keep their types.
THEOREM TypeCorrect == Spec => []TypeOK
<1>1. Init => TypeOK
  BY InitIInv DEF IInv
<1> QED
  BY <1>1, TypeStep, PTL DEF Spec

\* No operator pod is ever older than the version it is asked to roll out.
THEOREM OperatorFirst == ASSUME ExactTags PROVE Spec => []OperatorNotOlder
<1>1. IInv => OperatorNotOlder
  BY DEF IInv
<1> QED
  BY <1>1, Invariance, PTL

\* What the waiter has passed stays upgraded: success is true when reported.
THEOREM SuccessIsTrue == ASSUME ExactTags PROVE Spec => []WaitedUpgraded
<1>1. IInv => WaitedUpgraded
  BY DEF IInv, Confirmed, Through, WaitedUpgraded
<1> QED
  BY <1>1, Invariance, PTL

-----------------------------------------------------------------------------
(* The refinement of UpgradePromise.                                         *)

Running == [s \in Services |-> LiveVersions(s)]

LEMMA PromiseInit == Init => Promise!Init
<1> SUFFICES ASSUME NEW v \in Versions, Installed(v) PROVE Promise!Init
  BY DEF Init
<1>1. LiveOperators = {opTemplate} /\ opTemplate.image = v
  <2>1. opTemplate \in OpTemplates /\ opTemplate.image = v
    BY DEF Installed, OpTemplates
  <2>2. opPods = [t \in OpTemplates |-> IF t = opTemplate THEN "ready" ELSE "none"]
    BY DEF Installed
  <2> QED
    BY <2>1, <2>2 DEF LiveOperators, Live
<1>2. OperatorVersions = {v}
  BY <1>1 DEF OperatorVersions
<1>3. ASSUME NEW s \in Services PROVE LiveVersions(s) = {v}
  <2>1. svcPods[s] = [w \in Versions |-> IF w = v THEN "ready" ELSE "none"]
    BY DEF Installed
  <2> QED
    BY <2>1 DEF LiveVersions, Live
<1>4. specVersion = v /\ outcome = "none"
  BY DEF Installed
<1> QED
  BY <1>2, <1>3, <1>4 DEF Promise!Init

\* The tasks of the role change the promise only by patching the version, by
\* finishing and by starting over.
LEMMA PromiseRole ==
  ASSUME IInv, Role \/ TaskFails \/ (\E v \in Versions : StartUpgrade(v))
  PROVE  [Promise!Next]_(Promise!vars)
<1>1. /\ OperatorVersions' = OperatorVersions
      /\ Running' = Running
  BY DEF OperatorVersions, Running, LiveOperators, LiveVersions, Role, TaskFails,
         Abandon, StartUpgrade, TurnOnClearComponent, PatchOperator,
         OperatorArrived, PatchSpecVersion, ServiceArrived, OperatorArrivedAgain,
         TurnOffClearComponent, FinishUpgrade, PollJob, JobTimesOut, clusterVars
<1>2. CASE PatchSpecVersion
  <2>1. /\ specVersion' = target /\ pc = "patch_spec" /\ outcome' = outcome
        /\ target \in Versions /\ target >= specVersion
        /\ outcome # "done"
    BY <1>2 DEF PatchSpecVersion, IInv, TypeOK, RunOrder
  <2>2. OperatorVersions \subseteq {target}
    BY <2>1 DEF IInv, OperatorMoved, OperatorVersions
  <2>3. Promise!Declare(target)
    BY <1>1, <2>1, <2>2 DEF Promise!Declare, Running
  <2> QED
    BY <2>1, <2>3 DEF Promise!Next
<1>3. CASE FinishUpgrade
  <2>1. /\ specVersion' = specVersion /\ outcome' = "done" /\ Through
    BY <1>3 DEF FinishUpgrade, clusterVars, Through
  <2>2. ASSUME NEW s \in Essential PROVE s \in Services /\ LiveVersions(s) = {specVersion}
    BY <2>1, ConstantsAssumption DEF IInv, Confirmed, Essential
  <2>3. Promise!Upgraded
    BY <2>2 DEF Promise!Upgraded
  <2>4. Promise!Announce
    BY <1>1, <2>1, <2>3 DEF Promise!Announce, Running
  <2> QED
    BY <2>4 DEF Promise!Next
<1>4. ASSUME specVersion' = specVersion, outcome' # "done"
      PROVE  Promise!Withdraw
  BY <1>1, <1>4 DEF Promise!Withdraw, Running
<1>5. CASE Abandon \/ \E v \in Versions : StartUpgrade(v)
  <2>1. specVersion' = specVersion /\ outcome' # "done"
    BY <1>5 DEF Abandon, StartUpgrade, clusterVars
  <2> QED
    BY <1>4, <2>1 DEF Promise!Next
<1>6. ASSUME specVersion' = specVersion, outcome' = outcome
      PROVE  UNCHANGED Promise!vars
  BY <1>1, <1>6 DEF Promise!vars, Running
<1>7. CASE \/ TurnOnClearComponent \/ PatchOperator \/ OperatorArrived
           \/ ServiceArrived \/ OperatorArrivedAgain \/ TurnOffClearComponent
           \/ PollJob
  <2>1. specVersion' = specVersion /\ outcome' = outcome
    BY <1>7 DEF TurnOnClearComponent, PatchOperator, OperatorArrived,
                ServiceArrived, OperatorArrivedAgain, TurnOffClearComponent,
                PollJob, clusterVars
  <2> QED
    BY <1>6, <2>1
<1> QED
  BY <1>2, <1>3, <1>5, <1>7 DEF Role, JobTimesOut, TaskFails

LEMMA PromiseOperatorPods ==
  ASSUME IInv,
         \/ OperatorPodStarts
         \/ \E t \in OpTemplates : \/ OperatorPodReady(t)
                                   \/ OperatorPodRestarts(t)
                                   \/ OperatorPodReplaced(t)
  PROVE  [Promise!Next]_(Promise!vars)
<1>1. /\ specVersion' = specVersion /\ outcome' = outcome
      /\ svcPods' = svcPods
  BY DEF OperatorPodStarts, OperatorPodReady, OperatorPodRestarts,
         OperatorPodReplaced, runVars
<1>2. Running' = Running
  BY <1>1 DEF Running, LiveVersions
<1>3. CASE OperatorPodStarts
  <2>1. LiveOperators' = LiveOperators \union {opTemplate}
    BY <1>3 DEF OperatorPodStarts, LiveOperators, Live, IInv, TypeOK
  <2>2. OperatorVersions' = OperatorVersions \union {opTemplate.image}
    BY <2>1 DEF OperatorVersions
  <2>3. opTemplate.image \in Versions /\ opTemplate.image >= specVersion
    BY DEF IInv, TypeOK, RunOrder, OpTemplates
  <2>4. Promise!OperatorUp(opTemplate.image)
    BY <1>1, <1>2, <2>2, <2>3 DEF Promise!OperatorUp, Running
  <2> QED
    BY <2>3, <2>4 DEF Promise!Next
<1>4. ASSUME NEW t \in OpTemplates, OperatorPodReady(t) \/ OperatorPodRestarts(t)
      PROVE  UNCHANGED Promise!vars
  <2>1. LiveOperators' = LiveOperators
    BY <1>4 DEF OperatorPodReady, OperatorPodRestarts, LiveOperators, Live, IInv, TypeOK
  <2>2. OperatorVersions' = OperatorVersions
    BY <2>1 DEF OperatorVersions
  <2> QED
    BY <1>1, <1>2, <2>2 DEF Promise!vars, Running
<1>5. ASSUME NEW t \in OpTemplates, OperatorPodReplaced(t)
      PROVE  [Promise!Next]_(Promise!vars)
  <2>1. LiveOperators' = LiveOperators \ {t}
    BY <1>5 DEF OperatorPodReplaced, LiveOperators, Live, IInv, TypeOK
  <2>2. OperatorVersions' = OperatorVersions \/ OperatorVersions' = OperatorVersions \ {t.image}
    BY <2>1 DEF OperatorVersions
  <2>3. CASE OperatorVersions' = OperatorVersions
    BY <1>1, <1>2, <2>3 DEF Promise!vars, Running
  <2>4. CASE OperatorVersions' = OperatorVersions \ {t.image}
    <3>1. Promise!OperatorDown(t.image)
      BY <1>1, <1>2, <2>4 DEF Promise!OperatorDown, Running
    <3>2. t.image \in Versions
      BY DEF OpTemplates
    <3> QED
      BY <3>1, <3>2 DEF Promise!Next
  <2> QED
    BY <2>2, <2>3, <2>4
<1> QED
  BY <1>3, <1>4, <1>5

LEMMA PromiseServices ==
  ASSUME IInv, NEW r \in Services,
         \/ Reconcile(r)
         \/ ServicePodStarts(r)
         \/ \E v \in Versions : \/ ServicePodReady(r, v)
                                \/ ServicePodRestarts(r, v)
                                \/ ServicePodReplaced(r, v)
  PROVE  [Promise!Next]_(Promise!vars)
<1>1. /\ specVersion' = specVersion /\ outcome' = outcome
      /\ opPods' = opPods
  BY DEF Reconcile, ServicePodStarts, ServicePodReady, ServicePodRestarts,
         ServicePodReplaced, SetServicePod, runVars
<1>2. OperatorVersions' = OperatorVersions
  BY <1>1 DEF OperatorVersions, LiveOperators
<1>3. ASSUME \/ Reconcile(r)
             \/ \E v \in Versions : ServicePodReady(r, v) \/ ServicePodRestarts(r, v)
      PROVE  UNCHANGED Promise!vars
  <2>1. ASSUME NEW s \in Services PROVE LiveVersions(s)' = LiveVersions(s)
    BY <1>3 DEF Reconcile, ServicePodReady, ServicePodRestarts, SetServicePod,
                LiveVersions, Live, IInv, TypeOK
  <2>2. Running' = Running
    BY <2>1 DEF Running
  <2> QED
    BY <1>1, <1>2, <2>2 DEF Promise!vars, Running
<1>4. \A s \in Services : svcTemplate[s] <= specVersion /\ svcTemplate[s] \in Versions
  BY DEF IInv, ServicesBehind, TypeOK
<1>5. specVersion \in Nat /\ \A s \in Services : svcTemplate[s] \in Nat
  BY ConstantsAssumption DEF IInv, TypeOK
<1>6. CASE ServicePodStarts(r)
  <2> DEFINE w == svcTemplate[r]
  <2>1. ASSUME NEW s \in Services
        PROVE  LiveVersions(s)' = IF s = r THEN LiveVersions(s) \union {w} ELSE LiveVersions(s)
    BY <1>4, <1>6 DEF ServicePodStarts, SetServicePod, LiveVersions, Live, IInv, TypeOK
  <2>2. Running' = [Running EXCEPT ![r] = Running[r] \union {w}]
    BY <2>1 DEF Running
  <2>3. outcome = "done" /\ r \in Essential => w = specVersion
    <3> SUFFICES ASSUME outcome = "done", r \in Essential PROVE w = specVersion
      OBVIOUS
    <3>1. LiveVersions(r) = {specVersion}
      BY DEF IInv, Confirmed, Through, Essential
    <3>2. specVersion <= w
      BY <3>1 DEF IInv, ServicesBehind
    <3> QED
      BY <1>4, <1>5, <3>2
  <2>4. Promise!ServiceUp(r, w)
    BY <1>1, <1>2, <1>4, <2>2, <2>3 DEF Promise!ServiceUp, Running
  <2> QED
    BY <1>4, <2>4 DEF Promise!Next
<1>7. ASSUME NEW v \in Versions, ServicePodReplaced(r, v)
      PROVE  [Promise!Next]_(Promise!vars)
  <2>1. ASSUME NEW s \in Services
        PROVE  LiveVersions(s)' = IF s = r THEN LiveVersions(s) \ {v} ELSE LiveVersions(s)
    BY <1>7 DEF ServicePodReplaced, SetServicePod, LiveVersions, Live, IInv, TypeOK
  <2>2. Running' = [Running EXCEPT ![r] = Running[r] \ {v}]
    BY <2>1 DEF Running
  <2>3. v # specVersion
    <3>1. v \in LiveVersions(r) /\ v # svcTemplate[r]
      BY <1>7 DEF ServicePodReplaced, LiveVersions, Live
    <3>2. v <= svcTemplate[r]
      BY <3>1 DEF IInv, ServicesBehind
    <3>3. v \in Nat
      BY ConstantsAssumption
    <3> QED
      BY <1>4, <1>5, <3>1, <3>2, <3>3
  <2>4. Promise!ServiceDown(r, v)
    BY <1>1, <1>2, <2>2, <2>3 DEF Promise!ServiceDown, Running
  <2> QED
    BY <2>4 DEF Promise!Next
<1> QED
  BY <1>3, <1>6, <1>7

LEMMA PromiseStep == IInv /\ [Next]_vars => [Promise!Next]_(Promise!vars)
<1> SUFFICES ASSUME IInv, [Next]_vars PROVE [Promise!Next]_(Promise!vars)
  OBVIOUS
<1>1. CASE Role \/ TaskFails \/ \E v \in Versions : StartUpgrade(v)
  BY <1>1, PromiseRole
<1>2. CASE Cluster
  <2>1. CASE \/ OperatorPodStarts
             \/ \E t \in OpTemplates : \/ OperatorPodReady(t)
                                       \/ OperatorPodRestarts(t)
                                       \/ OperatorPodReplaced(t)
    BY <2>1, PromiseOperatorPods
  <2>2. ASSUME NEW s \in Services,
               \/ Reconcile(s)
               \/ ServicePodStarts(s)
               \/ \E v \in Versions : \/ ServicePodReady(s, v)
                                      \/ ServicePodRestarts(s, v)
                                      \/ ServicePodReplaced(s, v)
        PROVE  [Promise!Next]_(Promise!vars)
    BY <2>2, PromiseServices
  <2> QED
    BY <1>2, <2>1, <2>2 DEF Cluster
<1>3. CASE UNCHANGED vars
  BY <1>3 DEF vars, clusterVars, runVars, Promise!vars, OperatorVersions,
              LiveOperators, LiveVersions
<1> QED
  BY <1>1, <1>2, <1>3 DEF Next

\* The role and the cluster implement UpgradePromise.
THEOREM Implementation == ASSUME ExactTags PROVE Spec => PromiseKept
<1> QED
  BY PromiseInit, PromiseStep, Invariance, PTL DEF Spec, PromiseKept, Promise!Spec

-----------------------------------------------------------------------------
(* Why a run ends: the steps it can still take, were nothing to fail.        *)

PollsLeft == MaxPolls - polls
ServicesLeft == Len(WaitOrder) + 1 - waitIdx
StepsLeft ==
  CASE pc = "idle" -> 0
    [] pc = "rest" -> 1
    [] pc = "turn_off_clear" -> 2
    [] pc = "wait_operator_again" -> 3 + PollsLeft
    [] pc = "wait_services" -> 4 + PollsLeft + ServicesLeft
    [] pc = "patch_spec" -> 5 + MaxPolls + Len(WaitOrder)
    [] pc = "wait_operator" -> 6 + MaxPolls + Len(WaitOrder) + PollsLeft
    [] pc = "patch_operator" -> 7 + 2 * MaxPolls + Len(WaitOrder)
    [] pc = "turn_on_clear" -> 8 + 2 * MaxPolls + Len(WaitOrder)

\* A run that is under way has a step left for its end, and each step is one of the
\* cluster, which leaves the run as it is, or one that brings the end nearer.
RunsDown ==
  /\ StepsLeft \in Nat /\ (StepsLeft = 0 <=> pc = "idle")
  /\ pc # "idle" => StepsLeft' < StepsLeft \/ UNCHANGED runVars

LEMMA Counts ==
  ASSUME TypeOK
  PROVE  /\ MaxPolls \in Nat /\ Len(WaitOrder) \in Nat
         /\ PollsLeft \in 0..MaxPolls /\ ServicesLeft \in 0..Len(WaitOrder)
         /\ pc \in Tasks
<1>1. MaxPolls \in Nat /\ Len(WaitOrder) \in Nat
  BY ConstantsAssumption
<1>2. polls \in 0..MaxPolls /\ waitIdx \in 1..Len(WaitOrder) + 1 /\ pc \in Tasks
  BY DEF TypeOK
<1> QED
  BY <1>1, <1>2 DEF PollsLeft, ServicesLeft

LEMMA StepsAreLeft == TypeOK => StepsLeft \in Nat /\ (StepsLeft = 0 <=> pc = "idle")
<1> SUFFICES ASSUME TypeOK PROVE StepsLeft \in Nat /\ (StepsLeft = 0 <=> pc = "idle")
  OBVIOUS
<1>1. /\ MaxPolls \in Nat /\ Len(WaitOrder) \in Nat
      /\ PollsLeft \in Nat /\ ServicesLeft \in Nat
  BY Counts
<1>2. CASE pc = "idle"
  BY <1>2 DEF StepsLeft
<1>3. CASE pc \in {"rest", "turn_off_clear"}
  BY <1>3 DEF StepsLeft
<1>4. CASE pc = "wait_operator_again"
  <2>1. StepsLeft = 3 + PollsLeft
    BY <1>4 DEF StepsLeft
  <2> QED
    BY <1>1, <1>4, <2>1
<1>5. CASE pc = "wait_services"
  <2>1. StepsLeft = 4 + PollsLeft + ServicesLeft
    BY <1>5 DEF StepsLeft
  <2> QED
    BY <1>1, <1>5, <2>1
<1>6. CASE pc = "patch_spec"
  <2>1. StepsLeft = 5 + MaxPolls + Len(WaitOrder)
    BY <1>6 DEF StepsLeft
  <2> QED
    BY <1>1, <1>6, <2>1
<1>7. CASE pc = "wait_operator"
  <2>1. StepsLeft = 6 + MaxPolls + Len(WaitOrder) + PollsLeft
    BY <1>7 DEF StepsLeft
  <2> QED
    BY <1>1, <1>7, <2>1
<1>8. CASE pc = "patch_operator"
  <2>1. StepsLeft = 7 + 2 * MaxPolls + Len(WaitOrder)
    BY <1>8 DEF StepsLeft
  <2> QED
    BY <1>1, <1>8, <2>1
<1>9. CASE pc = "turn_on_clear"
  <2>1. StepsLeft = 8 + 2 * MaxPolls + Len(WaitOrder)
    BY <1>9 DEF StepsLeft
  <2> QED
    BY <1>1, <1>9, <2>1
<1> QED
  BY <1>2, <1>3, <1>4, <1>5, <1>6, <1>7, <1>8, <1>9 DEF TypeOK, Tasks

LEMMA RoleRunsDown ==
  ASSUME TypeOK, TypeOK', Role \/ TaskFails
  PROVE  StepsLeft' < StepsLeft
<1>1. /\ MaxPolls \in Nat /\ Len(WaitOrder) \in Nat
      /\ PollsLeft \in 0..MaxPolls /\ ServicesLeft \in 0..Len(WaitOrder)
  BY Counts
<1>2. CASE TurnOnClearComponent
  BY <1>1, <1>2 DEF TurnOnClearComponent, StepsLeft
<1>3. CASE PatchOperator
  <2>1. PollsLeft' = MaxPolls
    BY <1>1, <1>3 DEF PatchOperator, PollsLeft
  <2> QED
    BY <1>1, <1>3, <2>1 DEF PatchOperator, StepsLeft
<1>4. CASE OperatorArrived
  BY <1>1, <1>4 DEF OperatorArrived, StepsLeft
<1>5. CASE PatchSpecVersion
  <2>1. PollsLeft' = MaxPolls /\ ServicesLeft' = Len(WaitOrder)
    BY <1>1, <1>5 DEF PatchSpecVersion, PollsLeft, ServicesLeft
  <2> QED
    BY <1>1, <1>5, <2>1 DEF PatchSpecVersion, StepsLeft
<1>6. CASE ServiceArrived
  <2>1. PollsLeft' = PollsLeft /\ ServicesLeft' = ServicesLeft - 1
    BY <1>1, <1>6 DEF ServiceArrived, PollsLeft, ServicesLeft, TypeOK
  <2>2. pc = "wait_services" /\ pc' \in {"wait_services", "wait_operator_again"}
    BY <1>6 DEF ServiceArrived
  <2> QED
    BY <1>1, <2>1, <2>2 DEF StepsLeft
<1>7. CASE OperatorArrivedAgain
  BY <1>1, <1>7 DEF OperatorArrivedAgain, StepsLeft
<1>8. CASE TurnOffClearComponent
  BY <1>8 DEF TurnOffClearComponent, StepsLeft
<1>9. CASE FinishUpgrade
  BY <1>9 DEF FinishUpgrade, StepsLeft
<1>10. CASE PollJob
  <2>1. PollsLeft' = PollsLeft - 1 /\ ServicesLeft' = ServicesLeft
    BY <1>1, <1>10 DEF PollJob, PollsLeft, ServicesLeft, TypeOK
  <2>2. pc \in {"wait_operator", "wait_services", "wait_operator_again"} /\ pc' = pc
    BY <1>10 DEF PollJob, Polling
  <2> QED
    BY <1>1, <2>1, <2>2 DEF StepsLeft
<1>11. CASE JobTimesOut \/ TaskFails
  <2>1. pc # "idle" /\ pc' = "idle"
    BY <1>11 DEF JobTimesOut, TaskFails, Polling, Abandon
  <2>2. StepsLeft' = 0
    BY <2>1 DEF StepsLeft
  <2>3. StepsLeft \in Nat /\ StepsLeft # 0
    BY <2>1, StepsAreLeft
  <2> QED
    BY <2>2, <2>3
<1> QED
  BY <1>2, <1>3, <1>4, <1>5, <1>6, <1>7, <1>8, <1>9, <1>10, <1>11 DEF Role

\* However the cluster behaves, a run cannot go on for ever: its waiter loops, but
\* the retries of async_status are counted.  With fair steps of the role this is RunEnds.
THEOREM EveryRunRunsDown == Spec => [][RunsDown]_vars
<1>1. TypeOK /\ TypeOK' /\ [Next]_vars => [RunsDown]_vars
  <2> SUFFICES ASSUME TypeOK, TypeOK', Next PROVE RunsDown
    OBVIOUS
  <2>1. StepsLeft \in Nat /\ (StepsLeft = 0 <=> pc = "idle")
    BY StepsAreLeft
  <2>2. CASE Role \/ TaskFails
    BY <2>1, <2>2, RoleRunsDown DEF RunsDown
  <2>3. CASE \E v \in Versions : StartUpgrade(v)
    BY <2>1, <2>3 DEF StartUpgrade, RunsDown
  <2>4. CASE Cluster
    <3>1. UNCHANGED runVars
      BY <2>4 DEF Cluster, OperatorPodStarts, OperatorPodReady, OperatorPodRestarts,
         OperatorPodReplaced, Reconcile, ServicePodStarts, ServicePodReady,
         ServicePodRestarts, ServicePodReplaced, SetServicePod
    <3> QED
      BY <2>1, <3>1 DEF RunsDown
  <2> QED
    BY <2>2, <2>3, <2>4 DEF Next
<1> QED
  BY <1>1, TypeCorrect, PTL DEF Spec

=============================================================================
