--------------------------- MODULE UpgradePromise ---------------------------
(***************************************************************************)
(* What an upgrade promises, without tasks, waiters or pods: the operators *)
(* that run are never older than the declared version, a service only runs *)
(* versions that were declared, and success is announced only while every  *)
(* essential service runs the declared version and nothing else.           *)
(***************************************************************************)
EXTENDS Naturals, TLAPS

CONSTANTS Services, Essential, Versions

VARIABLES
  declared,   \* the version the cluster is asked to run
  operators,  \* versions of the operators that are up
  running,    \* for each service: the versions it runs
  announced   \* an upgrade to `declared` was reported as finished

vars == <<declared, operators, running, announced>>

Upgraded == \A s \in Essential : running[s] = {declared}

Init ==
  /\ declared \in Versions
  /\ operators = {declared}
  /\ running = [s \in Services |-> {declared}]
  /\ announced = FALSE

OperatorUp(v) ==
  /\ v >= declared
  /\ operators' = operators \union {v}
  /\ UNCHANGED <<declared, running, announced>>

OperatorDown(v) ==
  /\ operators' = operators \ {v}
  /\ UNCHANGED <<declared, running, announced>>

\* A version is declared when every operator that is up has that version.
Declare(v) ==
  /\ v >= declared
  /\ operators \subseteq {v}
  /\ ~announced
  /\ declared' = v
  /\ UNCHANGED <<operators, running, announced>>

\* Rolling a service over: it may start on what is or was declared, and an
\* essential service does not fall back after success was announced.
ServiceUp(s, v) ==
  /\ v <= declared
  /\ announced /\ s \in Essential => v = declared
  /\ running' = [running EXCEPT ![s] = @ \union {v}]
  /\ UNCHANGED <<declared, operators, announced>>

ServiceDown(s, v) ==
  /\ announced => v # declared
  /\ running' = [running EXCEPT ![s] = @ \ {v}]
  /\ UNCHANGED <<declared, operators, announced>>

Announce ==
  /\ Upgraded
  /\ announced' = TRUE
  /\ UNCHANGED <<declared, operators, running>>

\* The next upgrade is under way.
Withdraw ==
  /\ announced' = FALSE
  /\ UNCHANGED <<declared, operators, running>>

Next ==
  \/ \E v \in Versions : OperatorUp(v) \/ OperatorDown(v) \/ Declare(v)
  \/ \E s \in Services, v \in Versions : ServiceUp(s, v) \/ ServiceDown(s, v)
  \/ Announce
  \/ Withdraw

Spec == Init /\ [][Next]_vars

-----------------------------------------------------------------------------

\* What a user reads off the promise: as long as success stands announced, the
\* essential services run the declared version only, and at no time is a
\* running operator behind the version it rolls out.
AnnouncedTrue == announced => Upgraded
OperatorsAhead == \A v \in operators : v >= declared

PromiseInv ==
  /\ declared \in Versions
  /\ operators \subseteq Versions
  /\ running \in [Services -> SUBSET Versions]
  /\ AnnouncedTrue
  /\ OperatorsAhead

\* The promise, for every set of services and versions: AnnouncedTrue and
\* OperatorsAhead hold in every behaviour (roles/upgrade/primary_master_node
\* implements it, see Implementation in OnecloudUpgradeProofs).
THEOREM PromiseMeans ==
  ASSUME Versions \subseteq Nat, Essential \subseteq Services
  PROVE  Spec => [](AnnouncedTrue /\ OperatorsAhead)
<1>1. Init => PromiseInv
  BY DEF Init, PromiseInv, AnnouncedTrue, OperatorsAhead, Upgraded
<1>2. PromiseInv /\ [Next]_vars => PromiseInv'
  <2> SUFFICES ASSUME PromiseInv, [Next]_vars PROVE PromiseInv'
    OBVIOUS
  <2> USE DEF PromiseInv, AnnouncedTrue, OperatorsAhead, Upgraded
  <2>1. ASSUME NEW v \in Versions, OperatorUp(v) PROVE PromiseInv'
    BY <2>1 DEF OperatorUp
  <2>2. ASSUME NEW v \in Versions, OperatorDown(v) PROVE PromiseInv'
    BY <2>2 DEF OperatorDown
  <2>3. ASSUME NEW v \in Versions, Declare(v) PROVE PromiseInv'
    BY <2>3 DEF Declare
  <2>4. ASSUME NEW s \in Services, NEW v \in Versions, ServiceUp(s, v)
        PROVE  PromiseInv'
    BY <2>4 DEF ServiceUp
  <2>5. ASSUME NEW s \in Services, NEW v \in Versions, ServiceDown(s, v)
        PROVE  PromiseInv'
    BY <2>5 DEF ServiceDown
  <2>6. CASE Announce
    BY <2>6 DEF Announce
  <2>7. CASE Withdraw
    BY <2>7 DEF Withdraw
  <2>8. CASE UNCHANGED vars
    BY <2>8 DEF vars
  <2> QED
    BY <2>1, <2>2, <2>3, <2>4, <2>5, <2>6, <2>7, <2>8 DEF Next
<1>3. PromiseInv => AnnouncedTrue /\ OperatorsAhead
  BY DEF PromiseInv
<1> QED
  BY <1>1, <1>2, <1>3, PTL DEF Spec
=============================================================================
