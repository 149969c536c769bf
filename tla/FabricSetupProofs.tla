-------------------------- MODULE FabricSetupProofs --------------------------
(***************************************************************************)
(* PlanRight and TargetsMeshed for every set of nodes, every network (for  *)
(* PlanRight: one that is written with its own address, HostBitsClear) and *)
(* every argument list.  PlanInv says what the loop of build_fabric_nodes  *)
(* has established of the arguments before its position; PlayInv says what *)
(* each task of the play has established of the nodes it has been run on,  *)
(* unless one of them failed.                                              *)
(***************************************************************************)
EXTENDS FabricSetup, TLAPS

\* The lists the loop accepts, whatever address it counts from.
Consistent(c) ==
  /\ \A i \in 1 .. Len(c) : Vip(c[i], i) \in HostAddrs
  /\ \A i, j \in 1 .. Len(c) :
       i # j => c[i].node # c[j].node /\ Vip(c[i], i) # Vip(c[j], j)

\* What the loop knows of the first k arguments c after planning f.
PrefixRight(c, f, k) ==
  /\ \A i \in 1 .. k : /\ Vip(c[i], i) \in HostAddrs
                       /\ f[c[i].node] = Vip(c[i], i)
  /\ \A i, j \in 1 .. k :
       i # j => c[i].node # c[j].node /\ Vip(c[i], i) # Vip(c[j], j)
  /\ \A a \in Nodes : f[a] # NoVip => \E i \in 1 .. k : c[i].node = a

Playing == phase \in {"netdev", "network", "restart"}

PlanInv ==
  /\ pos \in 1 .. Len(specs) + 1
  /\ phase = "planning" => PrefixRight(specs, vips, pos - 1)
  /\ Playing \/ result \in {"failed", "ok"} => PrefixRight(specs, vips, Len(specs))
  /\ phase # "idle" => result = "none"
  /\ result = "refused" => ~Consistent(specs)

MacWritten(a) == files[a].mac = vips[a]
NetworkWritten(a) == files[a].ip = vips[a] /\ files[a].peers = Planned \ {a}

PlayInv ==
  /\ phase = "netdev" => \A a \in Planned \ pending : broken \/ MacWritten(a)
  /\ phase \in {"network", "restart"} \/ result = "ok" =>
       \A a \in Planned : MacWritten(a)
  /\ phase = "network" => \A a \in Planned \ pending : broken \/ NetworkWritten(a)
  /\ phase = "restart" \/ result = "ok" => \A a \in Planned : NetworkWritten(a)
  /\ phase = "restart" => \A a \in Planned \ pending : broken \/ live[a] = files[a]
  /\ result = "ok" => \A a \in Planned : live[a] = files[a]

FabricInv == TypeOK /\ PlanInv /\ PlayInv

-----------------------------------------------------------------------------

\* No host address is taken for "not planned".
LEMMA HostIsPlanned == \A v \in HostAddrs : v \in Int /\ v # NoVip
<1>1. CidrAddr - (CidrAddr % CidrSize) >= 0
  BY SMT, FabricAssumption
<1>2. CidrAddr - (CidrAddr % CidrSize) \in Int
  BY SMT, FabricAssumption
<1> QED
  BY <1>1, <1>2, FabricAssumption DEF HostAddrs, NetworkAddr, NoVip

LEMMA NetworkAddrInt == NetworkAddr \in Int
  BY SMT, FabricAssumption DEF NetworkAddr

LEMMA VipInt ==
  ASSUME NEW s \in Spec1, NEW i \in Nat
  PROVE  Vip(s, i) \in Int
<1>1. CASE s.how = "position"
  BY <1>1, NetworkAddrInt DEF Vip, Spec1
<1>2. CASE s.how = "index"
  BY <1>2, NetworkAddrInt DEF Vip, Spec1
<1>3. CASE s.how = "vip"
  BY <1>3 DEF Vip, Spec1
<1> QED
  BY <1>1, <1>2, <1>3 DEF Spec1

LEMMA InterfaceEdited ==
  ASSUME NEW f \in Interface, NEW v \in Int, NEW p \in SUBSET Nodes
  PROVE  /\ [f EXCEPT !.mac = v] \in Interface
         /\ [f EXCEPT !.ip = v, !.peers = p] \in Interface
  BY DEF Interface

LEMMA SpecTyped ==
  ASSUME NEW c \in Seq(Spec1), NEW i \in 1 .. Len(c)
  PROVE  c[i] \in Spec1 /\ c[i].node \in Nodes /\ Vip(c[i], i) \in Int
<1>1. c[i] \in Spec1
  OBVIOUS
<1>2. c[i].node \in Nodes
  BY <1>1 DEF Spec1
<1>3. Vip(c[i], i) \in Int
  BY <1>1, VipInt
<1> QED
  BY <1>1, <1>2, <1>3

LEMMA FabricInit == Init => FabricInv
<1> SUFFICES ASSUME Init PROVE FabricInv
  OBVIOUS
<1>1. TypeOK
  <2>1. Unconfigured \in Interface /\ NoVip \in Int
    BY DEF Unconfigured, Interface, NoVip
  <2>2. << >> \in Seq(Spec1)
    OBVIOUS
  <2>3. /\ specs \in Seq(Spec1) /\ pos \in Nat /\ phase \in Phases
        /\ pending \subseteq Nodes /\ broken \in BOOLEAN
        /\ result \in {"none", "refused", "failed", "ok"}
    BY <2>2 DEF Init, Phases
  <2>4. /\ vips \in [Nodes -> Int] /\ files \in [Nodes -> Interface]
        /\ live \in [Nodes -> Interface]
    BY <2>1 DEF Init
  <2>5. runs \in 0 .. MaxRuns
    BY FabricAssumption DEF Init
  <2> QED
    BY <2>3, <2>4, <2>5 DEF TypeOK
<1>2. PlanInv
  BY DEF Init, PlanInv, Playing
<1>3. PlayInv
  BY DEF Init, PlayInv
<1> QED
  BY <1>1, <1>2, <1>3 DEF FabricInv

LEMMA TypeStep == TypeOK /\ PlanInv /\ [Next]_vars => TypeOK'
<1> SUFFICES ASSUME TypeOK, PlanInv, [Next]_vars PROVE TypeOK'
  OBVIOUS
<1> USE DEF TypeOK, Phases, planVars, playVars, nodeVars
<1>1. CASE StartCommand
  BY <1>1, FabricAssumption DEF StartCommand, NoVip
<1>2. CASE PlanNode
  <2>1. pos \in 1 .. Len(specs)
    BY <1>2 DEF PlanNode, PlanInv
  <2>2. Vip(specs[pos], pos) \in Int
    BY <2>1, SpecTyped
  <2>3. pos + 1 \in Nat
    OBVIOUS
  <2>4. vips' \in [Nodes -> Int]
    BY <1>2, <2>2 DEF PlanNode
  <2> QED
    BY <1>2, <2>3, <2>4 DEF PlanNode
<1>3. CASE RefuseCommand
  BY <1>3 DEF RefuseCommand
<1>4. CASE StartPlay
  BY <1>4 DEF StartPlay, Planned
<1>5. CASE NextTask
  BY <1>5 DEF NextTask, Planned
<1>6. CASE EndPlay
  BY <1>6 DEF EndPlay
<1>7. ASSUME NEW a \in Nodes, TaskOn(a) PROVE TypeOK'
  <2>1. CASE WriteNetdev(a)
    <3>1. [files[a] EXCEPT !.mac = vips[a]] \in Interface
      <4>1. files[a] \in Interface /\ vips[a] \in Int
        OBVIOUS
      <4> QED
        BY <4>1, InterfaceEdited
    <3>2. files' \in [Nodes -> Interface]
      BY <2>1, <3>1 DEF WriteNetdev
    <3> QED
      BY <1>7, <2>1, <3>2 DEF TaskOn, WriteNetdev
  <2>2. CASE WriteNetwork(a)
    <3>1. [files[a] EXCEPT !.ip = vips[a], !.peers = Peers(a)] \in Interface
      <4>1. files[a] \in Interface /\ vips[a] \in Int /\ Peers(a) \in SUBSET Nodes
        BY DEF Peers, Planned
      <4> QED
        BY <4>1, InterfaceEdited
    <3>2. files' \in [Nodes -> Interface]
      BY <2>2, <3>1 DEF WriteNetwork
    <3> QED
      BY <1>7, <2>2, <3>2 DEF TaskOn, WriteNetwork
  <2>3. CASE Restart(a)
    BY <1>7, <2>3 DEF TaskOn, Restart
  <2> QED
    BY <1>7, <2>1, <2>2, <2>3 DEF TaskOn
<1>8. ASSUME NEW a \in Nodes, TaskFailsOn(a) PROVE TypeOK'
  BY <1>8 DEF TaskFailsOn
<1>9. ASSUME NEW a \in Nodes, Reboot(a) PROVE TypeOK'
  BY <1>9 DEF Reboot
<1>10. CASE UNCHANGED vars
  BY <1>10 DEF vars
<1> QED
  BY <1>1, <1>2, <1>3, <1>4, <1>5, <1>6, <1>7, <1>8, <1>9, <1>10 DEF Next

-----------------------------------------------------------------------------
(* The loop of build_fabric_nodes.                                           *)

LEMMA PlanNodeStep ==
  ASSUME TypeOK, PlanInv, PlanNode
  PROVE  PlanInv'
<1> DEFINE s == specs[pos]
           v == Vip(s, pos)
<1>0. /\ pos \in 1 .. Len(specs) /\ specs \in Seq(Spec1)
      /\ PrefixRight(specs, vips, pos - 1) /\ result = "none"
  BY DEF PlanNode, PlanInv, TypeOK
<1>1. /\ pos \in 1 .. Len(specs) /\ s \in Spec1 /\ s.node \in Nodes /\ v \in Int
      /\ PrefixRight(specs, vips, pos - 1) /\ result = "none"
  BY <1>0, SpecTyped
<1>2. v \in HostAddrs /\ v # NoVip /\ vips[s.node] = NoVip /\ \A a \in Nodes : vips[a] # v
  BY HostIsPlanned DEF PlanNode, Acceptable
<1>3. /\ vips' = [vips EXCEPT ![s.node] = v] /\ specs' = specs /\ pos' = pos + 1
      /\ phase' = phase /\ result' = result /\ phase = "planning"
  BY DEF PlanNode
<1>4. \A i \in 1 .. pos - 1 : /\ i \in 1 .. Len(specs)
                              /\ specs[i] \in Spec1 /\ specs[i].node \in Nodes
                              /\ Vip(specs[i], i) # NoVip
                              /\ vips[specs[i].node] = Vip(specs[i], i)
                              /\ specs[i].node # s.node
                              /\ Vip(specs[i], i) # v
  <2> TAKE i \in 1 .. pos - 1
  <2>1. i \in 1 .. Len(specs)
    BY <1>1
  <2>2. specs[i] \in Spec1 /\ specs[i].node \in Nodes
    BY <1>0, <2>1, SpecTyped
  <2>3. Vip(specs[i], i) \in HostAddrs /\ vips[specs[i].node] = Vip(specs[i], i)
    BY <1>1 DEF PrefixRight
  <2>4. Vip(specs[i], i) # NoVip
    BY <2>3, HostIsPlanned
  <2>5. specs[i].node # s.node
    BY <1>2, <2>3, <2>4
  <2>6. Vip(specs[i], i) # v
    BY <1>2, <2>2, <2>3
  <2> QED
    BY <2>1, <2>2, <2>3, <2>4, <2>5, <2>6
<1> HIDE DEF s, v
<1>5. \A i \in 1 .. pos : i \in 1 .. pos - 1 \/ i = pos
  BY <1>1
<1>6. \A i \in 1 .. pos : /\ Vip(specs[i], i) \in HostAddrs
                          /\ vips'[specs[i].node] = Vip(specs[i], i)
  <2> TAKE i \in 1 .. pos
  <2>1. CASE i = pos
    BY <1>1, <1>2, <1>3, <2>1 DEF s, v, TypeOK
  <2>2. CASE i \in 1 .. pos - 1
    BY <1>1, <1>3, <1>4, <2>2 DEF PrefixRight, TypeOK
  <2> QED
    BY <1>5, <2>1, <2>2
<1>7. \A i, j \in 1 .. pos :
        i # j => specs[i].node # specs[j].node /\ Vip(specs[i], i) # Vip(specs[j], j)
  <2> TAKE i, j \in 1 .. pos
  <2>1. CASE i \in 1 .. pos - 1 /\ j \in 1 .. pos - 1
    BY <1>1, <2>1 DEF PrefixRight
  <2>2. CASE i = pos
    BY <1>4, <1>5, <2>2 DEF s, v
  <2>3. CASE j = pos
    BY <1>4, <1>5, <2>3 DEF s, v
  <2> QED
    BY <1>5, <2>1, <2>2, <2>3
<1>8. \A a \in Nodes : vips'[a] # NoVip => \E i \in 1 .. pos : specs[i].node = a
  <2> TAKE a \in Nodes
  <2>1. CASE a = s.node
    BY <1>1, <2>1 DEF s
  <2>2. CASE a # s.node
    <3>1. vips'[a] = vips[a]
      BY <1>3, <2>2 DEF TypeOK
    <3>2. vips[a] # NoVip => \E i \in 1 .. pos - 1 : specs[i].node = a
      BY <1>1 DEF PrefixRight
    <3>3. \A i \in 1 .. pos - 1 : i \in 1 .. pos
      BY <1>1
    <3> QED
      BY <3>1, <3>2, <3>3
  <2> QED
    BY <2>1, <2>2
<1>9. PrefixRight(specs, vips', pos)
  BY <1>6, <1>7, <1>8 DEF PrefixRight
<1>10. PrefixRight(specs', vips', pos' - 1)
  BY <1>1, <1>3, <1>9
<1> QED
  BY <1>1, <1>3, <1>10 DEF PlanInv, Playing

\* Refusal: an argument that is not acceptable after the ones before it makes
\* the list senseless.
LEMMA RefuseStep ==
  ASSUME TypeOK, PlanInv, RefuseCommand
  PROVE  PlanInv'
<1> DEFINE s == specs[pos]
<1>1. /\ pos \in 1 .. Len(specs) /\ specs \in Seq(Spec1)
      /\ PrefixRight(specs, vips, pos - 1) /\ result = "none"
      /\ ~Acceptable(s, pos) /\ phase = "planning"
  BY DEF RefuseCommand, PlanInv, TypeOK
<1>2. s.node \in Nodes /\ Vip(s, pos) \in Int
  BY <1>1, SpecTyped
<1>3. \A i \in 1 .. pos - 1 : i \in 1 .. Len(specs) /\ i # pos
  BY <1>1
<1> HIDE DEF s
<1>4. ASSUME Consistent(specs) PROVE FALSE
  <2>1. Vip(s, pos) \in HostAddrs
    BY <1>1, <1>4 DEF Consistent, s
  <2>2. CASE vips[s.node] # NoVip
    <3>1. PICK i \in 1 .. pos - 1 : specs[i].node = s.node
      BY <1>1, <1>2, <2>2 DEF PrefixRight
    <3> QED
      BY <1>1, <1>3, <1>4, <3>1 DEF Consistent, s
  <2>3. ASSUME NEW a \in Nodes, vips[a] = Vip(s, pos) PROVE FALSE
    <3>1. vips[a] # NoVip
      BY <2>1, <2>3, HostIsPlanned
    <3>2. PICK i \in 1 .. pos - 1 : specs[i].node = a
      BY <1>1, <3>1 DEF PrefixRight
    <3>3. Vip(specs[i], i) = Vip(s, pos)
      BY <1>1, <2>3, <3>2 DEF PrefixRight
    <3> QED
      BY <1>1, <1>3, <1>4, <3>2, <3>3 DEF Consistent, s
  <2> QED
    BY <1>1, <2>1, <2>2, <2>3 DEF Acceptable
<1>5. specs' = specs /\ pos' = pos /\ phase' = "idle" /\ result' = "refused"
  BY DEF RefuseCommand, planVars
<1>6. ~Consistent(specs')
  BY <1>4, <1>5
<1>7. Consistent(specs)' <=> Consistent(specs')
  BY DEF Consistent, Vip
<1> QED
  BY <1>1, <1>5, <1>6, <1>7 DEF PlanInv, Playing

LEMMA PlanStep == TypeOK /\ PlanInv /\ [Next]_vars => PlanInv'
<1> SUFFICES ASSUME TypeOK, PlanInv, [Next]_vars PROVE PlanInv'
  OBVIOUS
<1>0. ASSUME specs' = specs, vips' = vips
      PROVE  /\ \A k : PrefixRight(specs', vips', k) <=> PrefixRight(specs, vips, k)
             /\ Consistent(specs)' <=> Consistent(specs)
  BY <1>0 DEF Consistent, Vip
<1>1. CASE StartCommand
  <2>1. specs' \in Seq(Spec1) /\ pos' = 1 /\ vips' = [a \in Nodes |-> NoVip]
    BY <1>1, FabricAssumption DEF StartCommand
  <2>2. PrefixRight(specs', vips', pos' - 1)
    BY <2>1 DEF PrefixRight
  <2>3. pos' \in 1 .. Len(specs') + 1
    BY <2>1
  <2> QED
    BY <1>1, <2>2, <2>3 DEF StartCommand, PlanInv, Playing
<1>2. CASE PlanNode
  BY <1>2, PlanNodeStep
<1>3. CASE RefuseCommand
  BY <1>3, RefuseStep
<1>4. CASE StartPlay
  <2>1. pos - 1 = Len(specs)
    BY <1>4 DEF StartPlay, PlanInv, TypeOK
  <2>2. specs' = specs /\ vips' = vips /\ pos' = pos /\ phase' = "netdev" /\ result' = result
    BY <1>4 DEF StartPlay, planVars
  <2> QED
    BY <1>0, <1>4, <2>1, <2>2 DEF PlanInv, StartPlay, Playing
<1>5. CASE NextTask
  BY <1>0, <1>5 DEF NextTask, PlanInv, Playing, planVars
<1>6. CASE EndPlay
  BY <1>0, <1>6 DEF EndPlay, PlanInv, Playing, planVars
<1>7. ASSUME NEW a \in Nodes, TaskOn(a) \/ TaskFailsOn(a) \/ Reboot(a) PROVE PlanInv'
  BY <1>0, <1>7 DEF TaskOn, TaskFailsOn, Reboot, PlanInv, Playing, planVars
<1>8. CASE UNCHANGED vars
  BY <1>0, <1>8 DEF vars, PlanInv, Playing, planVars
<1> QED
  BY <1>1, <1>2, <1>3, <1>4, <1>5, <1>6, <1>7, <1>8 DEF Next

-----------------------------------------------------------------------------
(* The play.                                                                 *)

LEMMA PlayStep == TypeOK /\ PlanInv /\ PlayInv /\ [Next]_vars => PlayInv'
<1> SUFFICES ASSUME TypeOK, PlanInv, PlayInv, [Next]_vars PROVE PlayInv'
  OBVIOUS
<1>0. /\ phase # "idle" => result = "none"
      /\ phase \in Phases
      /\ files \in [Nodes -> Interface] /\ live \in [Nodes -> Interface]
      /\ vips \in [Nodes -> Int]
      /\ Planned \subseteq Nodes
  BY DEF PlanInv, TypeOK, Planned
<1> USE DEF PlayInv, Phases
<1>1. CASE StartCommand
  BY <1>1 DEF StartCommand
<1>2. CASE PlanNode
  BY <1>0, <1>2 DEF PlanNode
<1>3. CASE RefuseCommand
  BY <1>3 DEF RefuseCommand
<1>4. CASE StartPlay
  BY <1>0, <1>4 DEF StartPlay, Planned, planVars
<1>5. CASE NextTask
  BY <1>0, <1>5 DEF NextTask, Planned, MacWritten, NetworkWritten, planVars, nodeVars
<1>6. CASE EndPlay
  BY <1>0, <1>6 DEF EndPlay, Planned, MacWritten, NetworkWritten, planVars, nodeVars
<1>7. ASSUME NEW n \in Nodes, TaskOn(n) PROVE PlayInv'
  <2>1. /\ Planned' = Planned /\ vips' = vips /\ phase' = phase /\ broken' = broken
        /\ result' = result /\ pending' = pending \ {n}
    BY <1>7 DEF TaskOn, Planned, planVars
  <2>2. CASE WriteNetdev(n)
    <3>1. \A a \in Nodes : a # n => files'[a] = files[a]
      BY <1>0, <2>2 DEF WriteNetdev
    <3>2. files'[n].mac = vips[n]
      BY <1>0, <2>2 DEF WriteNetdev, Interface
    <3>3. phase = "netdev" /\ result = "none"
      BY <1>0, <2>2 DEF WriteNetdev
    <3> QED
      BY <1>0, <2>1, <3>1, <3>2, <3>3 DEF MacWritten
  <2>3. CASE WriteNetwork(n)
    <3>1. \A a \in Nodes : a # n => files'[a] = files[a]
      BY <1>0, <2>3 DEF WriteNetwork
    <3>2. /\ files'[n].ip = vips[n] /\ files'[n].peers = Planned \ {n}
          /\ files'[n].mac = files[n].mac
      BY <1>0, <2>3 DEF WriteNetwork, Interface, Peers
    <3>3. phase = "network" /\ result = "none"
      BY <1>0, <2>3 DEF WriteNetwork
    <3> QED
      BY <1>0, <2>1, <3>1, <3>2, <3>3 DEF MacWritten, NetworkWritten
  <2>4. CASE Restart(n)
    <3>1. phase = "restart" /\ result = "none" /\ files' = files
      BY <1>0, <2>4 DEF Restart
    <3>2. live' = [live EXCEPT ![n] = files[n]]
      BY <2>4 DEF Restart
    <3> QED
      BY <1>0, <2>1, <3>1, <3>2 DEF MacWritten, NetworkWritten
  <2> QED
    BY <1>7, <2>2, <2>3, <2>4 DEF TaskOn
<1>8. ASSUME NEW n \in Nodes, TaskFailsOn(n) PROVE PlayInv'
  BY <1>0, <1>8 DEF TaskFailsOn, Planned, MacWritten, NetworkWritten, planVars, nodeVars
<1>9. ASSUME NEW n \in Nodes, Reboot(n) PROVE PlayInv'
  BY <1>0, <1>9 DEF Reboot, Planned, MacWritten, NetworkWritten, planVars, playVars
<1>10. CASE UNCHANGED vars
  BY <1>10 DEF vars, Planned, MacWritten, NetworkWritten, planVars, playVars, nodeVars
<1> QED
  BY <1>1, <1>2, <1>3, <1>4, <1>5, <1>6, <1>7, <1>8, <1>9, <1>10 DEF Next

-----------------------------------------------------------------------------

LEMMA FabricInvariant == Spec => []FabricInv
<1>1. FabricInv /\ [Next]_vars => FabricInv'
  BY TypeStep, PlanStep, PlayStep DEF FabricInv
<1> QED
  BY <1>1, FabricInit, PTL DEF Spec

\* fabric-setup keeps to the states the model declares.
THEOREM FabricTypeCorrect == Spec => []TypeOK
  BY FabricInvariant, PTL DEF FabricInv

\* Without host bits in the cidr, masking them changes nothing.
LEMMA DocumentedIsVip ==
  ASSUME HostBitsClear, NEW spec, NEW i
  PROVE  DocumentedVip(spec, i) = Vip(spec, i)
<1>1. NetworkAddr = CidrAddr
  BY SMT, FabricAssumption DEF HostBitsClear, NetworkAddr
<1> QED
  BY <1>1, Zenon DEF DocumentedVip, Vip

\* build_fabric_nodes accepts exactly the argument lists that make sense, and
\* plans what they are documented to ask for, for every list and every network
\* that is written with its own address.
THEOREM PlanCorrect == ASSUME HostBitsClear PROVE Spec => []PlanRight
<1>0. HostBitsClear
  OBVIOUS
<1>1. FabricInv => PlanRight
  <2> SUFFICES ASSUME FabricInv PROVE PlanRight
    OBVIOUS
  <2>0. \A c : Sensible(c) <=> Consistent(c)
    BY <1>0, DocumentedIsVip DEF Sensible, Consistent
  <2>1. result = "refused" => ~Sensible(specs)
    BY <2>0 DEF FabricInv, PlanInv
  <2>2. ASSUME phase \in {"netdev", "network", "restart"} \/ result \in {"failed", "ok"}
        PROVE  /\ Sensible(specs)
               /\ Planned = {specs[i].node : i \in 1 .. Len(specs)}
               /\ \A i \in 1 .. Len(specs) :
                    vips[specs[i].node] = DocumentedVip(specs[i], i)
    <3>1. PrefixRight(specs, vips, Len(specs))
      BY <2>2 DEF FabricInv, PlanInv, Playing
    <3>2. \A i \in 1 .. Len(specs) : specs[i].node \in Nodes
      BY SpecTyped DEF FabricInv, TypeOK
    <3>3. Consistent(specs)
      BY <3>1 DEF PrefixRight, Consistent
    <3>4. \A i \in 1 .. Len(specs) : vips[specs[i].node] # NoVip
      BY <3>1, HostIsPlanned DEF PrefixRight
    <3>5. Planned = {specs[i].node : i \in 1 .. Len(specs)}
      BY <3>1, <3>2, <3>4 DEF PrefixRight, Planned
    <3>6. \A i \in 1 .. Len(specs) :
            vips[specs[i].node] = DocumentedVip(specs[i], i)
      BY <1>0, <3>1, DocumentedIsVip DEF PrefixRight
    <3> QED
      BY <2>0, <3>3, <3>5, <3>6
  <2> QED
    BY <2>1, <2>2 DEF PlanRight
<1> QED
  BY <1>1, FabricInvariant, PTL

\* After a command that succeeded the targets form a full mesh of distinct
\* addresses, whatever failed before and whoever reboots.
THEOREM SuccessIsMesh == Spec => []TargetsMeshed
<1>1. FabricInv => TargetsMeshed
  <2> SUFFICES ASSUME FabricInv, result = "ok", NEW a \in Planned
               PROVE  /\ live[a] = files[a]
                      /\ live[a].mac = live[a].ip
                      /\ live[a].peers = Planned \ {a}
                      /\ \A b \in Planned \ {a} : live[a].ip # live[b].ip
    BY DEF TargetsMeshed
  <2>1. \A b \in Planned : live[b] = files[b] /\ MacWritten(b) /\ NetworkWritten(b)
    BY DEF FabricInv, PlayInv
  <2>2. PrefixRight(specs, vips, Len(specs))
    BY DEF FabricInv, PlanInv
  <2>3. ASSUME NEW b \in Planned \ {a} PROVE vips[a] # vips[b]
    <3>1. PICK i \in 1 .. Len(specs) : specs[i].node = a
      BY <2>2 DEF PrefixRight, Planned
    <3>2. PICK j \in 1 .. Len(specs) : specs[j].node = b
      BY <2>2 DEF PrefixRight, Planned
    <3>3. i # j
      BY <2>3, <3>1, <3>2
    <3> QED
      BY <2>2, <3>1, <3>2, <3>3 DEF PrefixRight
  <2> QED
    BY <2>1, <2>3 DEF MacWritten, NetworkWritten
<1> QED
  BY <1>1, FabricInvariant, PTL

\* When the restarts of the play begin to change running interfaces, the files
\* of every target have been written.
THEOREM FilesBeforeRestarts == Spec => RestartsLast
<1> DEFINE Ordered == \A a \in Nodes : phase = "restart" /\ live'[a] # live[a] =>
                        \A b \in Planned : files[b].mac = vips[b] /\ files[b].ip = vips[b]
<1>1. FabricInv /\ [Next]_vars => [Ordered]_vars
  BY DEF FabricInv, PlayInv, MacWritten, NetworkWritten, vars
<1> HIDE DEF Ordered
<1>2. Spec => [][Ordered]_vars
  BY <1>1, FabricInvariant, PTL DEF Spec
<1> QED
  BY <1>2 DEF Ordered, RestartsLast
=============================================================================
