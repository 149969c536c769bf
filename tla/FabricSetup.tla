------------------------------ MODULE FabricSetup ------------------------------
(***************************************************************************)
(* `ocboot fabric-setup`: give every target node a virtual address in the  *)
(* fabric network, then configure a VXLAN interface on all of them with    *)
(* every other target as a peer.                                           *)
(*                                                                         *)
(* build_fabric_nodes plans the addresses one argument at a time and       *)
(* refuses the whole command at the first bad one.  The role               *)
(* utils/fabric-setup then writes two files on each node, the .netdev with *)
(* the MAC address made from the VIP and the .network with the VIP and the *)
(* peers, and restarts systemd-networkd, which reads both.  The play sets  *)
(* any_errors_fatal: a task is run on all nodes, and one failure ends the  *)
(* play before the next task.                                              *)
(*                                                                         *)
(* Addresses are numbers; a MAC is named by the VIP it is made from.       *)
(***************************************************************************)
EXTENDS Integers, Sequences

CONSTANTS
  Nodes,     \* underlay addresses
  CidrAddr,  \* the address written in --fabric-cidr
  CidrSize,  \* the number of addresses its prefix length leaves
  Commands,  \* argument lists an administrator may give
  MaxRuns    \* bound: how often the command is run

Spec1 == [node : Nodes, how : {"position", "index", "vip"}, n : Int]

ASSUME FabricAssumption ==
  /\ CidrAddr \in Nat
  /\ CidrSize \in Nat /\ CidrSize > 2
  /\ Commands \subseteq Seq(Spec1)
  /\ MaxRuns \in Nat

VARIABLES
  specs,   \* node_specs of the current or last command
  pos,     \* loop position of build_fabric_nodes
  vips,    \* fabric_nodes: planned VIP of each node, or NoVip
  phase,   \* what the command is doing
  pending, \* nodes the current task of the play has not been run on
  broken,  \* a node failed in the current task
  files,   \* per node: what the two files under /etc/systemd/network hold
  live,    \* per node: what systemd-networkd was last started with
  result,  \* of the last command: "none", "refused", "failed" or "ok"
  runs

planVars == <<specs, pos, vips>>
playVars == <<pending, broken>>
nodeVars == <<files, live>>
vars == <<planVars, phase, playVars, nodeVars, result, runs>>

NoVip == -1
Phases == {"idle", "planning", "netdev", "network", "restart"}

\* ip_network(cidr, strict=False) clears the host bits.
NetworkAddr == CidrAddr - (CidrAddr % CidrSize)
HostAddrs == NetworkAddr + 1 .. NetworkAddr + CidrSize - 2

Unconfigured == [mac |-> NoVip, ip |-> NoVip, peers |-> {}]
Interface == [mac : Int, ip : Int, peers : SUBSET Nodes]

Planned == {a \in Nodes : vips[a] # NoVip}

Init ==
  /\ specs = << >>
  /\ pos = 1
  /\ vips = [a \in Nodes |-> NoVip]
  /\ phase = "idle"
  /\ pending = {}
  /\ broken = FALSE
  /\ files = [a \in Nodes |-> Unconfigured]
  /\ live = [a \in Nodes |-> Unconfigured]
  /\ result = "none"
  /\ runs = 0

-----------------------------------------------------------------------------
(* The plan.                                                                 *)

\* The VIP an argument asks for at position i of the list.
Vip(spec, i) ==
  CASE spec.how = "position" -> NetworkAddr + i
    [] spec.how = "index"    -> NetworkAddr + spec.n
    [] spec.how = "vip"      -> spec.n

StartCommand ==
  /\ phase = "idle"
  /\ runs < MaxRuns
  /\ \E c \in Commands : c # << >> /\ specs' = c
  /\ pos' = 1
  /\ vips' = [a \in Nodes |-> NoVip]
  /\ phase' = "planning"
  /\ result' = "none"
  /\ runs' = runs + 1
  /\ UNCHANGED <<playVars, nodeVars>>

\* Slip: used_vips is not consulted.
AcceptableUnchecked(spec, i) == vips[spec.node] = NoVip /\ Vip(spec, i) \in HostAddrs

Acceptable(spec, i) ==
  /\ vips[spec.node] = NoVip
  /\ Vip(spec, i) \in HostAddrs
  /\ \A a \in Nodes : vips[a] # Vip(spec, i)

PlanNode ==
  /\ phase = "planning"
  /\ pos <= Len(specs)
  /\ Acceptable(specs[pos], pos)
  /\ vips' = [vips EXCEPT ![specs[pos].node] = Vip(specs[pos], pos)]
  /\ pos' = pos + 1
  /\ UNCHANGED <<specs, phase, playVars, nodeVars, result, runs>>

RefuseCommand ==
  /\ phase = "planning"
  /\ pos <= Len(specs)
  /\ ~Acceptable(specs[pos], pos)
  /\ phase' = "idle"
  /\ result' = "refused"
  /\ UNCHANGED <<planVars, playVars, nodeVars, runs>>

\* Slip: the play runs on list positions instead of nodes.
StartPlayOnPositions ==
  /\ phase = "planning" /\ pos > Len(specs)
  /\ phase' = "netdev" /\ pending' = 1 .. Len(specs) /\ broken' = FALSE
  /\ UNCHANGED <<planVars, nodeVars, result, runs>>

StartPlay ==
  /\ phase = "planning"
  /\ pos > Len(specs)
  /\ phase' = "netdev"
  /\ pending' = Planned
  /\ broken' = FALSE
  /\ UNCHANGED <<planVars, nodeVars, result, runs>>

-----------------------------------------------------------------------------
(* The play.                                                                 *)

Peers(a) == Planned \ {a}

WriteNetdev(a) ==
  /\ phase = "netdev"
  /\ files' = [files EXCEPT ![a].mac = vips[a]]
  /\ UNCHANGED live

\* Slip: the peers of the nodes configured so far.
WriteNetworkEarly(a) ==
  /\ phase = "network"
  /\ files' = [files EXCEPT ![a].ip = vips[a], ![a].peers = Peers(a) \ pending]
  /\ UNCHANGED live

WriteNetwork(a) ==
  /\ phase = "network"
  /\ files' = [files EXCEPT ![a].ip = vips[a], ![a].peers = Peers(a)]
  /\ UNCHANGED live

Restart(a) ==
  /\ phase = "restart"
  /\ live' = [live EXCEPT ![a] = files[a]]
  /\ UNCHANGED files

TaskOn(a) ==
  /\ a \in pending
  /\ WriteNetdev(a) \/ WriteNetwork(a) \/ Restart(a)
  /\ pending' = pending \ {a}
  /\ UNCHANGED <<planVars, phase, broken, result, runs>>

\* The node is unreachable, or its task fails.
TaskFailsOn(a) ==
  /\ a \in pending
  /\ pending' = pending \ {a}
  /\ broken' = TRUE
  /\ UNCHANGED <<planVars, phase, nodeVars, result, runs>>

\* Slip: the play goes on with the nodes that are left.
NextTaskAnyway ==
  /\ phase \in {"netdev", "network"} /\ pending = {}
  /\ phase' = IF phase = "netdev" THEN "network" ELSE "restart"
  /\ pending' = Planned /\ broken' = FALSE
  /\ UNCHANGED <<planVars, nodeVars, result, runs>>

NextTask ==
  /\ phase \in {"netdev", "network"}
  /\ pending = {} /\ ~broken
  /\ phase' = IF phase = "netdev" THEN "network" ELSE "restart"
  /\ pending' = Planned
  /\ UNCHANGED <<planVars, broken, nodeVars, result, runs>>

EndPlay ==
  /\ phase \in {"netdev", "network", "restart"}
  /\ pending = {}
  /\ broken \/ phase = "restart"
  /\ phase' = "idle"
  /\ result' = IF broken THEN "failed" ELSE "ok"
  /\ UNCHANGED <<planVars, playVars, nodeVars, runs>>

\* A node boots: systemd-networkd reads the files as they are.
Reboot(a) ==
  /\ live' = [live EXCEPT ![a] = files[a]]
  /\ UNCHANGED <<planVars, phase, playVars, files, result, runs>>

Next ==
  \/ StartCommand
  \/ PlanNode
  \/ RefuseCommand
  \/ StartPlay
  \/ NextTask
  \/ EndPlay
  \/ \E a \in Nodes : TaskOn(a) \/ TaskFailsOn(a) \/ Reboot(a)

Spec == Init /\ [][Next]_vars

-----------------------------------------------------------------------------

TypeOK ==
  /\ specs \in Seq(Spec1)
  /\ pos \in Nat
  /\ vips \in [Nodes -> Int]
  /\ phase \in Phases
  /\ pending \subseteq Nodes
  /\ broken \in BOOLEAN
  /\ files \in [Nodes -> Interface]
  /\ live \in [Nodes -> Interface]
  /\ result \in {"none", "refused", "failed", "ok"}
  /\ runs \in 0 .. MaxRuns

\* The VIP of an argument as the docstrings have it: "VIP =
\* address-part-of(fabric_cidr) + index", the "base address from cidr literal".
DocumentedVip(spec, i) ==
  CASE spec.how = "position" -> CidrAddr + i
    [] spec.how = "index"    -> CidrAddr + spec.n
    [] spec.how = "vip"      -> spec.n

\* --fabric-cidr is written with the address of its network.  Otherwise VIPs are
\* counted from another address than the documented one, and PlanRight fails.
HostBitsClear == CidrAddr % CidrSize = 0

\* Which argument lists make sense, said without a loop: no node twice, every
\* VIP a host address of the network, no VIP twice.
Sensible(c) ==
  /\ \A i \in 1 .. Len(c) : DocumentedVip(c[i], i) \in HostAddrs
  /\ \A i, j \in 1 .. Len(c) :
       i # j => /\ c[i].node # c[j].node
                /\ DocumentedVip(c[i], i) # DocumentedVip(c[j], j)

\* build_fabric_nodes accepts exactly the sensible lists, and gives every node
\* the VIP its argument is documented to ask for, provided that HostBitsClear.
PlanRight ==
  /\ result = "refused" => ~Sensible(specs)
  /\ phase \in {"netdev", "network", "restart"} \/ result \in {"failed", "ok"}
       => /\ Sensible(specs)
          /\ Planned = {specs[i].node : i \in 1 .. Len(specs)}
          /\ \A i \in 1 .. Len(specs) :
               vips[specs[i].node] = DocumentedVip(specs[i], i)

\* "setup full-mesh VXLAN fabric overlay on target nodes": after a command that
\* succeeded, and over reboots, the targets have addresses and MACs of their
\* own that go together, and each of them has all the others as peers,
\* whatever earlier commands left half done.
TargetsMeshed ==
  result = "ok" =>
    \A a \in Planned :
      /\ live[a] = files[a]
      /\ live[a].mac = live[a].ip
      /\ live[a].peers = Planned \ {a}
      /\ \A b \in Planned \ {a} : live[a].ip # live[b].ip

\* A failing command has not touched a running interface of a node unless the
\* files of every target were written first.
RestartsLast ==
  [][\A a \in Nodes : phase = "restart" /\ live'[a] # live[a] =>
       \A b \in Planned : files[b].mac = vips[b] /\ files[b].ip = vips[b]]_vars

=============================================================================
