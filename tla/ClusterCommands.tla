-------------------------- MODULE ClusterCommands --------------------------
(***************************************************************************)
(* The commands that act on a whole cluster, from the first look at it to  *)
(* the exit status: install, add-node and add-lbagent, the four upgrade    *)
(* commands, the commands that run a role on a list of hosts, and what     *)
(* Ansible makes of their playbooks.  A command reads the cluster once,    *)
(* decides, writes an inventory and variables, and is then a list of plays *)
(* over groups of hosts, any of which may fail.  Commands are started from *)
(* several machines at a time, each with files of its own; what they share *)
(* is the cluster.  Nodes come, leave, and are upgraded meanwhile.         *)
(***************************************************************************)
EXTENDS ClusterConfig

CONSTANTS Nodes,        \* hosts, named by their addresses
          Machines,     \* where ocboot is started
          Majors,       \* major versions, in release order
          Configs,      \* configuration files; install is given one of them
          Rank,         \* kubectl's order of nodes, by name
          Asked,        \* the lists of hosts a command may be given
          Tried,        \* the commands tried with a file, and how many of them
          MaxStamp      \* bound on creation times

VARIABLES config,    \* the configuration file
          members,   \* nodes registered in Kubernetes
          stamp,     \* creationTimestamp of a server, 0 for every other host
          unit,      \* hosts that have a k3s-agent.service
          version,   \* major of spec.version, 0 while there is no OnecloudCluster
          tasks,     \* the majors a host is installed for or was upgraded to
          run,       \* the latest command of each machine
          used,      \* number of commands so far
          unchecked, \* history: nodes of commands that compared no addresses
          leftover,  \* history: hosts that had a unit and were not in the cluster
          behind     \* history: nodes an upgrade may leave behind; see NoneBehind
cluster == <<config, members, stamp, unit, version, tasks>>
history == <<unchecked, leftover, behind>>
vars == <<cluster, run, used, history>>

Servers == {n \in Nodes : stamp[n] > 0}

-----------------------------------------------------------------------------
(* What a command reads of the cluster *)

(* Slip: the first in kubectl's order. *)
FindFirstMasterNode ==
  CHOOSE n \in Servers : \A k \in Servers \ {n} : Rank[n] < Rank[k]

(* The oldest node with the master label, in kubectl's order among equals. *)
FindPrimaryMasterNode ==
  CHOOSE n \in Servers : \A k \in Servers \ {n} :
    \/ stamp[n] < stamp[k]
    \/ stamp[n] = stamp[k] /\ Rank[n] < Rank[k]

(* construct_cluster fails where there is no cluster to read. *)
ReadsCluster == version # 0 /\ Servers # {}

AllGroups == Groups \cup {"nodes"}
NoHosts == [g \in AllGroups |-> {}]
PlaybookInventory(workers) ==
  [NoHosts EXCEPT !["primary_master_node"] = {FindPrimaryMasterNode},
                  !["master_nodes"] = Servers \ {FindPrimaryMasterNode},
                  !["worker_nodes"] = workers]

-----------------------------------------------------------------------------
(* Playbooks: a play is the groups it is for, whether any error in it is   *)
(* fatal, and what it does to a host.  Neighbouring plays that only        *)
(* prepare hosts are one, over the groups of all of them.                  *)

Play(groups, fatal, effect) == [groups |-> groups, fatal |-> fatal, effect |-> effect]

InstallPlaybook ==
  << Play(AllGroups, TRUE, "prepare"),
     Play({"mariadb_node"}, FALSE, "prepare"),
     Play({"mariadb_ha_nodes"}, FALSE, "prepare"),
     Play({"clickhouse_node"}, FALSE, "prepare"),
     Play({"registry_node"}, FALSE, "prepare"),
     Play({"primary_master_node"}, FALSE, "start server"),
     Play({"master_nodes"}, FALSE, "start server"),
     Play({"master_nodes"}, FALSE, "verify servers"),
     Play({"worker_nodes"}, FALSE, "start agent"),
     Play(KubeGroups, FALSE, "prepare"),
     Play({"primary_master_node"}, FALSE, "create cluster"),
     Play({"clickhouse_node"}, FALSE, "prepare"),
     Play(KubeGroups, FALSE, "prepare") >>

AddNodePlaybook ==
  << Play(AllGroups, FALSE, "prepare"), Play({"worker_nodes"}, FALSE, "start agent") >>

(* Slip: any_errors_fatal is lost for the first play. *)
UpgradePlaybookGoesOn ==
  << Play(AllGroups, FALSE, "major tasks"),
     Play({"primary_master_node"}, TRUE, "patch version"),
     Play({"master_nodes"}, TRUE, "prepare"),
     Play({"worker_nodes"}, TRUE, "prepare"),
     Play(KubeGroups, TRUE, "prepare") >>

UpgradePlaybook ==
  << Play(AllGroups, TRUE, "major tasks"),
     Play({"primary_master_node"}, TRUE, "patch version"),
     Play({"master_nodes"}, TRUE, "prepare"),
     Play({"worker_nodes"}, TRUE, "prepare"),
     Play(KubeGroups, TRUE, "prepare") >>

(* The operator and the images of deployments are upgraded, and spec.version *)
(* is left as it is.                                                       *)
ControllerPlaybook ==
  << Play(AllGroups, FALSE, "major tasks"),
     Play({"primary_master_node", "master_nodes"}, FALSE, "prepare") >>

(* Slip: force_upgrade is not set. *)
HostPlaybookUnforced ==
  << Play(AllGroups, FALSE, "major tasks"),
     Play({"worker_nodes"}, FALSE, "prepare") >>

HostPlaybook ==
  << Play(AllGroups, FALSE, "forced major tasks"),
     Play({"worker_nodes"}, FALSE, "prepare") >>

FinalPlaybook ==
  << Play(AllGroups, FALSE, "prepare"),
     Play({"primary_master_node"}, FALSE, "patch version"),
     Play({"master_nodes"}, FALSE, "prepare"),
     Play({"worker_nodes"}, FALSE, "prepare"),
     Play(KubeGroups, FALSE, "prepare") >>

(* Commands that run one role: whether they read the cluster, whether some *)
(* arguments are refused, whether do_action returns the playbook's status. *)
Service(reads, refuses, passes) ==
  [reads |-> reads, refuses |-> refuses, passes |-> passes]

StartStop == Service(FALSE, FALSE, TRUE)
SwitchEdition == Service(TRUE, FALSE, TRUE)
SetCalicoVersion == Service(TRUE, TRUE, TRUE)
ContainerEnv == Service(FALSE, TRUE, TRUE)
AIEnv == Service(FALSE, FALSE, TRUE)
AutoBackup == Service(FALSE, FALSE, FALSE)
Clickhouse == Service(TRUE, FALSE, FALSE)

Services ==
  [startStop |-> StartStop, switchEdition |-> SwitchEdition,
   setCalicoVersion |-> SetCalicoVersion, containerEnv |-> ContainerEnv,
   aiEnv |-> AIEnv, autoBackup |-> AutoBackup, clickhouse |-> Clickhouse]
ServicesPlaybook == << Play(AllGroups, FALSE, "prepare") >>

UpgradeModes == {"upgrade", "controller", "host", "final"}
Kinds == {"install", "addNode"} \cup UpgradeModes \cup DOMAIN Services
Patching == {"upgrade", "final"}
Playbook ==
  [k \in Kinds |->
     IF k = "install" THEN InstallPlaybook
     ELSE IF k = "addNode" THEN AddNodePlaybook
     ELSE IF k = "upgrade" THEN UpgradePlaybook
     ELSE IF k = "controller" THEN ControllerPlaybook
     ELSE IF k = "host" THEN HostPlaybook
     ELSE IF k = "final" THEN FinalPlaybook ELSE ServicesPlaybook]

PassesStatus(kind) == kind \notin DOMAIN Services \/ Services[kind].passes

ASSUME CommandsAssumption ==
  /\ Majors \subseteq Nat \ {0}
  /\ MaxStamp \in Nat
  /\ IsFiniteSet(Nodes)
  /\ Rank \in [Nodes -> Nat]
  /\ \A n, k \in Nodes : Rank[n] = Rank[k] => n = k
  /\ Asked \subseteq SUBSET Nodes
  /\ Tried \in [Configs -> [kinds : SUBSET Kinds, times : Nat]]
  /\ Configs \subseteq Configurations(Nodes)
  /\ \A c \in Configs :
       /\ c.version \in [Groups -> Majors \cup {0}]
       /\ Cardinality(c.hosts["primary_master_node"]) \leq 1

-----------------------------------------------------------------------------
(* What Ansible makes of a playbook *)

HostsOf(r, i) == (UNION {r.hosts[g] : g \in Playbook[r.kind][i].groups}) \ r.lost
Effect(r) == Playbook[r.kind][r.play].effect
Fatal(r) == Playbook[r.kind][r.play].fatal /\ ~r.lenient
Running(m) == run[m].phase = "plays"

(* Of a command that failed only its status is kept. *)
Blank == [kind |-> "startStop", target |-> 0, hosts |-> NoHosts, lenient |-> FALSE,
          major |-> FALSE, checked |-> FALSE, joined |-> {},
          play |-> 1, left |-> {}, lost |-> {}, phase |-> "idle", exit |-> 0]
Exit(status) == [Blank EXCEPT !.phase = "ended", !.exit = status]

(* Slip: the status of the playbook is dropped. *)
EndedUntold(r) == [r EXCEPT !.phase = "ended", !.left = {}]

Ended(r) == IF r.lost # {} /\ PassesStatus(r.kind) THEN Exit(1)
            ELSE [r EXCEPT !.phase = "ended", !.left = {}]

(* Plays for which no host is left are skipped. *)
Goto(r, i) ==
  LET later == {j \in i..Len(Playbook[r.kind]) : HostsOf(r, j) # {}}
  IN  IF later = {} THEN Ended(r)
      ELSE [r EXCEPT !.play = Min(later), !.left = HostsOf(r, Min(later))]

(* After the last host of a play: the next play, unless every host failed. *)
NextPlay(r) == IF HostsOf(r, r.play) = {} THEN Ended(r) ELSE Goto(r, r.play + 1)
(* Slip: the last host of a play that fails does not end it. *)
SettleWaits(r) == r

Settle(r) == IF r.left = {} THEN NextPlay(r) ELSE r

(* A host that failed is out of the later plays as well. *)
Lose(r, failed) ==
  LET rest == [r EXCEPT !.lost = r.lost \cup failed, !.left = r.left \ failed]
  IN  IF failed # {} /\ Fatal(r) THEN Ended(rest) ELSE Settle(rest)

Pass(m, n) ==
  LET r == run[m] IN run' = [run EXCEPT ![m] = Settle([r EXCEPT !.left = r.left \ {n}])]
PassJoined(m, n) ==
  LET r == run[m]
  IN  run' = [run EXCEPT ![m] = Settle([r EXCEPT !.left = r.left \ {n},
                                                 !.joined = r.joined \cup {n}])]
Fails(m, n) == run' = [run EXCEPT ![m] = Lose(@, {n})]
At(m, n, effect) == Running(m) /\ n \in run[m].left /\ Effect(run[m]) = effect

-----------------------------------------------------------------------------
(* Commands, up to the start of their playbook *)

Invoke(m, kind, r) ==
  /\ ~Running(m) /\ used < Tried[config].times /\ kind \in Tried[config].kinds
  /\ used' = used + 1
  /\ run' = [run EXCEPT ![m] = r]
  /\ UNCHANGED <<cluster, history>>

Begin(m, r) == Invoke(m, r.kind, Goto([r EXCEPT !.phase = "plays"], 1))
Refuse(m, kind, status) == Invoke(m, kind, Exit(status))

(* A key that is missing is logged, and do_install returns nothing: status 0. *)
RefuseInstall(m, checks) ==
  \/ LoadConfig(config) = "not found" /\ Refuse(m, "install", 0)
  \/ LoadConfig(config) = "error" /\ Refuse(m, "install", 1)
  \/ /\ LoadConfig(config) = "ok"
     /\ (checks /\ CidrsConflict(config)) \/ GenerateInventory(config) # "ok"
     /\ Refuse(m, "install", 1)

InstallInventory == [g \in AllGroups |-> IF g \in Groups THEN Inventory(config)[g] ELSE {}]

InstallRun(checks) ==
  [Blank EXCEPT !.kind = "install", !.target = OnecloudVersion(config),
                !.hosts = InstallInventory, !.checked = checks]

(* A file whose primary is gone from its cluster is not installed again. *)
StartInstall(m, checks) ==
  /\ LoadConfig(config) = "ok" /\ GenerateInventory(config) = "ok"
  /\ ~checks \/ ~CidrsConflict(config)
  /\ Servers = {} \/ Section(config, "primary_master_node") \subseteq Servers
  /\ Begin(m, InstallRun(checks))

(* Slip: no address is compared with the networks. *)
TakenByName(named, checks) == named \cap members # {}

CheckTargetNodes(named, checks) == checks /\ InNetworks(named, RenderedNetworks(config))

(* Nodes are compared with those the cluster has when it is read. *)
Taken(named, checks) == named \cap members # {} \/ CheckTargetNodes(named, checks)

AddNodeRun(named, checks) ==
  [Blank EXCEPT !.kind = "addNode", !.target = version, !.checked = checks,
                !.hosts = [NoHosts EXCEPT !["worker_nodes"] = named]]

StartAddNode(m, named, checks) ==
  /\ ReadsCluster
  /\ IF Taken(named, checks) THEN Refuse(m, "addNode", 1)
     ELSE Begin(m, AddNodeRun(named, checks))

(* The address type or the runtime cannot be made out of the arguments. *)
RefuseAddNode(m) == ReadsCluster /\ Refuse(m, "addNode", 1)

IsMajorUpgrade(target) == version # target

UpgradedWorkers(kind, named) ==
  IF kind = "controller" THEN {}
  ELSE IF kind = "host" THEN (members \ Servers) \cap named ELSE members \ Servers

UpgradeRun(kind, target, named, lenient) ==
  [Blank EXCEPT !.kind = kind, !.target = target, !.lenient = lenient,
                !.major = IsMajorUpgrade(target),
                !.hosts = PlaybookInventory(UpgradedWorkers(kind, named))]

(* do_upgrade compares nothing: it is the operator who never goes back.    *)
StartUpgrade(m, kind, target, named, lenient) ==
  /\ ReadsCluster /\ target \geq version
  /\ Begin(m, UpgradeRun(kind, target, named, lenient))

(* The host to read the cluster from is an argument: any server will do.   *)
ServiceHosts(kind, named, server) ==
  IF kind = "clickhouse" THEN named \cup {server}
  ELSE IF Services[kind].reads THEN {server} ELSE named

ServiceRun(kind, named, server) ==
  [Blank EXCEPT !.kind = kind,
                !.hosts = [NoHosts EXCEPT !["nodes"] = ServiceHosts(kind, named, server)]]

StartService(m, kind, named, server) ==
  /\ ~Services[kind].reads \/ (ReadsCluster /\ server \in Servers)
  /\ Begin(m, ServiceRun(kind, named, server))

RefuseService(m, kind) == Services[kind].refuses /\ Refuse(m, kind, 1)

-----------------------------------------------------------------------------
(* What a play does to one of its hosts.  A host may fail before or after  *)
(* what the play is for: most plays go on, or wait, once that is done.     *)

Upgrading == {m \in Machines : Running(m) /\ run[m].kind \in Patching}

(* A node that comes while an upgrade is under way, or that was meant for  *)
(* another version than the cluster's, is not in the upgrade's inventory.  *)
Missed(m) == Upgrading # {} \/ (version # 0 /\ run[m].target # version)

Join(m, n) ==
  /\ members' = members \cup {n}
  /\ tasks' = [tasks EXCEPT ![n] = @ \cup {v \in Majors : v \leq run[m].target}]
  /\ behind' = IF Missed(m) THEN behind \cup {n} ELSE behind \ {n}
  /\ unchecked' = IF run[m].checked THEN unchecked ELSE unchecked \cup {n}

(* Plays that leave the cluster as it is are taken in one step. *)
Prepare(m, failed) ==
  /\ Running(m) /\ Effect(run[m]) = "prepare"
  /\ failed \subseteq run[m].left
  /\ run' = [run EXCEPT ![m] = Lose([@ EXCEPT !.left = failed], failed)]
  /\ UNCHANGED <<cluster, used, history>>

Masters == Section(config, "master_nodes")

(* A server that starts after others is registered after them, in the same *)
(* second as the last of them or later.                                    *)
Stamps ==
  IF Servers = {} THEN {1}
  ELSE {s \in (stamp[FindPrimaryMasterNode] + 1)..MaxStamp :
          /\ \A k \in Servers : stamp[k] \leq s
          /\ \E k \in Servers : s \leq stamp[k] + 1}

StartServer(m, n) ==
  /\ At(m, n, "start server")
  /\ n \notin Servers
  /\ \/ n \in Section(config, "primary_master_node")
     \/ Cardinality(Masters) > 1 /\ Servers # {}
  /\ \E s \in Stamps : stamp' = [stamp EXCEPT ![n] = s]
  /\ Join(m, n) /\ (PassJoined(m, n) \/ Fails(m, n))
  /\ UNCHANGED <<config, unit, version, used, leftover>>

ServerRuns(m, n) ==
  /\ At(m, n, "start server") /\ n \in Servers
  /\ PassJoined(m, n)
  /\ UNCHANGED <<cluster, used, history>>

(* With one master, "Start other server" is skipped and nothing is started. *)
ServerSkipped(m, n) ==
  /\ At(m, n, "start server") /\ n \notin Servers
  /\ n \notin Section(config, "primary_master_node") /\ Cardinality(Masters) <= 1
  /\ Pass(m, n)
  /\ UNCHANGED <<cluster, used, history>>

VerifyServers(m, n) ==
  /\ At(m, n, "verify servers")
  /\ Cardinality(Masters) > 1 => Cardinality(Servers) = Cardinality(Masters) + 1
  /\ Pass(m, n)
  /\ UNCHANGED <<cluster, used, history>>

(* The primary of a cluster with one master runs with a token of its own. *)
StartAgent(m, n) ==
  /\ At(m, n, "start agent") /\ n \notin unit
  /\ Servers # {} /\ Cardinality(Masters) # 1
  /\ unit' = unit \cup {n}
  /\ Join(m, n) /\ (PassJoined(m, n) \/ Fails(m, n))
  /\ UNCHANGED <<config, stamp, version, used, leftover>>

(* A unit file is taken for a node that has joined. *)
AgentSkipped(m, n) ==
  /\ At(m, n, "start agent") /\ n \in unit
  /\ IF n \in members THEN PassJoined(m, n) ELSE Pass(m, n)
  /\ UNCHANGED <<cluster, used, history>>

(* k3s-install.sh writes the unit before anything else can fail. *)
AgentFails(m, n) ==
  /\ At(m, n, "start agent") /\ n \notin unit
  /\ unit' = unit \cup {n} /\ leftover' = leftover \cup {n}
  /\ Fails(m, n)
  /\ UNCHANGED <<config, members, stamp, version, tasks, used, unchecked, behind>>

MajorTasks(m, n) ==
  /\ \/ At(m, n, "major tasks") \/ At(m, n, "forced major tasks")
  /\ tasks' = IF run[m].major \/ Effect(run[m]) = "forced major tasks"
              THEN [tasks EXCEPT ![n] = @ \cup {run[m].target}] ELSE tasks
  /\ Pass(m, n)
  /\ UNCHANGED <<config, members, stamp, unit, version, used, history>>

(* The upgrade command goes on only if no host failed; with --allow-errors *)
(* it may declare a version over laggards, and upgrade-final does so over  *)
(* every node that no earlier command has run the tasks on.                *)
Laggards(target) == {n \in members : target \notin tasks[n]}
Strict(r) == r.kind = "upgrade" /\ ~r.lenient

PatchVersion(m, n) ==
  /\ At(m, n, "patch version")
  /\ version' = run[m].target
  /\ behind' = (IF Upgrading = {m} THEN behind \cap Laggards(run[m].target) ELSE behind)
                 \cup (IF Strict(run[m]) THEN {} ELSE Laggards(run[m].target))
  /\ Pass(m, n) \/ Fails(m, n)
  /\ UNCHANGED <<config, members, stamp, unit, tasks, used, unchecked, leftover>>

(* The resource is rendered and applied anew: an install of an old file    *)
(* declares the old version.                                               *)
CreateCluster(m, n) ==
  /\ At(m, n, "create cluster")
  /\ version' = run[m].target
  /\ Pass(m, n) \/ Fails(m, n)
  /\ UNCHANGED <<config, members, stamp, unit, tasks, used, history>>

TaskFails(m, n) ==
  /\ Running(m) /\ n \in run[m].left /\ Effect(run[m]) # "prepare"
  /\ Fails(m, n)
  /\ UNCHANGED <<cluster, used, history>>

Interrupt(m) ==
  /\ Running(m)
  /\ run' = [run EXCEPT ![m] = Exit(1)]
  /\ UNCHANGED <<cluster, used, history>>

(* kubectl delete node, for a node no running command is about; its unit   *)
(* stays unless the host is wiped.                                         *)
RemoveNode(n) ==
  /\ n \in members /\ Servers # {n}
  /\ used < Tried[config].times /\ used' = used + 1
  /\ \A m \in Machines : Running(m) => \A g \in AllGroups : n \notin run[m].hosts[g]
  /\ members' = members \ {n}
  /\ stamp' = [stamp EXCEPT ![n] = 0]
  /\ \/ unit' = unit /\ leftover' = leftover \cup (unit \cap {n})
     \/ unit' = unit \ {n} /\ leftover' = leftover
  /\ UNCHANGED <<config, version, tasks, run, unchecked, behind>>

-----------------------------------------------------------------------------
(* The cluster is still to be installed, or was installed from the file    *)
(* before, which leaves out the files that install nothing.                *)
Untouched ==
  /\ members = {} /\ unit = {} /\ version = 0
  /\ stamp = [n \in Nodes |-> 0]
  /\ tasks = [n \in Nodes |-> {}]

Installed ==
  LET primary == Section(config, "primary_master_node")
      wanted  == UNION {Section(config, g) : g \in KubeGroups}
  IN  /\ LoadConfig(config) = "ok" /\ GenerateInventory(config) = "ok"
      /\ ~CidrsConflict(config) /\ primary # {} /\ Cardinality(Masters) # 1
      /\ members = wanted
      /\ unit = Section(config, "worker_nodes")
      /\ version = OnecloudVersion(config)
      /\ stamp = [n \in Nodes |-> IF n \in primary THEN 1 ELSE IF n \in Masters THEN 2 ELSE 0]
      /\ tasks = [n \in Nodes |-> IF n \in wanted THEN {v \in Majors : v \leq version} ELSE {}]

Init ==
  /\ config \in Configs
  /\ Untouched \/ Installed
  /\ run = [m \in Machines |-> Blank] /\ used = 0
  /\ unchecked = {} /\ leftover = {} /\ behind = {}

Command(m) ==
  \/ \E checks \in BOOLEAN : RefuseInstall(m, checks) \/ StartInstall(m, checks)
  \/ RefuseAddNode(m)
  \/ \E named \in Asked, checks \in BOOLEAN : StartAddNode(m, named, checks)
  \/ \E kind \in UpgradeModes, target \in Majors, named \in Asked, lenient \in BOOLEAN :
       StartUpgrade(m, kind, target, named, lenient)
  \/ \E kind \in DOMAIN Services :
       \/ RefuseService(m, kind)
       \/ \E named \in Asked, server \in Nodes : StartService(m, kind, named, server)

Task(m) ==
  \/ \E failed \in SUBSET run[m].left : Prepare(m, failed)
  \/ \E n \in run[m].left :
       \/ StartServer(m, n) \/ ServerRuns(m, n) \/ ServerSkipped(m, n)
       \/ VerifyServers(m, n)
       \/ StartAgent(m, n) \/ AgentSkipped(m, n) \/ AgentFails(m, n)
       \/ MajorTasks(m, n) \/ PatchVersion(m, n) \/ CreateCluster(m, n)
       \/ TaskFails(m, n)

Next ==
  \/ \E m \in Machines : Command(m) \/ Task(m) \/ Interrupt(m)
  \/ \E n \in Nodes : RemoveNode(n)

Spec == Init /\ [][Next]_vars

-----------------------------------------------------------------------------
(* Properties *)

Runs ==
  [kind : Kinds, target : Majors \cup {0}, hosts : [AllGroups -> SUBSET Nodes],
   lenient : BOOLEAN, major : BOOLEAN, checked : BOOLEAN, joined : SUBSET Nodes,
   play : Nat, left : SUBSET Nodes, lost : SUBSET Nodes,
   phase : {"idle", "plays", "ended"}, exit : {0, 1}]

(* Type invariant.  Servers are nodes, and a command runs as long as there *)
(* is a host in its play that is neither done nor lost: it never waits for *)
(* nothing, and does not go on with a host that failed.                    *)
TypeOK ==
  /\ config \in Configs
  /\ members \subseteq Nodes /\ unit \subseteq Nodes
  /\ stamp \in [Nodes -> Nat]
  /\ version \in Majors \cup {0}
  /\ tasks \in [Nodes -> SUBSET (Majors \cup {0})]
  /\ run \in [Machines -> Runs] /\ used \in Nat
  /\ unchecked \subseteq Nodes /\ leftover \subseteq Nodes /\ behind \subseteq Nodes
  /\ Servers \subseteq members
  /\ \A m \in Machines : LET r == run[m] IN
       IF Running(m) THEN /\ r.play \in DOMAIN Playbook[r.kind] /\ r.left # {}
                          /\ r.left \subseteq HostsOf(r, r.play)
       ELSE r.left = {}

(* A node's major upgrade tasks come before the version: whatever commands *)
(* failed, were repeated or ran at the same time, every node has had the   *)
(* tasks of the version the cluster declares, but for those that joined    *)
(* while an upgrade was under way or for an older version, and those an    *)
(* upgrade without any_errors_fatal was free to leave behind.              *)
NoneBehind == version = 0 \/ \A n \in members \ behind : version \in tasks[n]

(* Exit status 0 of an upgrade means that each of its hosts has had the    *)
(* major tasks of its version.  upgrade and upgrade-controller run them    *)
(* when the version they read is not their target.  upgrade-host must      *)
(* force them: upgrade-final, or an upgrade with --allow-errors, may have  *)
(* declared the version over workers that did not have them, and no other  *)
(* command runs them from then on.                                         *)
SuccessMeansUpgraded ==
  \A m \in Machines : LET r == run[m] IN
    (/\ r.phase = "ended" /\ r.exit = 0
     /\ r.kind = "host" \/ (r.kind \in {"upgrade", "controller"} /\ r.major))
      => \A g \in AllGroups : \A n \in r.hosts[g] : r.target \in tasks[n]

(* Exit status 0 of install and add-node means that each host they were to *)
(* make a node has been in the cluster, unless it had the unit file of an  *)
(* earlier attempt, or would be the only master beside the primary.        *)
Wanted(r) == UNION {r.hosts[g] : g \in KubeGroups}
SuccessMeansJoined ==
  \A m \in Machines : LET r == run[m] IN
    r.kind \in {"install", "addNode"} /\ r.phase = "ended" /\ r.exit = 0
      => Wanted(r) \ r.joined \subseteq
           leftover \cup (IF Cardinality(Masters) = 1 THEN Masters ELSE {})

(* The commands agree on the primary: servers that join, leave, come back  *)
(* or were created in the same second do not move the one that the next    *)
(* find_primary_master_node finds, until that server itself leaves.        *)
SamePrimary ==
  [][Servers # {} /\ FindPrimaryMasterNode \in Servers'
       => FindPrimaryMasterNode' = FindPrimaryMasterNode]_vars

(* No node of the cluster has an address inside the networks its pods and  *)
(* services get, unless the command it came with ignored all checks.       *)
NodesOutsideNetworks == (members \ unchecked) \cap RenderedNetworks(config) = {}

(* README.md: "添加节点使用 add-node 子命令把节点加入到已有集群" (add-node adds    *)
(* nodes to an existing cluster): after an add-node that exits with 0, each *)
(* node it was given has been in the cluster.                              *)
AddNodeAdds ==
  \A m \in Machines : LET r == run[m] IN
    r.kind = "addNode" /\ r.phase = "ended" /\ r.exit = 0 => Wanted(r) \subseteq r.joined
=============================================================================
