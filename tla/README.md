# ocboot in TLA+

ocboot installs, upgrades and maintains Cloudpods clusters. It is a command
line front end that writes an Ansible inventory and runs a playbook; the work is
done by roles on the cluster's hosts, by shell scripts those roles leave there,
and by Kubernetes or Docker once they have been told what to run. There is
little computation in it. What is hard is that every run acts on machines that
go on changing, can fail in the middle, is not rolled back, and will be started
again. The models are about that.

Everything is parameterised; TLC checks small instances (the `.cfg` files) and
TLAPS proves the main safety properties for all values of the constants (the
`*Proofs` modules).

## Inventory

| part | where | state | operations | what makes it correct |
|---|---|---|---|---|
| upgrade of operator and services | `onecloud/roles/upgrade/primary_master_node`, `utils/onecloud-waiter`, `lib/upgrade.py` | OnecloudCluster `spec.version`, operator deployment (image, `-clear-component`), service deployments, pods | patch, wait, poll, time out, run again | operator before services, a finished wait is true, a run ends, `-clear-component` goes off again |
| database backup | `utils/auto-backup-services/files/db_backup.sh` | dumps and archives in one directory | dump, pack, rotate; started by cron and by hand | the newest backups survive, no more than `--max-backups` stay |
| fabric overlay | `lib/fabric_setup.py`, `utils/fabric-setup` | two files and an interface per node | plan, write, restart; reboot | distinct addresses in the network, full mesh after success |
| compose stack | `lib/compose`, `generate-compose.py` | containers and what their one-shots wrote | generate; `docker compose up`, crash, restart | the start order that follows from the conditions, no impossible condition |
| commands and playbook runner | `ocboot.py`, `lib/cmd.py`, `lib/service.py`, `lib/add_node.py`, `lib/install.py`, `lib/upgrade.py`, the playbooks | what a command read of the cluster, its inventory, its playbook, exit status | read, check, write inventory, run playbook; several machines at a time | exit status tells the outcome; a failed upgrade can be repeated; a node that joins is outside the pod networks |
| installer front end | `run.py` | the configuration file, passwords, the decision to install | generate, update, check deployed, install | a repeated run keeps the database password and the cluster's identity |
| cluster configuration, inventory | `lib/ocboot.py`, `lib/cluster.py`, `lib/ansible.py` | groups of hosts, variables | load, check CIDRs, generate; list nodes for an upgrade | each host in the group its role needs; all commands take the same node for the primary |
| k3s | `onecloud/roles/k3s`, `roles/worker-node`, `lib/k3s.py` | servers, agents, unit files | first server, further servers, agents | success means that the node has joined |
| MariaDB, MariaDB HA | `roles/mariadb`, `roles/mariadb-ha` | replication, keepalived VIP | install, fail over | one writer |
| EIP HA | `roles/utils/eip-ha` | keepalived state, routes | become master or backup | at most one gateway per address |
| edition switch, calico version | `roles/switch-edition`, `set-calico-version` | resource annotations, images | patch under a running operator | as for the upgrade |
| backup and restore commands | `lib/backup.py`, `lib/restore.py`, `lib/db.py` | backup directory, database, restored configuration | back up, load dump, write configuration, install | a restore that reports success has the data and a configuration that opens it; nothing of the lost cluster stays in use |
| controllable upgrade | `roles/upgrade/controllable` | images of agents | patch, wait for pods | as for the upgrade |
| node preparation, registry, ClickHouse, GPU | `roles/common`, ... | packages, kernel, services of a host | idempotent tasks | nothing beyond the task itself |
| API client, charts, vendored k3s installer, dashboards | | | | not part of the control flow above |

The parts call one another in one direction: command, playbook, role, script.
They meet again in shared state: the cluster's resources (operator and role), the
backup directory (runs of the script), the files under `/etc/systemd/network`
(commands and reboots), the depends_on graph (generator and Docker), the list of
nodes (commands of several machines), the configuration file (installer, restore).

## Modules

    UpgradePromise    <--implements--  OnecloudUpgrade  <-- MCOnecloudUpgrade, OnecloudUpgradeProofs
    DbBackup          <-- DbBackupProofs
    FabricSetup       <-- MCFabricSetup, FabricSetupProofs
    InstallConfig     <-- MCInstallConfig, InstallConfigProofs
    ComposeStart, ComposeManifest  <-- MCComposeStart;   ComposeStart <-- ComposeStartProofs
    ClusterConfig  <-- ClusterCommands  <-- MCClusterCommands, ClusterCommandsProofs
    ClusterConfig  <-- RestoreCluster   <-- MCRestoreCluster, RestoreClusterProofs

`ClusterConfig` is the configuration file as two parts of the system see it: the
commands install from it, restore rewrites it and a cluster is installed from
the result.

Operators named in a comment that begins with "Slip" are plausible mistakes in the
definition that follows them. Nothing uses them; substituting one for that
definition must break the property PROJECT.json names with it.

### OnecloudUpgrade

The tasks of `upgrade/primary_master_node` in the order of its `main.yml`, one
action each (`pc` is the next task), the waiter script they start in the
background, the polls of `async_status`, and the cluster: a deployment that
replaces pods, an operator that moves services to `spec.version`. Versions are
numbers in release order.

* `kubectl rollout status` has no effect in the model: its exit status is ignored
  by a script without `set -e`, so a run must be right when it returns at once.
* The waiter's `check_svc` is one step; between two services, and between two
  polls, anything may happen. Pods in `Terminating` count as gone, as the
  script's `grep -v Terminating` has it.
* `grep -Fq ":$EXPECT_VERSION"` is the relation `TagMatches`. `ExactTags` says
  that it is equality, which is so when no tag in use is a prefix of another.
* The rollout restart after the patch of `spec.version` replaces the operator's pod by one of
  the same template: `OperatorPodRestarts`.
* The background job of a run that was given up only waits; it patches nothing
  after its wait, so nothing of it needs to be kept. A patch that fails inside
  the script is noticed, if at all, as a wait that does not end: `JobTimesOut`.
* `StartUpgrade` takes versions not below the declared one: downgrades are not an
  operation of the program.
* Left out: the hyper-image patch of offline enterprise upgrades, copies of the
  resources kept for an administrator, `patch-for-autoupdate.sh`, and the include of
  `controllerble.yml`, a file that does not exist. The plays after this role are one step.

`UpgradePromise` is the same as a user sees it: declared version, versions of
the operators, versions each service runs, and whether success was announced.
OnecloudUpgrade implements it under the mapping at its end.

### DbBackup

One `db_backup.sh` per time stamp. The directory holds dumps
(`<stamp>/onecloud.sql.<stamp>.gz`) and archives
(`onecloud.bkup.<stamp>.tar.gz`); `find -name "onecloud*.gz" | sort --reverse | tail` sees both, archives
before dumps because of their path. Every step of `rotate_bkups` is an action; files are deleted one
at a time. `overlap`, chosen once, says whether somebody starts the script by
hand beside cron. `RunFails` is `set -e`, the disk check and a kill; `TarFails` is the one
failure `set -e` does not see, because tar is left of `&&`. Configuration
dumps of Kubernetes and etcd are part of `init`: rotation does not match them.

### FabricSetup

`Vip`, `Acceptable` and `PlanNode` are the loop of `build_fabric_nodes`;
`WriteNetdev`, `WriteNetwork` and `Restart` the tasks that change a node.
Ansible runs a task on all hosts of the play before the next one, and
`any_errors_fatal` ends the play after a task that failed on one host
(`NextTask`, `EndPlay`). An address is a number; a MAC is the address it is made
from, since `fabric_mac_from_ip` puts all four octets into it. `Vip` counts from the network address, as the code
does; `DocumentedVip` from the address in `--fabric-cidr`, as its docstrings say; `PlanRight` is stated with the second.

### ComposeStart and ComposeManifest

`ComposeStart` takes a manifest as data: for each component the arguments of its
constructor and what its class overrides (`Declaration`). `InitNeeds`,
`RunNeeds` and `PostInitNeeds` derive the conditions the way
`ClusterCommonService` and `ComposeServiceInitService` do; the rest is
what docker compose and Docker make of them, modelled from their documented
behaviour and external to the repository. `ComposeManifest` is the data of the
two manifests. A condition on a service that is `unhealthy` ends `up` with an
error, as does one on a failed one-shot; a repeated `up` visits every container
again and starts those that do not run.

### InstallConfig

`run.py` from the command line to the end of the playbook, any number of times on
one machine. `file["current"]` is `config-allinone-current.yml`, `file["own"]` a
configuration file given as argument. `StartRun` is `main` up to the choice
between reuse, rebuild and update; `UpdateConfig`, `PatchVersion`,
`PatchHostagent` and `Rebuild` are the functions of those names, each of which
reads and rewrites the whole file; `KilledWriting` is a signal between `open('w')`, which
truncates, and the write. A playbook is two steps, the database with its password and the
cluster resource the probe looks for. A configuration keeps one setting of each
kind: taken over by every path (product, version), patched (`networks`), only ever
set by a rebuild (`containerd`), and kept for ever (`password`). A password is a number; two
draws differ. Whether MariaDB still accepts the role's login when the password
is another depends on its version, so that both outcomes are in the model.
One invocation runs at a time.

### ClusterConfig

No state: operators on a configuration, the classes of `lib/ocboot.py`. A
configuration is a record of what its decisions depend on: which sections there
are and which hosts they name, keys that are missing or wrong, versions,
addresses, networks, the database. `LoadConfig` keeps
the order in which sections are loaded, because a missing key
(`ConfigNotFoundException`) and any other error end `install` with different exit
statuses and the first one met decides. `GenerateInventory` has the two ways in which a file
that loads has no inventory. `NodeAddresses`, `NetworkCidrs` and
`RenderedNetworks` are three readings of the same file, one by the check, one by
the check and one by the k3s server.

### ClusterCommands

A command is a record `run[m]`: what it read of the cluster (the hosts of each
group, whether the upgrade is a major one), how far its playbook is (`play`, the hosts
that have still to do it, the hosts it has lost), and in the end its exit status.
`Command` is everything up to the start of `ansible-playbook`, in one step: it only
reads the cluster, over one SSH session. `Task` is one host in one play.

* A playbook is a sequence of plays: groups, `any_errors_fatal`, and what the play
  does to a host of the things the properties are about. Plays that do nothing to
  those are `"prepare"`; neighbouring ones are one, over the groups of all, and a host
  may fail in it.
* A host that fails is left out of later plays (`Lose`); a play whose last host fails
  ends the playbook (`NextPlay`); plays without hosts are skipped (`Goto`); a fatal
  play ends it at the first failure, unless `--allow-errors` has stripped the
  keyword (`lenient`). A host may fail before what its play is for (`TaskFails`, `AgentFails`) or
  after it (`Fails`): a server or agent that has joined, a `spec.version` that was patched and whose waiter
  then gives up.
* `spec.version` is patched by `upgrade` and `upgrade-final` only (`"patch version"`). `upgrade-controller` updates the
  operator with `--operator-only` and sets images of single deployments; nothing a property speaks of, so that
  its second play is `"prepare"`.
* `FindPrimaryMasterNode` sorts by creation time, which has whole seconds; Python's sort is
  stable, so the order of `kubectl get nodes` decides among equals (`Rank`).
* `StartServer`, `ServerSkipped` and `VerifyServers` are the k3s server role with
  its conditions on the number of masters; `StartAgent`, `AgentSkipped` and
  `AgentFails` the worker role, which takes a unit file for a node that has joined.
* The commands that run one role on a list of hosts (start, stop, switch-edition,
  set-calico-version, container and AI environment, auto-backup, clickhouse) differ in
  whether they read the cluster, refuse arguments and return the playbook's
  status: `Services`. What their roles do is no state of this module.
* `RemoveNode` is `kubectl delete node`, with or without wiping the host, of a node that no
  running command is about; `Interrupt` is a kill of the command. A playbook that
  goes on behind a killed command is not modelled.
* Taken as the operator's part: an upgrade names a version not below the declared one
  (`do_upgrade` compares nothing), and a file is installed again only while its primary is
  in the cluster.
* Machines have inventories and variables of their own. On one machine these files have fixed
  names (`/tmp/test-hosts.ini`, `./oc_vars.yml`, `./host_inventory.yml`,
  `upgrade-cluster-allow-errors.yml`), so that a machine runs one command at a time here.
* `unchecked`, `leftover` and `behind` are history: nodes that came with `IGNORE_ALL_CHECKS`, hosts
  whose unit outlived their membership, and nodes an upgrade is free to leave behind (they joined
  while one was under way or for another version, or it ran without
  `any_errors_fatal`). The properties speak of all other nodes.

### RestoreCluster

`backup` is `BackupConfig`, `BackupDb` and the end of the pipeline `DumpEnds`;
`restore` is `EnsureDbConfig`, `Grant`, `SourceDbFiles` and `WriteConfig`. Pipelines run under
`os.system`, so `DumpEnds(good)` and `SourceDbFiles(good)` differ in what is in the file or database
and not in what happens next. `Aborted` is an exception or a kill anywhere, also between
the truncation of `config.yml` and its writing. `Grant` logs in without a password, which a
server that has one may refuse. `RestoreConfig` rewrites the configuration field by field, `OldSections`
are those it keeps. `Install` is the `install` command on the result, in one step, with the
`mariadb` role's handling of root's password. Data are generations the running cluster advances
(`Write`). One backup or restore runs at a time.

## Runs

| run | asks | bounds |
|---|---|---|
| `upgrade` | is an operator ever behind `spec.version`, is a finished wait true, does the role implement the promise, does every run end, does success settle | two services waited for and one not, two releases, two runs, one poll per job |
| `upgrade_candidate` | the waiter's tag check when an installed tag extends the expected one | finding |
| `backup` | what does rotation delete and leave | three runs, one backup kept, with and without overlap |
| `backup_restorable` | does `--max-backups` keep restorable backups | finding |
| `fabric` | which argument lists are refused, is a success a mesh, when are interfaces restarted | three nodes, a network of eight addresses written with its own address, two of fifteen commands in a row |
| `compose_faults` | the start order, is `up` ever stuck, its end under faults; are the conditions of the real manifests possible | mysql, etcd, keystone, region, scheduler, climc; two faults; for the conditions all 24 components |
| `install` | is the database met with its password, does the playbook get the options | two versions, products AI and CMP, two addresses and an own file, two passwords; any number of invocations |
| `install_runtime` | does the playbook get the runtime of the command line, and no other | finding |
| `commands` | can a failed upgrade be repeated, what does exit status 0 mean, who is the primary, are node addresses outside the pod networks | five hosts, two machines, two majors, ten files; two commands, three for the two files with a worker |
| `addnode_retry` | does add-node add nodes | finding |
| `restore` | is a restore complete, what does the restored cluster use | two files, four command lines, two generations of data; any number of commands |
| `restore_nodes` | are the hosts of the restored cluster those of the command line | finding |

Why the bounds are enough. Upgrade: two releases have every order of old and new pods; the theorems
cover a third release met by the pods of all before it. Two services are what "one after the other"
needs; a second poll would repeat the first. Backup: with one file kept, three runs suffice for a
rotation to list while another packs and a third deletes; no action compares more than two runs.
Fabric: a third node is needed to tell a mesh from a chain, a second command for what the first one
left. Compose: the six components have every kind of condition, with an unprobed service, one without
keystone of its own and one without a post-init. The conditions of all 24 are
ranked by the round in which a container can first start (`NoImpossibleCondition`); that such a ranking is all an
`up` needs in order not to be stuck is a theorem (`UpGoesOn`), so that the whole need not be run. Install: a command line has at most one of the options `--host-networks`,
`--offline-data-path` and `--force` (the theorems cover every combination); a second password is
drawn only after the file was lost; invocations are not bounded.

Commands: the interesting sequences are an upgrade or add-node that fails and its repetition (two
commands), hosts upgraded, the version declared, the hosts that were left out upgraded later (three), and two commands that overlap (two
machines; they are interchangeable, hence the symmetry). The number of commands is `times` in
`MCTried`, removals included; `MaxStamp` bounds creation times, enough for each server to come after
the ones before it. HA clusters, a worker with and without dual-stack networks, a primary alone, and six files
that are refused or install less than they name, are different files; each is tried with the kinds
of command that its hosts can tell apart, and the primary alone with all thirteen. Restore: the second
generation tells a stale dump from a fresh one; commands are not bounded.

`CHECK_DEADLOCK FALSE` stands where the bounded number of runs or commands is used up and the system
really stops (backup, fabric, commands).

Findings, each a run that TLC must find violated:

* `upgrade_candidate`: the waiter says it wants pods whose "images contain this
  tag" (wait-onecloud-services.sh.j2:17-18); line 91 accepts any longer tag.
  From `v3.11.9-rc1` to `v3.11.9` the old pods pass, and success is reported over them.
* `backup_restorable`: `--max-backups` is "how many backups to keep"
  (lib/parser.py:134); a truncated archive from a failing tar counts as one, so
  a disk that fills up at each tar ends with no backup that can be restored. The
  property is stated for runs that do not overlap; with overlap an archive that
  is still being packed counts just the same.
* `install_runtime`: "use the runtime the user specified" (run.py:966) holds for files that are updated. A rebuild
  starts from the old file and only ever sets `enable_containerd` (run.py:760-763), so a run with `--runtime qemu` for
  another version after an AI run installs with containerd. That containerd is installed when the command line asks
  for it is part of `OptionsTakeEffect`.
* `addnode_retry`: add-node "adds nodes to an existing cluster" (README.md:41). An add-node that failed after
  the agent's unit file was written is skipped when it is tried again, and exits with 0.
* `restore_nodes`: the configuration is generated from the old one and the addresses the user gives
  (README.md:147). `restore_config` deletes `master_node_ips`, which no file has, instead of `master_nodes`, and
  leaves the primary's `hostname`, so the restored file names the machines that were lost. The file
  also keeps `node_ip_v4` and `node_ip_v6` of the old primary.

Met while reading, and carried by the models as the code has it, without a run:

* The docstrings of lib/fabric_setup.py (lines 50, 55, 73-74) number nodes from the address written in `--fabric-cidr`:
  "198.19.240.0/19 -> 198.19.240.0". `do_action` has cleared the host bits by then (`ip_network(strict=False)`), so the
  code counts from 198.19.224.0, and the unit tests pin that. Code and docstrings disagree, on the docstrings' own example.
  `PlanRight` says what the docstrings say; it is checked and proved only under `HostBitsClear`, a cidr written
  with its network's address, and is false otherwise: with `CidrAddr = 20` in the cfg (20/29) TLC finds node 1 at
  17 and not at 21.
* `--force` is to "force install even if a cluster is already deployed on the target node" (run.py:809). With a
  file as argument the probe is sent to the name of the file (run.py:1024) and fails, so nothing needs to be forced.
* `do_install` returns nothing after a missing key, so `install` exits with 0 (lib/install.py:53-58); auto-backup and
  clickhouse drop the status of their playbook, against the reason given in lib/service.py:79-80 for passing it on.
* A second restore to the same local database cannot log in (`DB()` without a password, lib/restore.py:83).
* `--light` is on by default in the code and off in README.md; the default backup path of restore differs likewise.

## Fairness

* Upgrade: Ansible goes on with the role (weak fairness of `Role`: it is a
  sequential program). Kubernetes starts missing operator pods (weak), and starts
  being ready, replacing old pods and reconciling happen in the end although
  restarts keep disabling them (strong: controllers re-queue what is not in its
  desired state). Failing tasks, restarting pods and new runs are not fair.
  `RunEnds` needs only the first: the waiter loops for ever, the poll count ends it.
* Compose: docker compose visits what can be visited and notices what is lost
  (weak); containers finish and probes answer (weak); the administrator repeats
  an `up` that failed (weak). Faults are not fair and bounded by `MaxFaults`;
  without a bound on them no start order can succeed.
* The other modules state safety only: no command of theirs is ever sure to run, and a task that hangs is
  Ansible's to end.

## Proofs

Every theorem holds for all values of the constants that satisfy the assumptions
of its module (`ConstantsAssumption`, `BackupAssumption`, `FabricAssumption`,
`ManifestAssumption`, `ChainAssumption`, `InstallAssumption`, `CommandsAssumption`,
`RestoreAssumption`), which TLC evaluates on every run.

* `OnecloudUpgradeProofs`. `TypeCorrect` and `EveryRunRunsDown` need nothing else. The others assume `ExactTags`
  and rest on `IInv`. `OperatorNotOlder` is not inductive: a pod of the operator's old
  template may be up, or come up, at any time, and the step that could break it is a patch of
  `spec.version`. `IInv` adds that the template has the target version after the first patch
  and that every live operator has it after the first wait (`OperatorMoved`); that no service is ahead of
  the declared version (`ServicesBehind`); that a service the waiter has passed runs the
  target version and nothing else (`Confirmed`), which lasts because no pod of an older
  template can start again while `svcTemplate` stays; and that neither the target nor the
  operator's template is behind `spec.version`, also between runs (`RunOrder`).
  `Implementation` maps each action to one of `UpgradePromise` or to a stutter;
  `PromiseMeans` says what the abstract specification amounts to. `EveryRunRunsDown` is the part of `RunEnds`
  that needs no fairness: a measure of tasks, services and polls that are left (`StepsLeft`) falls with every step of
  the role and is not touched by the cluster's.
* `DbBackupProofs`. `RotationKeepsNewest` by the invariant that for every archive that is removed,
  or that some run has listed for removal, `MaxBkup` newer archives exist. The
  interesting step is a deletion of an archive that was one of those: it was itself
  listed, so `MaxBkup` still newer ones exist, and those count for the older one. An
  injection from listed files to archives gives the cardinalities.
  `RotationLeavesFew`: a listing leaves out at most `MaxBkup` files, since a file's place in the order is
  its own (`UnlistedFew`); but a run that fails in its deletions spares the rest of its list. The invariant therefore
  speaks of every set X of runs that might still fail (`SparedInv`): the files of the runs outside X that have listed,
  less what those have listed, are at most `MaxBkup`. A failure moves one run into X.
  `AloneLeavesFew` and `AloneNothingHollow` rest on `AloneInv`: without overlap the run at work is the last one started.
  `AloneRestorable` bounds the finding `backup_restorable`: an archive cut short by tar is the only thing that can
  take the place of one that can be restored.
* `FabricSetupProofs`. `PlanCorrect`, which assumes `HostBitsClear`, by a loop invariant of `build_fabric_nodes`; the
  assumption is needed only to pass from the code's numbering to the documented one (`DocumentedIsVip`);
  `SuccessIsMesh` adds, per task of the play, what the nodes that are done with it hold, unless
  a node has failed in it. `FilesBeforeRestarts` follows from the same invariant.
* `ComposeStartProofs`. A container that has ever started had its conditions met at that time, and
  a completed one-shot stays in `effects`: from these, by following the conditions
  backwards. `KeystoneComesFirst` uses `ChainAssumption` (each component has keystone, or
  one that has, in front of it), which both manifests satisfy. `MetConditionsStay`: during one `up`, only a crash or
  a failing probe takes back a condition that is met. `UpGoesOn` assumes a rank of the containers that falls along every
  condition (`Ranked`): what the unvisited container of lowest rank (`Foremost`) waits for has been
  visited, so that each of its conditions is met, or lost, or its container can get on.
* `InstallConfigProofs`. `PasswordKept` speaks of the moment before the playbook; the
  invariant is that a password in use from "current" is in the file at all times
  (`PasswordInFile`), for which a rebuild must find the file whenever there is such a
  database. `OptionsTakeEffect` rests on what of the command line each step has taken
  over so far (`TakenOver`), where the patch of the networks comes after `as_host`.
* `ClusterCommandsProofs`. `TypeOK` contains the fact that a running command has a host to wait for;
  it rests on lemmas about the run record (`Goto`, `Settle` and `Lose` keep it well formed, for every
  playbook), each used by all actions that end a host's part in a play. `PrimaryIsKept`: the order
  by creation time and `Rank` is total, so the oldest server is unique; a new server is given a time later than the
  primary's, and leaving servers other than the primary do not change the minimum. `AddressesApart` by `AddressesInv`:
  no command that compares addresses is about a host inside the networks. For install that is `CidrsConflict` over `NodeAddresses`, which has every
  host of the file; for add-node `CheckTargetNodes`, which reads the networks back from the server; that the two
  speak of the same networks is the lemma `NetworksRendered`.
  * `ProgressInv` says what a command has achieved, and is behind the three theorems that follow. For every
    play, each host that is through with it and not lost has had its effect (`FollowedIn`, `DidIn`): it was made a
    node, or is `Excused`; it has had the major tasks. A command of exit status 0 that passes its playbook's status
    on has lost none (`NoneLost`). Two facts about the cluster go with it: a unit without a member is in
    `leftover`, and members have had the tasks of the version of the file, and the cluster never declares less
    (`VersionFloor`). Each step of one command is an `Advances` of its record,
    proved once for `Goto`, `Settle`, `Lose` and `Ended`, while what the others have achieved only grows (`Grown`).
  * `SuccessIsUpgraded` and `SuccessIsJoined` are `ProgressInv` at the end of a command (`SuccessPasses`).
    That one master beside the primary is all of `Masters` needs that `Nodes` is finite.
  * `NobodyBehind`. `NoneBehind` is not inductive: the patch of `spec.version` breaks it unless every member
    has had the tasks by then. `BehindInv` adds, for every strict upgrade that runs, that each
    node not in `behind` has had them or has them still to come in the first play (`ReadyIn`). It begins so because the inventory
    is every member; it stays so because who joins meanwhile goes to `behind` and who fails in the
    first play ends the upgrade; and a patch comes after the first play, in which `ProgressInv` says that all had
    them. Another command's patch puts its own laggards in `behind`. An install of an old file patches
    too: `VersionFloor` has the members ready for that version.
* `RestoreClusterProofs`. `RestoreComplete` speaks of the moment after a restore; the invariant follows it from the load
  on (`SoundSoFar`: the database that was loaded opens with the password the command line will write), with the
  source database excepted, which its cluster goes on writing. `SettingsAsGiven` needs that whatever file restore has
  left holds what its command line gave (`FileAsGiven`). `MastersAreAsGiven` bounds the finding `restore_nodes`: masters of the
  lost cluster stay only where the command line names none.

`ProgressInv` and `BehindInv` were model-checked on the instance of `commands` before they were proved.

Only model-checked: liveness (`RunEnds`, `SuccessSettles`, `UpSucceeds`), which is out of the prover's
reach, and that the two manifests of `ComposeManifest` satisfy what `DependenciesComeFirst`,
`KeystoneComesFirst` and `UpGoesOn` assume (`StackAssumption`, `NoImpossibleCondition`), which TLC evaluates. Every other
safety property of a passing run is a theorem.

## Plan

Left to prove: in ComposeStart a measure, like `StepsLeft` of the upgrade, that falls with each step of one `up` in
which nothing fails; with `UpGoesOn` it is what `UpSucceeds` rests on without the fairness.

## Not modelled

* Two commands on one machine. The files they share have fixed names and nothing locks them, so every
  property of either is lost at the first overlap; a model would show nothing else.
* The roles behind the one-role commands, the controllable upgrade's loops over images and pods, edition switch and calico:
  one pass of patches and waits on one host that change nothing another modelled part reads. The waits are the waiter's of OnecloudUpgrade.
* MariaDB HA. The role dumps db1, imports the dump into db2 and sets both replicas to the other's present
  position. On fresh servers nothing is written in between. On servers in use the import would replicate
  back to db1 and writes made meanwhile would be skipped; what is lost then is a matter of MariaDB's
  replication, and no line of the repository says that the role may be run again.
* EIP HA. The notify script is called by keepalived at changes of state and every five seconds; both callers
  start the agent when it is due. Whether a second start ends by itself, and so whether a late `notify` can leave
  two agents, depends on the agent's pid file, which is not in the repository.
* Node preparation, registry, ClickHouse, GPU drivers: sequences of idempotent tasks on one host, no state of their own.
* The API client (plain HTTP), charts, dashboards, the vendored k3s installer, release scripts.
* Settings that are only handed through: registries, disks, image tags, SSH options.
