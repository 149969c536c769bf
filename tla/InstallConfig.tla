----------------------------- MODULE InstallConfig -----------------------------
(***************************************************************************)
(* run.py over repeated invocations on one machine.                        *)
(*                                                                         *)
(* An invocation names an address of the machine or a configuration file.  *)
(* With an address it works on config-allinone-current.yml, which is the   *)
(* only thing one invocation leaves for the next: generate_config reuses   *)
(* that file when it is for the same address and version, changing only    *)
(* what the four update and patch functions change, and rebuilds it        *)
(* otherwise.  Each of those functions reads the whole file and writes it  *)
(* back.  Then the machine is probed for a cluster and the playbook run.   *)
(*                                                                         *)
(* Left out: settings that a rebuild overwrites and a reuse leaves alone   *)
(* (region, zone, image repository, calico), that are only ever set (DNS), *)
(* and CIDRs, SSH user and port, which are patched like the networks.      *)
(***************************************************************************)
EXTENDS Naturals

CONSTANTS
  Addresses,    \* of the machine
  Versions,
  Shipped,      \* the one in the file VERSION
  Invocations,  \* command lines an administrator may give
  OwnConfigs,   \* what a configuration file of the administrator may hold
  NoConfig,     \* no file, or one of size zero
  MaxPasswords  \* bound: passwords that are drawn

Products == {"FullStack", "Edge", "LightEdge", "CMP", "AI"}
Files == {"current", "own"}
NotGiven == "not given"

\* networks: "given" on a command line, or the interface of that address.
Config ==
  [hostname : Addresses, version : Versions, password : Nat \ {0}, product : Products,
   asHost : BOOLEAN, containerd : BOOLEAN, networks : {"given"} \union Addresses,
   masters : BOOLEAN]

\* target: an address or "own"; containerd: the runtime to use; networks:
\* whether --host-networks is there; offline: OFFLINE_DATA_PATH is set.
Invocation ==
  [target : Addresses \union {"own"}, product : Products, containerd : BOOLEAN,
   version : Versions \union {NotGiven}, networks : BOOLEAN, offline : BOOLEAN,
   force : BOOLEAN]

NoPassword == 0

ASSUME InstallAssumption ==
  /\ Shipped \in Versions
  /\ "own" \notin Addresses
  /\ NotGiven \notin Versions
  /\ NoConfig \notin Config
  \* main: with the AI stack the runtime is always containerd.
  /\ Invocations \subseteq {i \in Invocation : i.product = "AI" => i.containerd}
  /\ OwnConfigs \subseteq Config \union {NoConfig}
  /\ MaxPasswords \in Nat

VARIABLES
  file,     \* what each configuration file holds
  run,      \* the invocation, of the current or the last run
  step,     \* what run.py is at
  db,       \* root password of the database on the machine, or NoPassword
  dbFrom,   \* the file that password is from
  cluster,  \* the machine has a onecloudcluster
  made,     \* passwords drawn
  torn      \* a kill has left "current" empty

vars == <<file, run, step, db, dbFrom, cluster, made, torn>>
machineVars == <<db, dbFrom, cluster>>
historyVars == <<made, torn>>

EditSteps == {"update", "version", "networks", "rebuild"}
Steps == {"idle", "check", "database", "cluster"} \union EditSteps

Subject == IF run.target = "own" THEN "own" ELSE "current"
Conf == file[Subject]

Init ==
  /\ file \in {[f \in Files |-> IF f = "own" THEN c ELSE NoConfig] : c \in OwnConfigs}
  /\ run \in Invocations
  /\ step = "idle"
  /\ db = NoPassword
  /\ dbFrom = "current"
  /\ cluster = FALSE
  /\ made = 0
  /\ torn = FALSE

-----------------------------------------------------------------------------
(* What each function makes of the configuration c it reads.                *)

\* Slip: as_host stays as it was for the earlier product.
UpdatedProductOnly(c) ==
  [c EXCEPT !.product = run.product, !.containerd = run.containerd]

Updated(c) ==
  LET p == IF c.product = run.product THEN c
           ELSE [c EXCEPT !.product = run.product, !.asHost = run.product # "CMP"]
  IN  IF run.offline THEN c ELSE [p EXCEPT !.containerd = run.containerd]

Versioned(c) ==
  IF run.version = NotGiven THEN c ELSE [c EXCEPT !.version = run.version]

WithNetworks(c) ==
  IF run.networks /\ c.asHost THEN [c EXCEPT !.networks = "given"] ELSE c

AskedVersion == IF run.version = NotGiven THEN Shipped ELSE run.version

\* Slip: a password is drawn for each rebuild.
NewPasswordDrawn == made + 1

\* A password is drawn only when there is no file to take one from.
NewPassword == IF file["current"] = NoConfig THEN made + 1 ELSE file["current"].password

\* enable_containerd is set here, and never reset.
Rebuilt ==
  LET old == file["current"]
  IN [hostname   |-> run.target,
      version    |-> AskedVersion,
      password   |-> NewPassword,
      product    |-> run.product,
      asHost     |-> run.product # "CMP",
      containerd |-> run.containerd \/ (old # NoConfig /\ old.containerd),
      networks   |-> IF run.networks THEN "given"
                     ELSE IF old # NoConfig THEN old.networks ELSE run.target,
      masters    |-> FALSE]

\* Slip: the networks are patched before as_host is updated.
EditedNetworksFirst ==
  CASE step = "update"   -> WithNetworks(Conf)
    [] step = "version"  -> Versioned(Conf)
    [] step = "networks" -> Updated(Conf)
    [] step = "rebuild"  -> Rebuilt

\* What the file holds when the function of this step has written it.
Edited ==
  IF step = "update" THEN Updated(Conf)
  ELSE IF step = "version" THEN Versioned(Conf)
  ELSE IF step = "networks" THEN WithNetworks(Conf)
  ELSE Rebuilt

-----------------------------------------------------------------------------
(* main.                                                                     *)

Reusable(i) ==
  /\ file["current"] # NoConfig
  /\ file["current"].hostname = i.target
  /\ file["current"].version = IF i.version = NotGiven THEN Shipped ELSE i.version

\* Slip: an argument that is not an address is not told from one.
StartRunAnyTarget ==
  /\ step = "idle"
  /\ \E i \in Invocations :
       /\ run' = i
       /\ step' = IF Reusable(i) THEN "update" ELSE "rebuild"
  /\ UNCHANGED <<file, machineVars, made, torn>>

\* A file that does not exist or is empty is refused.
StartRun ==
  /\ step = "idle"
  /\ \E i \in Invocations :
       /\ i.target = "own" => file["own"] # NoConfig
       /\ run' = i
       /\ step' = IF i.target = "own" \/ Reusable(i) THEN "update" ELSE "rebuild"
  /\ UNCHANGED <<file, machineVars, made, torn>>

WriteConfig(next) ==
  /\ file' = [file EXCEPT ![Subject] = Edited]
  /\ step' = next
  /\ UNCHANGED <<run, machineVars>>

UpdateConfig ==
  /\ step = "update"
  /\ WriteConfig(IF run.target = "own" THEN "version" ELSE "networks")
  /\ UNCHANGED historyVars

PatchVersion ==
  /\ step = "version"
  /\ WriteConfig("networks")
  /\ UNCHANGED historyVars

\* The loop over master_nodes takes a dictionary for a list: an exception.
MastersFail == run.networks /\ Conf.masters

PatchHostagent ==
  /\ step = "networks"
  /\ ~MastersFail
  /\ WriteConfig("check")
  /\ UNCHANGED historyVars

Rebuild ==
  /\ step = "rebuild"
  /\ file["current"] # NoConfig \/ made < MaxPasswords
  /\ WriteConfig("check")
  /\ made' = IF file["current"] = NoConfig THEN made + 1 ELSE made
  /\ UNCHANGED torn

\* The probe is sent to the argument of the command line.
Answers(reached) == reached /\ run.target \in Addresses /\ cluster

CheckDeployed ==
  /\ step = "check"
  /\ \E reached \in BOOLEAN :
       step' = IF ~run.force /\ Answers(reached) THEN "idle" ELSE "database"
  /\ UNCHANGED <<file, run, machineVars, made, torn>>

\* The role mariadb logs in as root without a password where MariaDB lets it,
\* and otherwise with the password it sets: whether another one can be replaced
\* depends on the installation, and a refused login is one of RunFails.
InstallDatabase ==
  /\ step = "database"
  /\ db' = Conf.password
  /\ dbFrom' = Subject
  /\ step' = "cluster"
  /\ UNCHANGED <<file, run, cluster, historyVars>>

InstallCluster ==
  /\ step = "cluster"
  /\ cluster' = TRUE
  /\ step' = "idle"
  /\ UNCHANGED <<file, run, db, dbFrom, historyVars>>

\* An exception, a failed task or a signal, at any step.
RunFails ==
  /\ step # "idle"
  /\ step' = "idle"
  /\ UNCHANGED <<file, run, machineVars, historyVars>>

\* A signal after open('w') has truncated the file and before it is written.
KilledWriting ==
  /\ step \in EditSteps
  /\ Edited # Conf
  /\ file' = [file EXCEPT ![Subject] = NoConfig]
  /\ torn' = (torn \/ Subject = "current")
  /\ step' = "idle"
  /\ UNCHANGED <<run, machineVars, made>>

Next ==
  \/ StartRun
  \/ UpdateConfig
  \/ PatchVersion
  \/ PatchHostagent
  \/ Rebuild
  \/ CheckDeployed
  \/ InstallDatabase
  \/ InstallCluster
  \/ RunFails
  \/ KilledWriting

Spec == Init /\ [][Next]_vars

-----------------------------------------------------------------------------

TypeOK ==
  /\ file \in [Files -> Config \union {NoConfig}]
  /\ run \in Invocations
  /\ step \in Steps
  /\ db \in Nat
  /\ dbFrom \in Files
  /\ cluster \in BOOLEAN
  /\ made \in 0 .. MaxPasswords
  /\ torn \in BOOLEAN

\* The playbook is about to run.
Installing == step = "database"

\* However the file came about, over any number of invocations for other
\* versions, addresses and products, some of which failed half way: a database
\* one of them has installed is met by the next with its own password.  Only
\* a file that was lost in a write breaks that.
PasswordKept ==
  Installing /\ ~torn /\ Subject = "current" /\ dbFrom = "current" =>
    db \in {NoPassword, Conf.password}

\* The node of a configuration of run.py is a host exactly when its product is
\* not CMP, also half way through an invocation and after a failed one.
HostByProduct ==
  file["current"] # NoConfig =>
    (file["current"].asHost <=> file["current"].product # "CMP")

\* The playbook gets the address, version, product and networks of this
\* command line, whatever the file held before, and containerd when the command
\* line asks for it; a file of the administrator does not keep containerd when it
\* does not.  Offline only a rebuild takes product and runtime over; networks are
\* for hosts.
OptionsTakeEffect ==
  Installing =>
    /\ Subject = "current" => Conf.hostname = run.target /\ Conf.version = AskedVersion
    /\ Subject = "own" => run.version \in {NotGiven, Conf.version}
    /\ ~run.offline => /\ Conf.product = run.product
                       /\ run.containerd => Conf.containerd
                       /\ Subject = "own" => Conf.containerd = run.containerd
    /\ run.networks /\ Conf.asHost => Conf.networks = "given"

\* run.py:965-967: "普通模式：使用用户指定的 runtime" (normal mode: use the runtime
\* the user specified); in AI mode that is containerd.  The playbook gets the
\* runtime of this command line, and not one that an earlier invocation has left
\* in the file.
RuntimeAsSpecified ==
  Installing /\ ~run.offline => Conf.containerd = run.containerd
=============================================================================
