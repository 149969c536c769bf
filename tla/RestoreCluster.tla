--------------------------- MODULE RestoreCluster ---------------------------
(***************************************************************************)
(* The backup and restore commands: a configuration file and a dump of the *)
(* database go to a directory, and from there to another database and to   *)
(* the configuration a new cluster is installed from.  mysqldump, gzip and *)
(* mysql run in pipelines whose status nobody reads; a command may be      *)
(* killed anywhere, and be started again.                                  *)
(***************************************************************************)
EXTENDS ClusterConfig

CONSTANTS Hosts,      \* hosts, database servers among them
          Files,      \* configuration files of the cluster that is backed up
          Options,    \* the command lines of restore
          MaxGen      \* bound on the generations of the data

(* Command lines; password 0 stands for none. *)
Lines == [primary : Hosts, local : BOOLEAN, mysql : Hosts, password : Nat,
          masters : SUBSET Hosts, workers : SUBSET Hosts]

ASSUME RestoreAssumption ==
  /\ MaxGen \in Nat \ {0}
  /\ Files \subseteq Configurations(Hosts)
  /\ \A c \in Files : c.db.password # 0
  /\ Options \subseteq Lines

VARIABLES file,      \* the configuration the source was installed from
          dbs,       \* per host: the data of its server and root's password
          dir,       \* the backup directory
          step,      \* what the command that runs does next
          args,      \* the command line of a restore that runs
          restored,  \* the configuration file that restore writes
          site,      \* the cluster that was installed from it
          sound,     \* history: no step of the latest restore went wrong
          kept,      \* history: the generation of the latest backup, good or not
          loaded     \* history: which that was when the latest restore loaded it
backup == <<dir, kept>>
restore == <<args, restored, sound, loaded>>
vars == <<file, dbs, backup, step, restore, site>>

Data == [gen : 0..MaxGen, whole : BOOLEAN]
NoData == [gen |-> 0, whole |-> FALSE]
Nothing == [none |-> TRUE]

Source == dbs[file.db.host].data

(* The cluster goes on writing. *)
Write ==
  /\ Source.whole /\ Source.gen < MaxGen
  /\ dbs' = [dbs EXCEPT ![file.db.host].data.gen = @ + 1]
  /\ UNCHANGED <<file, step, backup, restore, site>>

-----------------------------------------------------------------------------
(* backup *)

BackupConfig ==
  /\ step = "idle" /\ LoadConfig(file) = "ok"
  /\ dir' = [dir EXCEPT !.config = file]
  /\ step' = "dump"
  /\ UNCHANGED <<file, dbs, kept, restore, site>>

(* Slip: a dump that is there is kept. *)
BackupDbOnce ==
  /\ step = "dump" /\ Source.whole /\ dbs[file.db.host].password = file.db.password
  /\ dir' = [dir EXCEPT !.dump = IF dir.dump.gen # 0 THEN dir.dump
                                 ELSE [Source EXCEPT !.whole = FALSE]]
  /\ kept' = Source.gen /\ step' = "dumping"
  /\ UNCHANGED <<file, dbs, restore, site>>

(* The shell opens the dump anew; --single-transaction is one snapshot. *)
BackupDb ==
  /\ step = "dump" /\ Source.whole /\ dbs[file.db.host].password = file.db.password
  /\ dir' = [dir EXCEPT !.dump = [Source EXCEPT !.whole = FALSE]]
  /\ kept' = Source.gen /\ step' = "dumping"
  /\ UNCHANGED <<file, dbs, restore, site>>

(* run_bash_cmd is os.system: a failed dump is reported like a good one. *)
DumpEnds(good) ==
  /\ step = "dumping"
  /\ dir' = [dir EXCEPT !.dump.whole = good]
  /\ step' = "idle"
  /\ UNCHANGED <<file, dbs, kept, restore, site>>

-----------------------------------------------------------------------------
(* restore *)

DbHost(o) == IF o.local THEN o.primary ELSE o.mysql
Password(o) == IF o.password = 0 THEN dir.config.db.password ELSE o.password

(* Without a password of its own, the command must load the backed up file. *)
EnsureDbConfig(o) ==
  /\ step = "idle"
  /\ o.password # 0 \/ (dir.config # Nothing /\ LoadConfig(dir.config) = "ok")
  /\ args' = [o EXCEPT !.password = Password(o)] /\ sound' = FALSE
  /\ step' = IF o.local THEN "grant" ELSE "source"
  /\ UNCHANGED <<file, dbs, backup, restored, loaded, site>>

(* DB() logs in without a password; a server that has one may refuse that. *)
Grant ==
  /\ step = "grant"
  /\ dbs' = [dbs EXCEPT ![DbHost(args)].password = args.password]
  /\ step' = "source"
  /\ UNCHANGED <<file, backup, restore, site>>

GrantRefused ==
  /\ step = "grant" /\ dbs[DbHost(args)].password # 0
  /\ args' = Nothing /\ step' = "idle"
  /\ UNCHANGED <<file, dbs, backup, restored, sound, loaded, site>>

(* "Restore DB OK." whatever became of `gunzip | mysql`. *)
SourceDbFiles(good) ==
  /\ step = "source"
  /\ LET opens == dbs[DbHost(args)].password = args.password IN
     /\ dbs' = IF opens THEN [dbs EXCEPT ![DbHost(args)].data =
                                [dir.dump EXCEPT !.whole = @ /\ good]]
               ELSE dbs
     /\ sound' = (opens /\ good /\ dir.dump.whole)
  /\ loaded' = kept
  /\ step' = "config"
  /\ UNCHANGED <<file, backup, args, restored, site>>

GenerateNodes(c, o, g, ips) == IF ips # {} THEN o.primary ELSE c.endpoint[g]

(* Slip: the database stays where it was. *)
RestoredHostsOldDb(c, o) ==
  [g \in Groups |->
     IF g = "master_nodes" /\ o.masters # {} THEN o.masters
     ELSE IF g = "worker_nodes" THEN o.workers
     ELSE IF g \in {"mariadb_node", "primary_master_node", "master_nodes"} THEN c.hosts[g] ELSE {}]

(* The key 'master_node_ips' is deleted, which no file has; 'master_nodes' *)
(* stays.  The primary's hostname stays as well.                           *)
RestoredHosts(c, o) ==
  [g \in Groups |->
     IF g = "mariadb_node" THEN {DbHost(o)}
     ELSE IF g = "master_nodes" /\ o.masters # {} THEN o.masters
     ELSE IF g = "worker_nodes" THEN o.workers
     ELSE IF g \in {"primary_master_node", "master_nodes"} THEN c.hosts[g] ELSE {}]

OldSections(o) ==
  {"primary_master_node"} \cup (IF o.masters = {} THEN {"master_nodes"} ELSE {})

(* Slip: the password is that of the backed up file. *)
RestoreConfigOldPassword(c, o) ==
  [c EXCEPT !.hosts = RestoredHosts(c, o),
            !.endpoint["primary_master_node"] = o.primary,
            !.db.host = DbHost(o)]

RestoreConfig(c, o) ==
  [c EXCEPT
     !.missing = @ \cap OldSections(o),
     !.token = @ \cap OldSections(o),
     !.sshPort = @ \cap OldSections(o),
     !.hosts = RestoredHosts(c, o),
     !.version = [g \in Groups |-> IF g \in OldSections(o) THEN @[g] ELSE 0],
     !.endpoint = [@ EXCEPT
        !["primary_master_node"] = o.primary,
        !["master_nodes"] = GenerateNodes(c, o, "master_nodes", o.masters),
        !["worker_nodes"] = GenerateNodes(c, o, "worker_nodes", o.workers)],
     !.nodeIps = [g \in Groups |->
        IF g = "primary_master_node" THEN {o.primary}
        ELSE IF g \in OldSections(o) THEN @[g] ELSE {}],
     !.db = [host |-> DbHost(o), password |-> o.password],
     !.mariadb = o.password,
     !.restore = TRUE]

WriteConfig ==
  /\ step = "config" /\ dir.config # Nothing
  /\ restored' = [config |-> RestoreConfig(dir.config, args), given |-> args]
  /\ args' = Nothing /\ step' = "idle"
  /\ UNCHANGED <<file, dbs, backup, sound, loaded, site>>

(* An exception, or a kill; after open('config.yml', 'w') it leaves an     *)
(* empty file.                                                             *)
Aborted ==
  /\ step # "idle"
  /\ restored' \in {restored} \cup (IF step = "config" THEN {Nothing} ELSE {})
  /\ sound' = (sound /\ step \in {"dump", "dumping"})
  /\ args' = Nothing /\ step' = "idle"
  /\ UNCHANGED <<file, dbs, backup, loaded, site>>

(* install with the file that restore wrote, in one step.  The mariadb     *)
(* role sets root's password where there is none, and needs it elsewhere.  *)
Install ==
  /\ step = "idle" /\ restored # Nothing
  /\ LET c == restored.config IN
     /\ LoadConfig(c) = "ok" /\ GenerateInventory(c) = "ok" /\ ~CidrsConflict(c)
     /\ \A h \in Section(c, "mariadb_node") : dbs[h].password \in {0, MariadbPassword(c)}
     /\ dbs' = [h \in Hosts |-> IF h \in Section(c, "mariadb_node")
                                THEN [dbs[h] EXCEPT !.password = MariadbPassword(c)] ELSE dbs[h]]
     /\ site' = [version |-> OnecloudVersion(c), db |-> DbVars(c),
                 endpoint |-> Endpoint(c, "primary_master_node"),
                 hosts |-> Inventory(c), given |-> restored.given]
  /\ UNCHANGED <<file, backup, step, restore>>

-----------------------------------------------------------------------------
Init ==
  /\ file \in Files
  /\ dbs = [h \in Hosts |->
       IF h = file.db.host
       THEN [data |-> [gen |-> 1, whole |-> TRUE],
             password |-> file.db.password]
       ELSE [data |-> NoData, password |-> 0]]
  /\ dir = [config |-> Nothing, dump |-> NoData]
  /\ step = "idle" /\ args = Nothing /\ restored = Nothing /\ site = Nothing
  /\ sound = FALSE /\ kept = 0 /\ loaded = 0

Next ==
  \/ Write
  \/ BackupConfig \/ BackupDb \/ \E good \in BOOLEAN : DumpEnds(good)
  \/ \E o \in Options : EnsureDbConfig(o)
  \/ Grant \/ GrantRefused
  \/ \E good \in BOOLEAN : SourceDbFiles(good)
  \/ WriteConfig \/ Aborted \/ Install

Spec == Init /\ [][Next]_vars

-----------------------------------------------------------------------------
(* Properties *)

(* Type invariant.  A dump that is whole is that of the latest backup: one  *)
(* that fails does not leave the older dump in its place.                   *)
TypeOK ==
  /\ file \in Files
  /\ dbs \in [Hosts -> [data : Data, password : Nat]]
  /\ dir \in [config : Files \cup {Nothing}, dump : Data]
  /\ step \in {"idle", "dump", "dumping", "grant", "source", "config"}
  /\ IF step \in {"grant", "source", "config"} THEN args \in Lines ELSE args = Nothing
  /\ sound \in BOOLEAN /\ kept \in 0..MaxGen /\ loaded \in 0..MaxGen
  /\ dir.dump.whole => dir.dump.gen = kept

(* After a restore in which nothing failed unnoticed, the configuration it  *)
(* wrote opens the database it loaded, and that holds the data of the       *)
(* latest backup, whatever backups and restores were given up before; the   *)
(* database of the cluster itself is written to meanwhile.                  *)
RestoreComplete ==
  sound /\ step = "idle" =>
    /\ restored # Nothing
    /\ LET db == restored.config.db IN
       /\ db.host = DbHost(restored.given)
       /\ dbs[db.host].password = db.password
       /\ \/ dbs[db.host].data = [gen |-> loaded, whole |-> TRUE]
          \/ db.host = file.db.host

(* The cluster installed from a restored file has the database, the         *)
(* endpoint and the workers that the restore was given, and not those of    *)
(* the cluster that was backed up.                                          *)
SettingsAsGiven ==
  site # Nothing =>
    /\ site.db.host = DbHost(site.given)
    /\ site.endpoint = site.given.primary
    /\ site.hosts["worker_nodes"] = site.given.workers
    /\ site.hosts["mariadb_node"] = {site.db.host}

(* README.md: the configuration is generated anew from the backed up one    *)
(* and "用户输入（当前机器 ip、worker node ips、master node ips）" (the      *)
(* user's input: the ip of this machine and those of the nodes): these are  *)
(* the hosts of the restored cluster.                                       *)
NodesAsGiven ==
  site # Nothing =>
    /\ site.hosts["primary_master_node"] = {site.given.primary}
    /\ site.hosts["master_nodes"] = site.given.masters
    /\ site.hosts["worker_nodes"] = site.given.workers
=============================================================================
