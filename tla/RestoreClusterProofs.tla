----------------------- MODULE RestoreClusterProofs -----------------------
(***************************************************************************)
(* What RestoreCluster promises for all hosts, configuration files and     *)
(* command lines.                                                          *)
(***************************************************************************)
EXTENDS RestoreCluster, TLAPS

\* What a file of restore holds of the command line it was made for.
FileAsGiven ==
  \/ restored = Nothing
  \/ LET c == restored.config
         o == restored.given
     IN  /\ o \in Lines
         /\ restored # Nothing
         /\ c.db = [host |-> DbHost(o), password |-> o.password]
         /\ c.mariadb = o.password
         /\ c.endpoint["primary_master_node"] = o.primary
         /\ c.hosts["mariadb_node"] = {DbHost(o)}
         /\ c.hosts["worker_nodes"] = o.workers

\* The dump that is being written is that of this backup.
DumpOfBackup == step = "dumping" => dir.dump.gen = kept

\* The database a command line names opens with its password and holds what
\* was loaded; the source itself may have been written to since.
Holds(o) ==
  /\ dbs[DbHost(o)].password = o.password
  /\ \/ dbs[DbHost(o)].data = [gen |-> loaded, whole |-> TRUE]
     \/ DbHost(o) = file.db.host

\* The latest restore, while it runs and after it.
SoundSoFar ==
  sound => /\ step \notin {"grant", "source"}
           /\ step = "config" => Holds(args)
           /\ step # "config" => restored # Nothing /\ Holds(restored.given)

IInv == TypeOK /\ FileAsGiven /\ DumpOfBackup /\ SoundSoFar

-----------------------------------------------------------------------------

LEMMA NothingIsNoFile ==
  ASSUME NEW c, NEW o
  PROVE  [config |-> c, given |-> o] # Nothing
<1>1. DOMAIN [config |-> c, given |-> o] # DOMAIN Nothing
  <2>1. "none" \in DOMAIN Nothing
    BY DEF Nothing
  <2>2. "none" \notin DOMAIN [config |-> c, given |-> o]
    OBVIOUS
  <2> QED
    BY <2>1, <2>2
<1> QED
  BY <1>1

LEMMA NothingIsNoConfiguration ==
  ASSUME NEW c \in Configurations(Hosts)
  PROVE  c # Nothing
<1>1. "none" \notin DOMAIN c
  BY DEF Configurations
<1>2. "none" \in DOMAIN Nothing
  BY DEF Nothing
<1> QED
  BY <1>1, <1>2

LEMMA DbHostIsHost == ASSUME NEW o \in Lines PROVE DbHost(o) \in Hosts
BY DEF DbHost, Lines

LEMMA GroupNames ==
  /\ "mariadb_node" \in Groups /\ "worker_nodes" \in Groups
  /\ "primary_master_node" \in Groups /\ "master_nodes" \in Groups
<1>1. 1 \in DOMAIN Sections /\ 5 \in DOMAIN Sections /\ 6 \in DOMAIN Sections /\ 7 \in DOMAIN Sections
  BY DEF Sections
<1>2. /\ Sections[1] = "mariadb_node" /\ Sections[5] = "primary_master_node"
      /\ Sections[6] = "master_nodes" /\ Sections[7] = "worker_nodes"
  BY DEF Sections
<1> QED
  BY <1>1, <1>2 DEF Groups

LEMMA RestoreConfigTakes ==
  ASSUME NEW c \in Configurations(Hosts), NEW o \in Lines
  PROVE  /\ RestoreConfig(c, o).db = [host |-> DbHost(o), password |-> o.password]
         /\ RestoreConfig(c, o).mariadb = o.password
         /\ RestoreConfig(c, o).endpoint["primary_master_node"] = o.primary
         /\ RestoreConfig(c, o).hosts["mariadb_node"] = {DbHost(o)}
         /\ RestoreConfig(c, o).hosts["worker_nodes"] = o.workers
<1>1. /\ RestoreConfig(c, o).db = [host |-> DbHost(o), password |-> o.password]
      /\ RestoreConfig(c, o).mariadb = o.password
      /\ RestoreConfig(c, o).hosts = RestoredHosts(c, o)
  BY DEF RestoreConfig, Configurations
<1>2. RestoreConfig(c, o).endpoint["primary_master_node"] = o.primary
  BY GroupNames DEF RestoreConfig, Configurations
<1>3. /\ RestoredHosts(c, o)["mariadb_node"] = {DbHost(o)}
      /\ RestoredHosts(c, o)["worker_nodes"] = o.workers
  BY GroupNames DEF RestoredHosts
<1> QED
  BY <1>1, <1>2, <1>3

LEMMA SourceIsData ==
  ASSUME TypeOK
  PROVE  /\ file \in Configurations(Hosts) /\ file.db.host \in Hosts
         /\ Source \in Data
<1>1. file \in Configurations(Hosts)
  BY RestoreAssumption DEF TypeOK
<1>2. file.db.host \in Hosts
  BY <1>1 DEF Configurations
<1> QED
  BY <1>1, <1>2 DEF TypeOK, Source

-----------------------------------------------------------------------------

LEMMA InitIInv == Init => IInv
<1> SUFFICES ASSUME Init PROVE IInv
  OBVIOUS
<1>1. /\ file \in Files /\ step = "idle" /\ args = Nothing /\ restored = Nothing
      /\ sound = FALSE /\ kept = 0 /\ loaded = 0
      /\ dir = [config |-> Nothing, dump |-> NoData]
  BY DEF Init
<1>2. 0 \in 0..MaxGen /\ 1 \in 0..MaxGen
  BY RestoreAssumption
<1>3. NoData \in Data /\ [gen |-> 1, whole |-> TRUE] \in Data
  BY <1>2 DEF NoData, Data
<1>4. file.db.password \in Nat
  BY <1>1, RestoreAssumption DEF Configurations
<1>5. dbs \in [Hosts -> [data : Data, password : Nat]]
  BY <1>3, <1>4 DEF Init
<1>6. dir \in [config : Files \cup {Nothing}, dump : Data] /\ ~dir.dump.whole
  BY <1>1, <1>3 DEF NoData
<1>7. TypeOK
  BY <1>1, <1>2, <1>5, <1>6 DEF TypeOK
<1> QED
  BY <1>1, <1>7 DEF IInv, FileAsGiven, DumpOfBackup, SoundSoFar

\* Only the data of the source changes, which SoundSoFar does not count on.
LEMMA WriteStep == IInv /\ Write => IInv'
<1> SUFFICES ASSUME IInv, Write PROVE IInv'
  OBVIOUS
<1> USE DEF IInv
<1>1. /\ file' = file /\ step' = step /\ dir' = dir /\ kept' = kept /\ args' = args
      /\ restored' = restored /\ sound' = sound /\ loaded' = loaded
      /\ dbs' = [dbs EXCEPT ![file.db.host].data.gen = @ + 1]
      /\ Source.gen < MaxGen
  BY DEF Write, backup, restore
<1>2. file.db.host \in Hosts /\ dbs[file.db.host].data \in Data /\ dbs[file.db.host].data.gen < MaxGen
  BY <1>1, SourceIsData DEF Source
<1>3. /\ dbs[file.db.host].data.gen + 1 \in 0..MaxGen
      /\ dbs[file.db.host].data.whole \in BOOLEAN
  BY <1>2, RestoreAssumption DEF Data
<1>4. dbs' \in [Hosts -> [data : Data, password : Nat]]
  BY <1>1, <1>2, <1>3 DEF TypeOK, Data
<1>5. /\ \A h \in Hosts : dbs'[h].password = dbs[h].password
      /\ \A h \in Hosts \ {file.db.host} : dbs'[h] = dbs[h]
  BY <1>1, <1>2 DEF TypeOK
<1> DEFINE StillHolds(o) ==
      /\ dbs'[DbHost(o)].password = o.password
      /\ \/ dbs'[DbHost(o)].data = [gen |-> loaded, whole |-> TRUE]
         \/ DbHost(o) = file.db.host
<1>6. \A o \in Lines : Holds(o) => StillHolds(o)
  BY <1>5, DbHostIsHost DEF Holds
<1>7. TypeOK'
  BY <1>1, <1>4 DEF TypeOK
<1>8. FileAsGiven' /\ DumpOfBackup'
  BY <1>1 DEF FileAsGiven, DumpOfBackup, DbHost
<1>9. SoundSoFar'
  <2>1. sound /\ step = "config" => StillHolds(args)
    BY <1>6 DEF SoundSoFar, TypeOK
  <2>2. sound /\ step # "config" => restored # Nothing /\ StillHolds(restored.given)
    BY <1>6 DEF SoundSoFar, FileAsGiven
  <2> QED
    BY <1>1, <2>1, <2>2 DEF SoundSoFar, Holds, DbHost
<1> QED
  BY <1>7, <1>8, <1>9

\* What has not to do with the latest restore leaves it as it was.
LEMMA RestoreStays ==
  ASSUME IInv, dbs' = dbs, file' = file, restored' = restored, loaded' = loaded,
         sound' = sound, args' = args,
         step # "config", step' \notin {"grant", "source", "config"}
  PROVE  FileAsGiven' /\ SoundSoFar'
<1>1. FileAsGiven'
  BY DEF IInv, FileAsGiven, DbHost
<1>2. sound => restored # Nothing /\ Holds(restored.given)
  BY DEF IInv, SoundSoFar
<1>3. SoundSoFar'
  BY <1>2 DEF SoundSoFar, Holds, DbHost
<1> QED
  BY <1>1, <1>3

LEMMA BackupConfigStep == IInv /\ BackupConfig => IInv'
<1> SUFFICES ASSUME IInv, BackupConfig PROVE IInv'
  OBVIOUS
<1> USE DEF IInv
<1>1. /\ step = "idle" /\ step' = "dump" /\ dir' = [dir EXCEPT !.config = file]
      /\ file' = file /\ dbs' = dbs /\ kept' = kept /\ args' = args
      /\ restored' = restored /\ sound' = sound /\ loaded' = loaded
  BY DEF BackupConfig, restore
<1>2. dir' \in [config : Files \cup {Nothing}, dump : Data] /\ dir'.dump = dir.dump
  BY <1>1 DEF TypeOK
<1>3. TypeOK'
  BY <1>1, <1>2 DEF TypeOK
<1>4. FileAsGiven' /\ SoundSoFar'
  BY <1>1, RestoreStays
<1> QED
  BY <1>1, <1>3, <1>4 DEF DumpOfBackup

LEMMA BackupDbStep == IInv /\ BackupDb => IInv'
<1> SUFFICES ASSUME IInv, BackupDb PROVE IInv'
  OBVIOUS
<1> USE DEF IInv
<1>1. /\ step = "dump" /\ step' = "dumping" /\ kept' = Source.gen
      /\ dir' = [dir EXCEPT !.dump = [Source EXCEPT !.whole = FALSE]]
      /\ file' = file /\ dbs' = dbs /\ args' = args
      /\ restored' = restored /\ sound' = sound /\ loaded' = loaded
  BY DEF BackupDb, restore
<1>2. Source \in Data
  BY SourceIsData
<1>3. /\ [Source EXCEPT !.whole = FALSE] \in Data
      /\ [Source EXCEPT !.whole = FALSE].gen = Source.gen
      /\ [Source EXCEPT !.whole = FALSE].whole = FALSE
      /\ Source.gen \in 0..MaxGen
  BY <1>2 DEF Data
<1>4. /\ dir' \in [config : Files \cup {Nothing}, dump : Data]
      /\ dir'.dump = [Source EXCEPT !.whole = FALSE]
  BY <1>1, <1>3 DEF TypeOK
<1>5. TypeOK'
  BY <1>1, <1>3, <1>4 DEF TypeOK
<1>6. FileAsGiven' /\ SoundSoFar'
  BY <1>1, RestoreStays
<1>7. DumpOfBackup'
  BY <1>1, <1>3, <1>4 DEF DumpOfBackup
<1> QED
  BY <1>5, <1>6, <1>7

LEMMA DumpEndsStep == ASSUME IInv, NEW good \in BOOLEAN, DumpEnds(good) PROVE IInv'
<1> USE DEF IInv
<1>1. /\ step = "dumping" /\ step' = "idle" /\ kept' = kept
      /\ dir' = [dir EXCEPT !.dump.whole = good]
      /\ file' = file /\ dbs' = dbs /\ args' = args
      /\ restored' = restored /\ sound' = sound /\ loaded' = loaded
  BY DEF DumpEnds, restore
<1>2. /\ dir' \in [config : Files \cup {Nothing}, dump : Data]
      /\ dir'.dump.gen = dir.dump.gen
  BY <1>1 DEF TypeOK, Data
<1>3. TypeOK'
  BY <1>1, <1>2 DEF TypeOK, DumpOfBackup
<1>4. FileAsGiven' /\ SoundSoFar'
  BY <1>1, RestoreStays
<1> QED
  BY <1>1, <1>3, <1>4 DEF DumpOfBackup

LEMMA EnsureDbConfigStep == ASSUME IInv, NEW o \in Options, EnsureDbConfig(o) PROVE IInv'
<1> USE DEF IInv
<1>1. /\ step = "idle" /\ sound' = FALSE /\ args' = [o EXCEPT !.password = Password(o)]
      /\ o.password # 0 \/ dir.config # Nothing
      /\ step' = IF o.local THEN "grant" ELSE "source"
      /\ file' = file /\ dbs' = dbs /\ dir' = dir /\ kept' = kept
      /\ restored' = restored /\ loaded' = loaded
  BY DEF EnsureDbConfig, backup
<1>2. o \in Lines
  BY RestoreAssumption
<1>3. Password(o) \in Nat
  <2>1. CASE o.password = 0
    <3>1. dir.config \in Configurations(Hosts)
      BY <1>1, <2>1, RestoreAssumption DEF TypeOK
    <3> QED
      BY <2>1, <3>1 DEF Password, Configurations
  <2>2. CASE o.password # 0
    BY <1>2, <2>2 DEF Password, Lines
  <2> QED
    BY <2>1, <2>2
<1>4. args' \in Lines
  BY <1>1, <1>2, <1>3 DEF Lines
<1>5. TypeOK'
  BY <1>1, <1>4 DEF TypeOK
<1> QED
  BY <1>1, <1>5 DEF FileAsGiven, DumpOfBackup, SoundSoFar, DbHost

LEMMA GrantStep == IInv /\ Grant => IInv'
<1> SUFFICES ASSUME IInv, Grant PROVE IInv'
  OBVIOUS
<1> USE DEF IInv
<1>1. /\ step = "grant" /\ step' = "source"
      /\ dbs' = [dbs EXCEPT ![DbHost(args)].password = args.password]
      /\ file' = file /\ dir' = dir /\ kept' = kept /\ args' = args
      /\ restored' = restored /\ sound' = sound /\ loaded' = loaded
  BY DEF Grant, backup, restore
<1>2. args \in Lines /\ args.password \in Nat /\ DbHost(args) \in Hosts
  BY <1>1, DbHostIsHost DEF TypeOK, Lines
<1>3. dbs' \in [Hosts -> [data : Data, password : Nat]]
  BY <1>1, <1>2 DEF TypeOK
<1>4. TypeOK'
  BY <1>1, <1>3 DEF TypeOK
<1> QED
  BY <1>1, <1>4 DEF FileAsGiven, DumpOfBackup, SoundSoFar, DbHost

LEMMA SourceDbFilesStep == ASSUME IInv, NEW good \in BOOLEAN, SourceDbFiles(good) PROVE IInv'
<1> USE DEF IInv
<1> DEFINE opens == dbs[DbHost(args)].password = args.password
           copy == [dir.dump EXCEPT !.whole = @ /\ good]
<1>1. /\ step = "source" /\ step' = "config" /\ loaded' = kept
      /\ dbs' = IF opens THEN [dbs EXCEPT ![DbHost(args)].data = copy] ELSE dbs
      /\ sound' = (opens /\ good /\ dir.dump.whole)
      /\ file' = file /\ dir' = dir /\ kept' = kept /\ args' = args
      /\ restored' = restored
  BY DEF SourceDbFiles, backup
<1>2. args \in Lines /\ DbHost(args) \in Hosts
  BY <1>1, DbHostIsHost DEF TypeOK
<1>3. copy \in Data
  BY DEF TypeOK, Data
<1>4. dbs' \in [Hosts -> [data : Data, password : Nat]]
  BY <1>1, <1>2, <1>3 DEF TypeOK
<1>5. TypeOK'
  BY <1>1, <1>4 DEF TypeOK
<1>6. sound' => copy = [gen |-> kept, whole |-> TRUE]
  BY <1>1 DEF TypeOK, Data
<1>7. sound' => dbs'[DbHost(args)].data = copy /\ dbs'[DbHost(args)].password = args.password
  BY <1>1, <1>2 DEF TypeOK
<1>8. SoundSoFar'
  BY <1>1, <1>6, <1>7 DEF SoundSoFar, Holds, DbHost
<1> QED
  BY <1>1, <1>5, <1>8 DEF FileAsGiven, DumpOfBackup, DbHost

LEMMA WriteConfigStep == IInv /\ WriteConfig => IInv'
<1> SUFFICES ASSUME IInv, WriteConfig PROVE IInv'
  OBVIOUS
<1> USE DEF IInv
<1> DEFINE c == RestoreConfig(dir.config, args)
<1>1. /\ step = "config" /\ step' = "idle" /\ args' = Nothing /\ dir.config # Nothing
      /\ restored' = [config |-> c, given |-> args]
      /\ file' = file /\ dbs' = dbs /\ dir' = dir /\ kept' = kept
      /\ sound' = sound /\ loaded' = loaded
  BY DEF WriteConfig, backup
<1>2. restored' # Nothing
  BY <1>1, NothingIsNoFile
<1>3. args \in Lines /\ dir.config \in Configurations(Hosts)
  BY <1>1, RestoreAssumption DEF TypeOK
<1>4. /\ c.db = [host |-> DbHost(args), password |-> args.password]
      /\ c.mariadb = args.password
      /\ c.endpoint["primary_master_node"] = args.primary
      /\ c.hosts["mariadb_node"] = {DbHost(args)}
      /\ c.hosts["worker_nodes"] = args.workers
  BY <1>3, RestoreConfigTakes
<1>5. restored'.config = c /\ restored'.given = args
  BY <1>1
<1> HIDE DEF c
<1>6. TypeOK'
  BY <1>1 DEF TypeOK
<1>7. FileAsGiven'
  BY <1>2, <1>3, <1>4, <1>5 DEF FileAsGiven, DbHost
<1>8. Nothing' = Nothing
  BY DEF Nothing
<1>9. SoundSoFar'
  BY <1>1, <1>2, <1>5 DEF SoundSoFar, Holds, DbHost
<1> QED
  BY <1>1, <1>6, <1>7, <1>9 DEF DumpOfBackup

LEMMA EndStep == IInv /\ (GrantRefused \/ Aborted) => IInv'
<1> SUFFICES ASSUME IInv, GrantRefused \/ Aborted PROVE IInv'
  OBVIOUS
<1> USE DEF IInv
<1>1. /\ step' = "idle" /\ args' = Nothing
      /\ restored' \in {restored, Nothing}
      /\ step # "config" => restored' = restored
      /\ sound' => sound /\ step \in {"grant", "dump", "dumping"}
      /\ sound' \in BOOLEAN
      /\ file' = file /\ dbs' = dbs /\ dir' = dir /\ kept' = kept /\ loaded' = loaded
  <2>1. CASE GrantRefused
    <3>1. step = "grant" /\ sound' = sound /\ restored' = restored
      BY <2>1 DEF GrantRefused
    <3> QED
      BY <2>1, <3>1 DEF GrantRefused, backup, TypeOK
  <2>2. CASE Aborted
    <3>1. sound' = (sound /\ step \in {"dump", "dumping"})
      BY <2>2 DEF Aborted
    <3>2. sound' \in BOOLEAN
      BY <3>1
    <3>3. sound' => sound /\ step \in {"grant", "dump", "dumping"}
      BY <3>1
    <3> QED
      BY <2>2, <3>2, <3>3 DEF Aborted, backup, TypeOK
  <2> QED
    BY <2>1, <2>2
<1>2. TypeOK'
  BY <1>1 DEF TypeOK
<1>3. FileAsGiven'
  BY <1>1 DEF FileAsGiven, DbHost
<1>4. sound' => restored' = restored /\ restored # Nothing /\ Holds(restored.given)
  BY <1>1 DEF SoundSoFar
<1>5. SoundSoFar'
  BY <1>1, <1>4 DEF SoundSoFar, Holds, DbHost
<1> QED
  BY <1>1, <1>2, <1>3, <1>5 DEF DumpOfBackup

\* The role asks for the password that restore gave the database.
LEMMA InstallStep == IInv /\ Install => IInv'
<1> SUFFICES ASSUME IInv, Install PROVE IInv'
  OBVIOUS
<1> USE DEF IInv
<1> DEFINE c == restored.config
           o == restored.given
           h == DbHost(o)
<1>1. /\ step = "idle" /\ step' = step /\ restored # Nothing
      /\ dbs' = [k \in Hosts |-> IF k \in Section(c, "mariadb_node")
                                 THEN [dbs[k] EXCEPT !.password = c.mariadb] ELSE dbs[k]]
      /\ file' = file /\ dir' = dir /\ kept' = kept /\ args' = args
      /\ restored' = restored /\ sound' = sound /\ loaded' = loaded
  BY DEF Install, MariadbPassword, backup, restore
<1>2. /\ o \in Lines /\ h \in Hosts /\ o.password \in Nat
      /\ c.mariadb = o.password /\ Section(c, "mariadb_node") = {h}
  BY <1>1, DbHostIsHost DEF FileAsGiven, Section, Lines
<1>3. dbs' \in [Hosts -> [data : Data, password : Nat]]
  BY <1>1, <1>2 DEF TypeOK
<1>4. dbs'[h].password = o.password /\ dbs'[h].data = dbs[h].data
  BY <1>1, <1>2 DEF TypeOK
<1>5. TypeOK'
  BY <1>1, <1>3 DEF TypeOK
<1>6. FileAsGiven'
  BY <1>1 DEF FileAsGiven, DbHost
<1>7. SoundSoFar'
  BY <1>1, <1>4 DEF SoundSoFar, Holds, DbHost
<1> QED
  BY <1>1, <1>5, <1>6, <1>7 DEF DumpOfBackup

LEMMA NextIInv == IInv /\ [Next]_vars => IInv'
<1> SUFFICES ASSUME IInv, [Next]_vars PROVE IInv'
  OBVIOUS
<1>1. CASE UNCHANGED vars
  BY <1>1 DEF vars, backup, restore, IInv, TypeOK, FileAsGiven, DumpOfBackup, SoundSoFar,
              Holds, DbHost
<1> QED
  BY <1>1, WriteStep, BackupConfigStep, BackupDbStep, DumpEndsStep, EnsureDbConfigStep,
     GrantStep, SourceDbFilesStep, WriteConfigStep, EndStep, InstallStep DEF Next

THEOREM Invariance == Spec => []IInv
BY InitIInv, NextIInv, PTL DEF Spec

-----------------------------------------------------------------------------

\* Every variable keeps to its type, and a whole dump is that of the latest backup.
THEOREM RestoreTypeCorrect == Spec => []TypeOK
BY Invariance, PTL DEF IInv

\* After a restore of which no step failed, noticed or not, the new configuration
\* opens a database that holds the latest backup: for any sequence of backups and
\* restores before it that were given up, and with any hosts and passwords.
THEOREM RestoreIsComplete == Spec => []RestoreComplete
<1>1. IInv => RestoreComplete
  BY DEF IInv, SoundSoFar, FileAsGiven, Holds, RestoreComplete
<1> QED
  BY <1>1, Invariance, PTL

\* A cluster that was installed from a restored file goes by what the command line
\* said of the database, the endpoint and the workers.
THEOREM RestoredAsGiven == Spec => []SettingsAsGiven
<1>1. Init => SettingsAsGiven
  BY DEF Init, SettingsAsGiven
<1>2. IInv /\ SettingsAsGiven /\ [Next]_vars => SettingsAsGiven'
  <2> SUFFICES ASSUME IInv, SettingsAsGiven, [Next]_vars PROVE SettingsAsGiven'
    OBVIOUS
  <2>1. CASE Install
    <3>1. /\ restored # Nothing
          /\ site'.db = restored.config.db /\ site'.given = restored.given
          /\ site'.endpoint = restored.config.endpoint["primary_master_node"]
          /\ site'.hosts = Inventory(restored.config)
      BY <2>1 DEF Install, DbVars, Endpoint
    <3>2. /\ site'.hosts["worker_nodes"] = restored.config.hosts["worker_nodes"]
          /\ site'.hosts["mariadb_node"] = restored.config.hosts["mariadb_node"]
      BY <3>1, GroupNames DEF Inventory, Section
    <3> QED
      BY <3>1, <3>2 DEF IInv, FileAsGiven, SettingsAsGiven, DbHost
  <2>2. CASE site' = site
    BY <2>2 DEF SettingsAsGiven, DbHost
  <2> QED
    BY <2>1, <2>2 DEF Next, vars, Write, BackupConfig, BackupDb, DumpEnds, EnsureDbConfig,
       Grant, GrantRefused, SourceDbFiles, WriteConfig, Aborted
<1> QED
  BY <1>1, <1>2, Invariance, PTL DEF Spec

\* Masters that are named on the command line replace those of the backed up file.
MastersGiven ==
  /\ restored # Nothing /\ restored.given.masters # {}
       => restored.config.hosts["master_nodes"] = restored.given.masters
  /\ site # Nothing /\ site.given.masters # {}
       => site.hosts["master_nodes"] = site.given.masters

LEMMA WrittenMasters ==
  ASSUME NEW c \in Configurations(Hosts), NEW o, o.masters # {}
  PROVE  RestoreConfig(c, o).hosts["master_nodes"] = o.masters
<1>1. "hosts" \in DOMAIN c
  BY DEF Configurations
<1>2. RestoreConfig(c, o).hosts = RestoredHosts(c, o)
  BY <1>1 DEF RestoreConfig
<1> QED
  BY <1>2, GroupNames DEF RestoredHosts

\* A restore that names masters gives a cluster with exactly those: what is left
\* of the lost cluster's masters is left only when the command line names none.
THEOREM MastersAreAsGiven == Spec => []MastersGiven
<1>1. Init => MastersGiven
  BY DEF Init, MastersGiven
<1>2. IInv /\ MastersGiven /\ [Next]_vars => MastersGiven'
  <2> SUFFICES ASSUME IInv, MastersGiven, [Next]_vars PROVE MastersGiven'
    OBVIOUS
  <2>1. CASE Install
    <3>1. /\ restored' = restored /\ restored # Nothing
          /\ site'.given = restored.given /\ site'.hosts = Inventory(restored.config)
      BY <2>1 DEF Install, backup, restore
    <3>2. site'.hosts["master_nodes"] = restored.config.hosts["master_nodes"]
      BY <3>1, GroupNames DEF Inventory, Section
    <3> QED
      BY <3>1, <3>2 DEF MastersGiven
  <2>2. CASE WriteConfig
    <3>1. /\ restored' = [config |-> RestoreConfig(dir.config, args), given |-> args]
          /\ site' = site /\ dir.config # Nothing
      BY <2>2 DEF WriteConfig
    <3>2. dir.config \in Configurations(Hosts)
      BY <3>1, RestoreAssumption DEF IInv, TypeOK
    <3> QED
      BY <3>1, <3>2, WrittenMasters DEF MastersGiven
  <2>3. CASE site' = site /\ restored' \in {restored, Nothing}
    BY <2>3 DEF MastersGiven
  <2> QED
    BY <2>1, <2>2, <2>3 DEF Next, vars, backup, restore, Write, BackupConfig, BackupDb, DumpEnds,
       EnsureDbConfig, Grant, GrantRefused, SourceDbFiles, Aborted
<1> QED
  BY <1>1, <1>2, Invariance, PTL DEF Spec

=============================================================================
