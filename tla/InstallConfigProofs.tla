-------------------------- MODULE InstallConfigProofs --------------------------
(***************************************************************************)
(* What InstallConfig promises for all addresses, versions, command lines  *)
(* and configuration files.                                                *)
(***************************************************************************)
EXTENDS InstallConfig, TLAPS

\* The file a run works on exists once it is past StartRun, except that a
\* rebuild may have to make it; and only an address is rebuilt for.
FileThere ==
  /\ step \notin {"idle", "rebuild"} => Conf # NoConfig
  /\ step = "rebuild" => run.target \in Addresses
  /\ step = "version" => Subject = "own"

\* A database set up from "current" has the password in it, and there is no
\* such database while "current" is not there.
PasswordInFile ==
  ~torn /\ db # NoPassword /\ dbFrom = "current" =>
    file["current"] # NoConfig /\ file["current"].password = db

\* What of the command line is in the file before each step.
TakenOver ==
  /\ step \in {"update", "networks", "check", "database"} /\ Subject = "current" =>
       Conf.hostname = run.target /\ Conf.version = AskedVersion
  /\ step \in {"networks", "check", "database"} /\ Subject = "own" =>
       run.version \in {NotGiven, Conf.version}
  /\ step \in {"version", "networks", "check", "database"} /\ ~run.offline =>
       /\ Conf.product = run.product
       /\ run.containerd => Conf.containerd
       /\ Subject = "own" => Conf.containerd = run.containerd
  /\ step \in {"check", "database"} /\ run.networks /\ Conf.asHost =>
       Conf.networks = "given"

IInv == TypeOK /\ FileThere /\ PasswordInFile /\ HostByProduct /\ TakenOver

-----------------------------------------------------------------------------

LEMMA InvocationFields ==
  ASSUME NEW i \in Invocations
  PROVE  /\ i \in Invocation
         /\ i.target \in Addresses \union {"own"}
         /\ i.product \in Products
         /\ i.version \in Versions \union {NotGiven}
         /\ i.containerd \in BOOLEAN /\ i.networks \in BOOLEAN
         /\ i.offline \in BOOLEAN /\ i.force \in BOOLEAN
<1>1. i \in Invocation
  BY InstallAssumption
<1> QED
  BY <1>1 DEF Invocation

LEMMA SubjectIsAFile == Subject \in Files
BY DEF Subject, Files

\* Each of the four functions turns a configuration into a configuration.
LEMMA EditedIsConfig ==
  ASSUME TypeOK, FileThere, step \in EditSteps
  PROVE  Edited \in Config
<1>1. run \in Invocations /\ file["current"] \in Config \union {NoConfig}
  BY DEF TypeOK, Files
<1>2. /\ run.target \in Addresses \union {"own"} /\ run.product \in Products
      /\ run.version \in Versions \union {NotGiven} /\ run.containerd \in BOOLEAN
      /\ run.networks \in BOOLEAN
  BY <1>1, InvocationFields
<1>3. step # "rebuild" => Conf \in Config
  BY SubjectIsAFile DEF TypeOK, FileThere, Conf, EditSteps
<1>4. CASE step = "update"
  BY <1>2, <1>3, <1>4 DEF Edited, Updated, Config
<1>5. CASE step = "version"
  BY <1>2, <1>3, <1>5 DEF Edited, Versioned, Config
<1>6. CASE step = "networks"
  BY <1>2, <1>3, <1>6 DEF Edited, WithNetworks, Config
<1>7. CASE step = "rebuild"
  <2>1. NewPassword \in Nat \ {0}
    BY <1>1 DEF NewPassword, TypeOK, Config
  <2>2. AskedVersion \in Versions
    BY <1>2, InstallAssumption DEF AskedVersion
  <2>3. run.target \in Addresses
    BY <1>7 DEF FileThere
  <2>4. file["current"] # NoConfig =>
          file["current"].containerd \in BOOLEAN
            /\ file["current"].networks \in {"given"} \union Addresses
    BY <1>1 DEF Config
  <2>5. Rebuilt \in Config
    BY <1>2, <2>1, <2>2, <2>3, <2>4 DEF Rebuilt, Config
  <2> QED
    BY <2>5, <1>7 DEF Edited
<1> QED
  BY <1>4, <1>5, <1>6, <1>7 DEF EditSteps

\* What a write of the file leaves in it.
LEMMA Written ==
  ASSUME TypeOK, FileThere, step \in EditSteps,
         file' = [file EXCEPT ![Subject] = Edited], run' = run
  PROVE  /\ file' \in [Files -> Config \union {NoConfig}]
         /\ Subject' = Subject /\ Subject \in Files
         /\ Conf' = Edited
         /\ \A f \in Files \ {Subject} : file'[f] = file[f]
         /\ Edited \in Config /\ Edited # NoConfig
<1>1. Edited \in Config
  BY EditedIsConfig
<1>2. Subject' = Subject
  BY DEF Subject
<1> QED
  BY <1>1, <1>2, SubjectIsAFile, InstallAssumption DEF TypeOK, Conf

\* And what each leaves alone or sets, as far as the properties tell.
LEMMA EditsKeep ==
  ASSUME TypeOK, FileThere, step \in {"update", "version", "networks"}
  PROVE  /\ Edited.password = Conf.password
         /\ Edited.hostname = Conf.hostname
         /\ (Conf.asHost <=> Conf.product # "CMP") =>
              (Edited.asHost <=> Edited.product # "CMP")
<1>1. Conf \in Config
  BY SubjectIsAFile DEF TypeOK, FileThere, Conf
<1>2. run.product \in Products /\ run.containerd \in BOOLEAN
  BY InvocationFields DEF TypeOK
<1>3. CASE step = "update"
  BY <1>1, <1>2, <1>3 DEF Edited, Updated, Config
<1>4. CASE step = "version"
  BY <1>1, <1>4 DEF Edited, Versioned, Config
<1>5. CASE step = "networks"
  BY <1>1, <1>5 DEF Edited, WithNetworks, Config
<1> QED
  BY <1>3, <1>4, <1>5

LEMMA EditsSet ==
  ASSUME TypeOK, FileThere
  PROVE  /\ step = "update" =>
              /\ ~run.offline => /\ Edited.product = run.product
                                /\ Edited.containerd = run.containerd
              /\ Edited.version = Conf.version
         /\ step = "version" =>
              /\ run.version \in {NotGiven, Edited.version}
              /\ Edited.product = Conf.product /\ Edited.containerd = Conf.containerd
         /\ step = "networks" =>
              /\ run.networks /\ Edited.asHost => Edited.networks = "given"
              /\ Edited.product = Conf.product /\ Edited.version = Conf.version
              /\ Edited.containerd = Conf.containerd
         /\ step = "rebuild" =>
              /\ Edited.hostname = run.target /\ Edited.version = AskedVersion
              /\ Edited.product = run.product
              /\ Edited.asHost <=> run.product # "CMP"
              /\ Edited.password = NewPassword
              /\ run.networks => Edited.networks = "given"
              /\ run.containerd => Edited.containerd
<1>1. step \in {"update", "version", "networks"} => Conf \in Config
  BY SubjectIsAFile DEF TypeOK, FileThere, Conf
<1>2. /\ run.product \in Products /\ run.containerd \in BOOLEAN
      /\ run.offline \in BOOLEAN /\ run.networks \in BOOLEAN
  BY InvocationFields DEF TypeOK
<1>3. CASE step = "update"
  BY <1>1, <1>2, <1>3 DEF Edited, Updated, Config
<1>4. CASE step = "version"
  BY <1>1, <1>4 DEF Edited, Versioned, Config
<1>5. CASE step = "networks"
  BY <1>1, <1>2, <1>5 DEF Edited, WithNetworks, Config
<1>6. CASE step = "rebuild"
  BY <1>6 DEF Edited, Rebuilt
<1> QED
  BY <1>3, <1>4, <1>5, <1>6

-----------------------------------------------------------------------------

LEMMA InitIInv == Init => IInv
<1> SUFFICES ASSUME Init PROVE IInv
  OBVIOUS
<1>1. PICK c \in OwnConfigs :
        file = [f \in Files |-> IF f = "own" THEN c ELSE NoConfig]
  BY DEF Init
<1>2. file \in [Files -> Config \union {NoConfig}] /\ file["current"] = NoConfig
  BY <1>1, InstallAssumption DEF Files
<1>3. TypeOK
  <2>1. /\ run \in Invocations /\ step = "idle" /\ db = 0 /\ dbFrom = "current"
        /\ cluster = FALSE /\ made = 0 /\ torn = FALSE
    BY DEF Init, NoPassword
  <2>2. made \in 0 .. MaxPasswords
    BY <2>1, InstallAssumption
  <2> QED
    BY <1>2, <2>1, <2>2 DEF TypeOK, Steps, Files
<1> QED
  BY <1>2, <1>3 DEF Init, IInv, FileThere, PasswordInFile, HostByProduct, TakenOver

\* An update or a patch: the file is there and stays there.
LEMMA EditStep ==
  ASSUME IInv, NEW next \in {"version", "networks", "check"},
         step \in {"update", "version", "networks"},
         step = "update" => next = IF Subject = "own" THEN "version" ELSE "networks",
         step = "version" => next = "networks",
         step = "networks" => next = "check",
         WriteConfig(next), UNCHANGED historyVars
  PROVE  IInv'
<1> USE DEF IInv
<1>0. /\ file' = [file EXCEPT ![Subject] = Edited]
      /\ step' = next /\ run' = run
      /\ db' = db /\ dbFrom' = dbFrom /\ cluster' = cluster
      /\ made' = made /\ torn' = torn
  BY DEF WriteConfig, machineVars, historyVars
<1>1. step \in EditSteps
  BY DEF EditSteps
<1>2. /\ file' \in [Files -> Config \union {NoConfig}]
      /\ Subject' = Subject /\ Subject \in Files
      /\ Conf' = Edited
      /\ \A f \in Files \ {Subject} : file'[f] = file[f]
      /\ Edited \in Config /\ Edited # NoConfig
  BY <1>0, <1>1, Written
<1>3. /\ Edited.password = Conf.password
      /\ Edited.hostname = Conf.hostname
      /\ (Conf.asHost <=> Conf.product # "CMP") =>
           (Edited.asHost <=> Edited.product # "CMP")
  BY EditsKeep
<1>4. Conf # NoConfig
  BY DEF FileThere
<1>5. Subject = "current" =>
        file'["current"] = Edited /\ file["current"] = Conf
  BY <1>2 DEF Conf
<1>6. Subject = "own" => file'["current"] = file["current"]
  BY <1>2 DEF Files
<1>7. TypeOK'
  BY <1>0, <1>2 DEF TypeOK, Steps, EditSteps
<1>8. FileThere'
  BY <1>0, <1>2 DEF FileThere
<1>9. PasswordInFile'
  BY <1>0, <1>2, <1>3, <1>4, <1>5, <1>6 DEF PasswordInFile, Files
<1>10. HostByProduct'
  BY <1>2, <1>3, <1>4, <1>5, <1>6 DEF HostByProduct, Files
<1>11. AskedVersion' = AskedVersion
  BY <1>0 DEF AskedVersion
<1>12. TakenOver'
  <2>1. CASE step = "update"
    BY <2>1, <1>0, <1>2, <1>3, <1>11, EditsSet DEF TakenOver, Files
  <2>2. CASE step = "version"
    <3>1. Subject = "own"
      BY <2>2 DEF FileThere
    <3> QED
      BY <2>2, <3>1, <1>0, <1>2, <1>3, <1>11, EditsSet DEF TakenOver
  <2>3. CASE step = "networks"
    BY <2>3, <1>0, <1>2, <1>3, <1>11, EditsSet DEF TakenOver
  <2> QED
    BY <2>1, <2>2, <2>3
<1> QED
  BY <1>7, <1>8, <1>9, <1>10, <1>12

LEMMA RebuildStep == IInv /\ Rebuild => IInv'
<1> SUFFICES ASSUME IInv, Rebuild PROVE IInv'
  OBVIOUS
<1> USE DEF IInv
<1>0. /\ file' = [file EXCEPT ![Subject] = Edited]
      /\ step = "rebuild" /\ step' = "check" /\ run' = run
      /\ db' = db /\ dbFrom' = dbFrom /\ cluster' = cluster
      /\ torn' = torn
      /\ made' = IF file["current"] = NoConfig THEN made + 1 ELSE made
      /\ file["current"] # NoConfig \/ made < MaxPasswords
  BY DEF Rebuild, WriteConfig, machineVars
<1>1. step \in EditSteps
  BY <1>0 DEF EditSteps
<1>2. /\ file' \in [Files -> Config \union {NoConfig}]
      /\ Subject' = Subject /\ Conf' = Edited
      /\ Edited \in Config /\ Edited # NoConfig
  BY <1>0, <1>1, Written
<1>3. Subject = "current"
  BY <1>0, InstallAssumption DEF FileThere, Subject
<1>4. Conf' = file'["current"]
  BY <1>2, <1>3 DEF Conf
<1>5. made' \in 0 .. MaxPasswords
  BY <1>0, InstallAssumption DEF TypeOK
<1>6. TypeOK'
  BY <1>0, <1>2, <1>5 DEF TypeOK, Steps
<1>7. FileThere'
  BY <1>0, <1>2 DEF FileThere
<1>8. /\ Edited.hostname = run.target /\ Edited.version = AskedVersion
      /\ Edited.product = run.product
      /\ Edited.asHost <=> run.product # "CMP"
      /\ Edited.password = NewPassword
      /\ run.networks => Edited.networks = "given"
      /\ run.containerd => Edited.containerd
  BY <1>0, EditsSet
<1>9. PasswordInFile'
  BY <1>0, <1>2, <1>4, <1>8 DEF PasswordInFile, NewPassword
<1>10. HostByProduct'
  BY <1>2, <1>4, <1>8 DEF HostByProduct
<1>11. AskedVersion' = AskedVersion
  BY <1>0 DEF AskedVersion
<1>12. TakenOver'
  BY <1>0, <1>2, <1>3, <1>8, <1>11 DEF TakenOver
<1> QED
  BY <1>6, <1>7, <1>9, <1>10, <1>12

\* A run begins, or one ends, with the files as they are.
LEMMA StartRunStep == IInv /\ StartRun => IInv'
<1> SUFFICES ASSUME IInv, StartRun PROVE IInv'
  OBVIOUS
<1> USE DEF IInv
<1>1. PICK i \in Invocations :
        /\ i.target = "own" => file["own"] # NoConfig
        /\ run' = i
        /\ step' = IF i.target = "own" \/ Reusable(i) THEN "update" ELSE "rebuild"
  BY DEF StartRun
<1>2. /\ file' = file /\ db' = db /\ dbFrom' = dbFrom /\ cluster' = cluster
      /\ made' = made /\ torn' = torn
  BY DEF StartRun, machineVars
<1>3. Subject' = IF i.target = "own" THEN "own" ELSE "current"
  BY <1>1 DEF Subject
<1>4. i.target \in Addresses \union {"own"}
  BY InvocationFields
<1>5. TypeOK'
  BY <1>1, <1>2 DEF TypeOK, Steps, EditSteps
<1>6. step' = "update" /\ i.target # "own" =>
        /\ file["current"] # NoConfig
        /\ file["current"].hostname = i.target
        /\ file["current"].version = IF i.version = NotGiven THEN Shipped ELSE i.version
  BY <1>1 DEF Reusable
<1>7. Conf' = IF i.target = "own" THEN file["own"] ELSE file["current"]
  BY <1>2, <1>3 DEF Conf
<1>8. FileThere'
  BY <1>1, <1>3, <1>4, <1>6, <1>7 DEF FileThere
<1>9. PasswordInFile' /\ HostByProduct'
  BY <1>2 DEF PasswordInFile, HostByProduct
<1>10. TakenOver'
  BY <1>1, <1>3, <1>6, <1>7 DEF TakenOver, AskedVersion
<1> QED
  BY <1>5, <1>8, <1>9, <1>10

LEMMA PlaybookStep ==
  ASSUME IInv, CheckDeployed \/ InstallDatabase \/ InstallCluster \/ RunFails
  PROVE  IInv'
<1> USE DEF IInv
<1>1. /\ file' = file /\ run' = run /\ made' = made /\ torn' = torn
      /\ Subject' = Subject /\ Conf' = Conf /\ AskedVersion' = AskedVersion
  BY DEF CheckDeployed, InstallDatabase, InstallCluster, RunFails, machineVars,
         historyVars, Subject, Conf, AskedVersion
<1>2. /\ step' \in {"idle", "database", "cluster"}
      /\ step' = "database" => step = "check"
      /\ step' = "cluster" => step = "database"
      /\ cluster' \in BOOLEAN
  BY DEF CheckDeployed, InstallDatabase, InstallCluster, RunFails, machineVars,
         historyVars, TypeOK
<1>3. \/ db' = db /\ dbFrom' = dbFrom
      \/ /\ step = "database" /\ db' = Conf.password
         /\ dbFrom' = Subject
  BY DEF CheckDeployed, InstallDatabase, InstallCluster, RunFails, machineVars
<1>4. step = "database" => Conf \in Config
  BY SubjectIsAFile DEF TypeOK, FileThere, Conf
<1>5. TypeOK'
  <2>1. db' \in Nat
    BY <1>3, <1>4 DEF TypeOK, Config
  <2>2. dbFrom' \in Files
    BY <1>3, SubjectIsAFile DEF TypeOK
  <2> QED
    BY <1>1, <1>2, <2>1, <2>2 DEF TypeOK, Steps
<1>6. FileThere'
  BY <1>1, <1>2 DEF FileThere
<1>7. PasswordInFile'
  BY <1>1, <1>3, <1>4, InstallAssumption DEF PasswordInFile, Conf
<1>8. HostByProduct'
  BY <1>1 DEF HostByProduct
<1>9. TakenOver'
  BY <1>1, <1>2 DEF TakenOver
<1> QED
  BY <1>5, <1>6, <1>7, <1>8, <1>9

LEMMA KilledStep == IInv /\ KilledWriting => IInv'
<1> SUFFICES ASSUME IInv, KilledWriting PROVE IInv'
  OBVIOUS
<1> USE DEF IInv
<1>1. /\ file' = [file EXCEPT ![Subject] = NoConfig]
      /\ torn' = (torn \/ Subject = "current")
      /\ step' = "idle" /\ run' = run /\ db' = db /\ dbFrom' = dbFrom
      /\ cluster' = cluster /\ made' = made
  BY DEF KilledWriting, machineVars
<1>2. TypeOK'
  BY <1>1, SubjectIsAFile DEF TypeOK, Steps
<1>3. Subject = "own" => file'["current"] = file["current"] /\ torn' = torn
  BY <1>1 DEF TypeOK, Files
<1>4. Subject = "current" => file'["current"] = NoConfig /\ torn'
  BY <1>1 DEF TypeOK, Files
<1>5. PasswordInFile' /\ HostByProduct'
  BY <1>1, <1>3, <1>4, SubjectIsAFile DEF PasswordInFile, HostByProduct, Files
<1>6. FileThere' /\ TakenOver'
  BY <1>1 DEF FileThere, TakenOver
<1> QED
  BY <1>2, <1>5, <1>6

LEMMA NextIInv == IInv /\ [Next]_vars => IInv'
<1> SUFFICES ASSUME IInv, [Next]_vars PROVE IInv'
  OBVIOUS
<1>1. CASE StartRun
  BY <1>1, StartRunStep
<1>2. CASE UpdateConfig
  <2>1. (IF run.target = "own" THEN "version" ELSE "networks")
          = IF Subject = "own" THEN "version" ELSE "networks"
    BY DEF Subject
  <2> QED
    BY <1>2, <2>1, EditStep DEF UpdateConfig
<1>3. CASE PatchVersion
  BY <1>3, EditStep DEF PatchVersion
<1>4. CASE PatchHostagent
  BY <1>4, EditStep DEF PatchHostagent
<1>5. CASE Rebuild
  BY <1>5, RebuildStep
<1>6. CASE CheckDeployed \/ InstallDatabase \/ InstallCluster \/ RunFails
  BY <1>6, PlaybookStep
<1>7. CASE KilledWriting
  BY <1>7, KilledStep
<1>8. CASE UNCHANGED vars
  BY <1>8 DEF vars, machineVars, historyVars, IInv, TypeOK, FileThere, PasswordInFile,
              HostByProduct, TakenOver, Subject, Conf, AskedVersion
<1> QED
  BY <1>1, <1>2, <1>3, <1>4, <1>5, <1>6, <1>7, <1>8 DEF Next

THEOREM Invariant == Spec => []IInv
BY InitIInv, NextIInv, PTL DEF Spec

\* Every variable keeps to its type.
THEOREM TypeCorrect == Spec => []TypeOK
BY Invariant, PTL DEF IInv

\* The node of a configuration run.py made is a host exactly when its product is
\* not CMP, whatever invocations it went through and wherever they ended.
THEOREM HostIsByProduct == Spec => []HostByProduct
BY Invariant, PTL DEF IInv

\* A database that an invocation installed is met by every later one with its own
\* password, unless the file was lost in a write.
THEOREM PasswordIsKept == Spec => []PasswordKept
<1>1. IInv => PasswordKept
  BY DEF IInv, PasswordInFile, PasswordKept, Conf
<1> QED
  BY <1>1, Invariant, PTL

\* When the playbook starts, the options of this command line are in the file it
\* reads.
THEOREM OptionsAreTaken == Spec => []OptionsTakeEffect
<1>1. IInv => OptionsTakeEffect
  BY DEF IInv, TakenOver, OptionsTakeEffect, Installing
<1> QED
  BY <1>1, Invariant, PTL
=============================================================================
