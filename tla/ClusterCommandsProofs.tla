----------------------- MODULE ClusterCommandsProofs -----------------------
(***************************************************************************)
(* What ClusterCommands promises for any number of machines and nodes, all *)
(* configuration files, versions and command lines.                        *)
(***************************************************************************)
EXTENDS ClusterCommands, FiniteSetTheorems, WellFoundedInduction, TLAPS

-----------------------------------------------------------------------------
(* Playbooks and plays *)

Effects == {"prepare", "start server", "start agent", "verify servers", "create cluster",
            "major tasks", "forced major tasks", "patch version"}
Joins == {"start server", "start agent"}

\* Only plays over the groups of Kubernetes hosts start k3s.
GoodPlay(q) ==
  /\ q.groups \subseteq AllGroups /\ q.effect \in Effects
  /\ q.effect \in Joins => q.groups \subseteq KubeGroups

Shaped(P) ==
  Len(P) \in Nat /\ DOMAIN P = 1..Len(P) /\ \A i \in DOMAIN P : GoodPlay(P[i])

LEMMA GroupNames ==
  Groups = {"mariadb_node", "mariadb_ha_nodes", "clickhouse_node", "registry_node",
            "primary_master_node", "master_nodes", "worker_nodes"}
<1>1. DOMAIN Sections = 1..7
  BY DEF Sections
<1>2. /\ Sections[1] = "mariadb_node" /\ Sections[2] = "mariadb_ha_nodes"
      /\ Sections[3] = "clickhouse_node" /\ Sections[4] = "registry_node"
      /\ Sections[5] = "primary_master_node" /\ Sections[6] = "master_nodes"
      /\ Sections[7] = "worker_nodes"
  BY DEF Sections
<1>3. \A i \in 1..7 : i \in {1, 2, 3, 4, 5, 6, 7}
  OBVIOUS
<1> QED
  BY <1>1, <1>2, <1>3 DEF Groups

LEMMA GroupSets ==
  /\ Groups \subseteq AllGroups /\ KubeGroups \subseteq Groups
  /\ {"nodes", "primary_master_node", "master_nodes", "worker_nodes", "mariadb_node",
      "mariadb_ha_nodes", "clickhouse_node", "registry_node"} \subseteq AllGroups
BY GroupNames DEF AllGroups, KubeGroups, Joining

LEMMA ServicesAreKinds == DOMAIN Services \subseteq Kinds
BY DEF Kinds

LEMMA PlayFields ==
  \A groups, fatal, effect : /\ Play(groups, fatal, effect).groups = groups
                            /\ Play(groups, fatal, effect).fatal = fatal
                            /\ Play(groups, fatal, effect).effect = effect
BY DEF Play

LEMMA OneGroup ==
  /\ \A g \in AllGroups : {g} \in SUBSET AllGroups
  /\ \A g \in KubeGroups : {g} \in SUBSET KubeGroups
  /\ AllGroups \in SUBSET AllGroups /\ KubeGroups \in SUBSET AllGroups
  /\ {"primary_master_node", "master_nodes"} \in SUBSET AllGroups
  /\ "primary_master_node" \in KubeGroups /\ "master_nodes" \in KubeGroups
  /\ "worker_nodes" \in KubeGroups
BY GroupSets DEF KubeGroups, Joining

LEMMA Preparing ==
  ASSUME NEW groups \in SUBSET AllGroups, NEW fatal, NEW effect \in Effects \ Joins
  PROVE  GoodPlay(Play(groups, fatal, effect))
BY PlayFields DEF GoodPlay

LEMMA Starting ==
  ASSUME NEW g \in KubeGroups, NEW fatal, NEW effect \in Joins
  PROVE  GoodPlay(Play({g}, fatal, effect))
<1>1. effect \in Effects /\ {g} \subseteq AllGroups
  BY GroupSets DEF Joins, Effects
<1> QED
  BY <1>1, PlayFields DEF GoodPlay

LEMMA EffectNames ==
  /\ {"prepare", "verify servers", "create cluster", "major tasks", "forced major tasks",
      "patch version"} \subseteq Effects \ Joins
  /\ {"start server", "start agent"} \subseteq Joins
BY DEF Effects, Joins

LEMMA InstallPlays == Shaped(InstallPlaybook)
<1>1. Len(InstallPlaybook) = 13 /\ DOMAIN InstallPlaybook = 1..13
  BY DEF InstallPlaybook
<1>2. \A i \in 1..13 : i \in {1, 2, 3, 4, 5, 6, 7, 8, 9, 10, 11, 12, 13}
  OBVIOUS
<1>3. /\ InstallPlaybook[1] = Play(AllGroups, TRUE, "prepare")
      /\ InstallPlaybook[2] = Play({"mariadb_node"}, FALSE, "prepare")
      /\ InstallPlaybook[3] = Play({"mariadb_ha_nodes"}, FALSE, "prepare")
      /\ InstallPlaybook[4] = Play({"clickhouse_node"}, FALSE, "prepare")
  BY DEF InstallPlaybook
<1>4. /\ GoodPlay(InstallPlaybook[1])
      /\ GoodPlay(InstallPlaybook[2])
      /\ GoodPlay(InstallPlaybook[3])
      /\ GoodPlay(InstallPlaybook[4])
  <2>1. "mariadb_node" \in AllGroups /\ "mariadb_ha_nodes" \in AllGroups
    BY GroupSets
  <2>2. GoodPlay(InstallPlaybook[1]) /\ GoodPlay(InstallPlaybook[2])
    BY <1>3, <2>1, Preparing, OneGroup, EffectNames
  <2>3. GoodPlay(InstallPlaybook[3]) /\ GoodPlay(InstallPlaybook[4])
    BY <1>3, <2>1, Preparing, OneGroup, GroupSets, EffectNames
  <2> QED
    BY <2>2, <2>3
<1>5. /\ InstallPlaybook[5] = Play({"registry_node"}, FALSE, "prepare")
      /\ InstallPlaybook[6] = Play({"primary_master_node"}, FALSE, "start server")
      /\ InstallPlaybook[7] = Play({"master_nodes"}, FALSE, "start server")
  BY DEF InstallPlaybook
<1>6. /\ GoodPlay(InstallPlaybook[5])
      /\ GoodPlay(InstallPlaybook[6])
      /\ GoodPlay(InstallPlaybook[7])
  BY <1>5, Preparing, Starting, OneGroup, GroupSets, EffectNames
<1>7. /\ InstallPlaybook[8] = Play({"master_nodes"}, FALSE, "verify servers")
      /\ InstallPlaybook[9] = Play({"worker_nodes"}, FALSE, "start agent")
      /\ InstallPlaybook[10] = Play(KubeGroups, FALSE, "prepare")
  BY DEF InstallPlaybook
<1>8. /\ GoodPlay(InstallPlaybook[8])
      /\ GoodPlay(InstallPlaybook[9])
      /\ GoodPlay(InstallPlaybook[10])
  BY <1>7, Preparing, Starting, OneGroup, GroupSets, EffectNames
<1>9. /\ InstallPlaybook[11] = Play({"primary_master_node"}, FALSE, "create cluster")
      /\ InstallPlaybook[12] = Play({"clickhouse_node"}, FALSE, "prepare")
      /\ InstallPlaybook[13] = Play(KubeGroups, FALSE, "prepare")
  BY DEF InstallPlaybook
<1>10. /\ GoodPlay(InstallPlaybook[11])
      /\ GoodPlay(InstallPlaybook[12])
      /\ GoodPlay(InstallPlaybook[13])
  BY <1>9, Preparing, Starting, OneGroup, GroupSets, EffectNames
<1> QED
  BY <1>1, <1>2, <1>4, <1>6, <1>8, <1>10 DEF Shaped

LEMMA AddNodePlays == Shaped(AddNodePlaybook)
<1>1. Len(AddNodePlaybook) = 2 /\ DOMAIN AddNodePlaybook = 1..2
  BY DEF AddNodePlaybook
<1>2. /\ AddNodePlaybook[1] = Play(AllGroups, FALSE, "prepare")
      /\ AddNodePlaybook[2] = Play({"worker_nodes"}, FALSE, "start agent")
  BY DEF AddNodePlaybook
<1>3. \A i \in 1..2 : i \in {1, 2}
  OBVIOUS
<1>4. /\ GoodPlay(AddNodePlaybook[1])
      /\ GoodPlay(AddNodePlaybook[2])
  BY <1>2, Preparing, Starting, OneGroup, GroupSets, EffectNames
<1> QED
  BY <1>1, <1>3, <1>4 DEF Shaped

LEMMA UpgradePlays == Shaped(UpgradePlaybook)
<1>1. Len(UpgradePlaybook) = 5 /\ DOMAIN UpgradePlaybook = 1..5
  BY DEF UpgradePlaybook
<1>2. /\ UpgradePlaybook[1] = Play(AllGroups, TRUE, "major tasks")
      /\ UpgradePlaybook[2] = Play({"primary_master_node"}, TRUE, "patch version")
      /\ UpgradePlaybook[3] = Play({"master_nodes"}, TRUE, "prepare")
      /\ UpgradePlaybook[4] = Play({"worker_nodes"}, TRUE, "prepare")
      /\ UpgradePlaybook[5] = Play(KubeGroups, TRUE, "prepare")
  BY DEF UpgradePlaybook
<1>3. \A i \in 1..5 : i \in {1, 2, 3, 4, 5}
  OBVIOUS
<1>4. /\ GoodPlay(UpgradePlaybook[1])
      /\ GoodPlay(UpgradePlaybook[2])
      /\ GoodPlay(UpgradePlaybook[3])
      /\ GoodPlay(UpgradePlaybook[4])
      /\ GoodPlay(UpgradePlaybook[5])
  BY <1>2, Preparing, Starting, OneGroup, GroupSets, EffectNames
<1> QED
  BY <1>1, <1>3, <1>4 DEF Shaped

LEMMA ControllerPlays == Shaped(ControllerPlaybook)
<1>1. Len(ControllerPlaybook) = 2 /\ DOMAIN ControllerPlaybook = 1..2
  BY DEF ControllerPlaybook
<1>2. /\ ControllerPlaybook[1] = Play(AllGroups, FALSE, "major tasks")
      /\ ControllerPlaybook[2] = Play({"primary_master_node", "master_nodes"}, FALSE, "prepare")
  BY DEF ControllerPlaybook
<1>3. \A i \in 1..2 : i \in {1, 2}
  OBVIOUS
<1>4. /\ GoodPlay(ControllerPlaybook[1])
      /\ GoodPlay(ControllerPlaybook[2])
  BY <1>2, Preparing, Starting, OneGroup, GroupSets, EffectNames
<1> QED
  BY <1>1, <1>3, <1>4 DEF Shaped

LEMMA HostPlays == Shaped(HostPlaybook)
<1>1. Len(HostPlaybook) = 2 /\ DOMAIN HostPlaybook = 1..2
  BY DEF HostPlaybook
<1>2. /\ HostPlaybook[1] = Play(AllGroups, FALSE, "forced major tasks")
      /\ HostPlaybook[2] = Play({"worker_nodes"}, FALSE, "prepare")
  BY DEF HostPlaybook
<1>3. \A i \in 1..2 : i \in {1, 2}
  OBVIOUS
<1>4. /\ GoodPlay(HostPlaybook[1])
      /\ GoodPlay(HostPlaybook[2])
  BY <1>2, Preparing, Starting, OneGroup, GroupSets, EffectNames
<1> QED
  BY <1>1, <1>3, <1>4 DEF Shaped

LEMMA FinalPlays == Shaped(FinalPlaybook)
<1>1. Len(FinalPlaybook) = 5 /\ DOMAIN FinalPlaybook = 1..5
  BY DEF FinalPlaybook
<1>2. /\ FinalPlaybook[1] = Play(AllGroups, FALSE, "prepare")
      /\ FinalPlaybook[2] = Play({"primary_master_node"}, FALSE, "patch version")
      /\ FinalPlaybook[3] = Play({"master_nodes"}, FALSE, "prepare")
      /\ FinalPlaybook[4] = Play({"worker_nodes"}, FALSE, "prepare")
      /\ FinalPlaybook[5] = Play(KubeGroups, FALSE, "prepare")
  BY DEF FinalPlaybook
<1>3. \A i \in 1..5 : i \in {1, 2, 3, 4, 5}
  OBVIOUS
<1>4. /\ GoodPlay(FinalPlaybook[1])
      /\ GoodPlay(FinalPlaybook[2])
      /\ GoodPlay(FinalPlaybook[3])
      /\ GoodPlay(FinalPlaybook[4])
      /\ GoodPlay(FinalPlaybook[5])
  BY <1>2, Preparing, Starting, OneGroup, GroupSets, EffectNames
<1> QED
  BY <1>1, <1>3, <1>4 DEF Shaped

LEMMA ServicesPlays == Shaped(ServicesPlaybook)
<1>1. Len(ServicesPlaybook) = 1 /\ DOMAIN ServicesPlaybook = 1..1
  BY DEF ServicesPlaybook
<1>2. /\ ServicesPlaybook[1] = Play(AllGroups, FALSE, "prepare")
  BY DEF ServicesPlaybook
<1>3. \A i \in 1..1 : i = 1
  OBVIOUS
<1>4. /\ GoodPlay(ServicesPlaybook[1])
  BY <1>2, Preparing, Starting, OneGroup, GroupSets, EffectNames
<1> QED
  BY <1>1, <1>3, <1>4 DEF Shaped

LEMMA PlaybookShaped == ASSUME NEW k \in Kinds PROVE Shaped(Playbook[k])
BY InstallPlays, AddNodePlays, UpgradePlays, ControllerPlays, HostPlays, FinalPlays,
   ServicesPlays DEF Playbook

LEMMA Earliest ==
  ASSUME NEW S \in SUBSET Nat, S # {}
  PROVE  \E j \in S : \A k \in S : j \leq k
<1>1. PICK j \in S : \A k \in S : ~(<<k, j>> \in OpToRel(<, Nat))
  BY WFMin, NatLessThanWellFounded
<1>2. \A k \in S : ~(k < j)
  BY <1>1 DEF OpToRel
<1> QED
  BY <1>2

LEMMA LeastOf ==
  ASSUME NEW S \in SUBSET Nat, S # {}
  PROVE  Min(S) \in S /\ \A k \in S : Min(S) \leq k
BY Earliest DEF Min

-----------------------------------------------------------------------------
(* Command records: what the operators on them leave alone *)

InPlay(r) ==
  /\ r \in Runs /\ r.phase = "plays"
  /\ r.play \in DOMAIN Playbook[r.kind] /\ r.left \subseteq HostsOf(r, r.play)

RunOK(r) ==
  /\ r \in Runs
  /\ IF r.phase = "plays" THEN /\ r.play \in DOMAIN Playbook[r.kind] /\ r.left # {}
                               /\ r.left \subseteq HostsOf(r, r.play)
     ELSE r.left = {}

\* s has failed and forgotten all, or is about what r is about.
Keeps(r, s) ==
  \/ s = Exit(1)
  \/ /\ s.kind = r.kind /\ s.target = r.target /\ s.hosts = r.hosts
     /\ s.lenient = r.lenient /\ s.checked = r.checked /\ s.major = r.major

LEMMA BlankOK == Blank \in Runs /\ RunOK(Blank)
<1>1. NoHosts \in [AllGroups -> SUBSET Nodes]
  BY DEF NoHosts
<1>2. "startStop" \in Kinds
  BY ServicesAreKinds DEF Services
<1>3. Blank \in Runs
  BY <1>1, <1>2 DEF Blank, Runs
<1> QED
  BY <1>3 DEF RunOK, Blank

LEMMA ExitOK ==
  ASSUME NEW status \in {0, 1}
  PROVE  RunOK(Exit(status)) /\ Exit(status).phase = "ended" /\ Exit(status).checked = FALSE
<1>1. Exit(status) \in Runs
  BY BlankOK DEF Exit, Runs
<1> QED
  BY <1>1 DEF RunOK, Exit, Blank

LEMMA HostsAreNodes ==
  ASSUME NEW r \in Runs, NEW i \in DOMAIN Playbook[r.kind]
  PROVE  /\ HostsOf(r, i) \subseteq Nodes
         /\ HostsOf(r, i) = (UNION {r.hosts[g] : g \in Playbook[r.kind][i].groups}) \ r.lost
<1>1. r.kind \in Kinds /\ r.hosts \in [AllGroups -> SUBSET Nodes]
  BY DEF Runs
<1>2. Playbook[r.kind][i].groups \subseteq AllGroups
  BY <1>1, PlaybookShaped DEF Shaped, GoodPlay
<1> QED
  BY <1>1, <1>2 DEF HostsOf

LEMMA EndedOK ==
  ASSUME NEW r \in Runs
  PROVE  RunOK(Ended(r)) /\ Ended(r).phase = "ended" /\ Keeps(r, Ended(r))
<1>1. CASE Ended(r) = Exit(1)
  BY <1>1, ExitOK DEF Keeps
<1>2. CASE Ended(r) = [r EXCEPT !.phase = "ended", !.left = {}]
  <2>1. Ended(r) \in Runs
    BY <1>2 DEF Runs
  <2>2. /\ Ended(r).phase = "ended" /\ Ended(r).left = {}
        /\ Ended(r).kind = r.kind /\ Ended(r).target = r.target /\ Ended(r).hosts = r.hosts
        /\ Ended(r).lenient = r.lenient /\ Ended(r).checked = r.checked /\ Ended(r).major = r.major
    BY <1>2 DEF Runs
  <2> QED
    BY <2>1, <2>2 DEF RunOK, Keeps
<1> QED
  BY <1>1, <1>2 DEF Ended

LEMMA GotoOK ==
  ASSUME NEW r \in Runs, r.phase = "plays", NEW i \in Nat \ {0}
  PROVE  RunOK(Goto(r, i)) /\ Keeps(r, Goto(r, i))
<1> DEFINE later == {j \in i..Len(Playbook[r.kind]) : HostsOf(r, j) # {}}
           n == Min(later)
           s == [r EXCEPT !.play = n, !.left = HostsOf(r, n)]
<1>1. Goto(r, i) = IF later = {} THEN Ended(r) ELSE s
  BY DEF Goto
<1>2. CASE later = {}
  BY <1>1, <1>2, EndedOK
<1>3. CASE later # {}
  <2>1. r.kind \in Kinds
    BY DEF Runs
  <2>2. /\ Len(Playbook[r.kind]) \in Nat
        /\ DOMAIN Playbook[r.kind] = 1..Len(Playbook[r.kind])
    BY <2>1, PlaybookShaped DEF Shaped
  <2>3. /\ later \subseteq Nat /\ later \subseteq DOMAIN Playbook[r.kind]
        /\ \A j \in later : HostsOf(r, j) # {}
    BY <2>2
  <2>4. n \in later
    <3> HIDE DEF later
    <3> QED
      BY <1>3, <2>3, LeastOf
  <2>5. n \in DOMAIN Playbook[r.kind] /\ HostsOf(r, n) # {} /\ n \in Nat
    <3> HIDE DEF later
    <3> QED
      BY <2>3, <2>4
  <2>6. HostsOf(r, n) \subseteq Nodes
    BY <2>5, HostsAreNodes
  <2> HIDE DEF n
  <2>7. s \in Runs
    BY <2>6, <2>5 DEF Runs
  <2>8. /\ s.play = n /\ s.left = HostsOf(r, n) /\ s.kind = r.kind /\ s.hosts = r.hosts
        /\ s.lost = r.lost /\ s.phase = "plays" /\ s.target = r.target
        /\ s.lenient = r.lenient /\ s.checked = r.checked /\ s.major = r.major
    BY DEF Runs
  <2>9. HostsOf(s, n) = HostsOf(r, n)
    BY <2>8 DEF HostsOf
  <2>10. RunOK(s)
    BY <2>5, <2>7, <2>8, <2>9 DEF RunOK
  <2>11. Keeps(r, s)
    BY <2>8 DEF Keeps
  <2> QED
    BY <1>1, <1>3, <2>10, <2>11
<1> QED
  BY <1>2, <1>3

LEMMA SettleOK ==
  ASSUME NEW r, InPlay(r)
  PROVE  RunOK(Settle(r)) /\ Keeps(r, Settle(r))
<1>1. r \in Runs /\ r.phase = "plays"
  BY DEF InPlay
<1>2. CASE r.left # {}
  <2>1. Settle(r) = r
    BY <1>2 DEF Settle
  <2> QED
    BY <1>2, <2>1 DEF RunOK, Keeps, InPlay
<1>3. CASE r.left = {}
  <2>1. Settle(r) = Ended(r) \/ Settle(r) = Goto(r, r.play + 1)
    BY <1>3 DEF Settle, NextPlay
  <2>2. r.play + 1 \in Nat \ {0}
    BY <1>1 DEF Runs
  <2> QED
    BY <1>1, <2>1, <2>2, EndedOK, GotoOK
<1> QED
  BY <1>2, <1>3

LEMMA KeepsTrans ==
  ASSUME NEW r, NEW s, NEW t, Keeps(r, s), Keeps(s, t), s # Exit(1)
  PROVE  Keeps(r, t)
BY DEF Keeps

LEMMA DoneOK ==
  ASSUME NEW r, InPlay(r), NEW n, NEW joined \in SUBSET Nodes
  PROVE  LET s == Settle([r EXCEPT !.left = r.left \ {n}, !.joined = joined])
             t == Settle([r EXCEPT !.left = r.left \ {n}])
         IN  RunOK(s) /\ Keeps(r, s) /\ RunOK(t) /\ Keeps(r, t)
<1> DEFINE s == [r EXCEPT !.left = r.left \ {n}, !.joined = joined]
           t == [r EXCEPT !.left = r.left \ {n}]
<1>1. s \in Runs /\ t \in Runs
  BY DEF InPlay, Runs
<1>2. /\ s.left = r.left \ {n} /\ s.kind = r.kind /\ s.hosts = r.hosts /\ s.lost = r.lost
      /\ s.phase = r.phase /\ s.play = r.play /\ s.target = r.target
      /\ s.lenient = r.lenient /\ s.checked = r.checked /\ s.major = r.major
  BY DEF InPlay, Runs
<1>3. /\ t.left = r.left \ {n} /\ t.kind = r.kind /\ t.hosts = r.hosts /\ t.lost = r.lost
      /\ t.phase = r.phase /\ t.play = r.play /\ t.target = r.target
      /\ t.lenient = r.lenient /\ t.checked = r.checked /\ t.major = r.major
  BY DEF InPlay, Runs
<1> HIDE DEF s, t
<1>4. HostsOf(s, s.play) = HostsOf(r, r.play) /\ HostsOf(t, t.play) = HostsOf(r, r.play)
  BY <1>2, <1>3 DEF HostsOf
<1>5. InPlay(s) /\ InPlay(t)
  BY <1>1, <1>2, <1>3, <1>4 DEF InPlay
<1>6. /\ RunOK(Settle(s)) /\ Keeps(s, Settle(s))
      /\ RunOK(Settle(t)) /\ Keeps(t, Settle(t))
  BY <1>5, SettleOK
<1>7. Keeps(r, Settle(s)) /\ Keeps(r, Settle(t))
  BY <1>2, <1>3, <1>6 DEF Keeps
<1> QED
  BY <1>6, <1>7 DEF s, t

LEMMA LoseOK ==
  ASSUME NEW r, InPlay(r), NEW failed \in SUBSET Nodes
  PROVE  RunOK(Lose(r, failed)) /\ Keeps(r, Lose(r, failed))
<1> DEFINE s == [r EXCEPT !.lost = r.lost \cup failed, !.left = r.left \ failed]
<1>1. s \in Runs
  BY DEF InPlay, Runs
<1>2. /\ s.left = r.left \ failed /\ s.lost = r.lost \cup failed
      /\ s.kind = r.kind /\ s.hosts = r.hosts
      /\ s.phase = r.phase /\ s.play = r.play /\ s.target = r.target
      /\ s.lenient = r.lenient /\ s.checked = r.checked /\ s.major = r.major
  BY DEF InPlay, Runs
<1>3. Lose(r, failed) = IF failed # {} /\ Fatal(r) THEN Ended(s) ELSE Settle(s)
  BY DEF Lose
<1> HIDE DEF s
<1>4. HostsOf(s, s.play) = HostsOf(r, r.play) \ failed
  BY <1>2 DEF HostsOf
<1>5. InPlay(s)
  BY <1>1, <1>2, <1>4 DEF InPlay
<1>6. /\ RunOK(Ended(s)) /\ Keeps(s, Ended(s))
      /\ RunOK(Settle(s)) /\ Keeps(s, Settle(s))
  BY <1>1, <1>5, SettleOK, EndedOK
<1>7. Keeps(r, Ended(s)) /\ Keeps(r, Settle(s))
  BY <1>2, <1>6 DEF Keeps
<1> QED
  BY <1>3, <1>6, <1>7

-----------------------------------------------------------------------------
(* The runs of all machines *)

RunsOK == run \in [Machines -> Runs] /\ \A m \in Machines : RunOK(run[m])

\* The command of m went on, and no other did.
Step(m) ==
  /\ RunsOK'
  /\ \A k \in Machines \ {m} : run'[k] = run[k]
  /\ Keeps(run[m], run'[m])

LEMMA RunUpdate ==
  ASSUME RunsOK, NEW m \in Machines, NEW X, RunOK(X), run' = [run EXCEPT ![m] = X]
  PROVE  RunsOK' /\ run'[m] = X /\ \A k \in Machines \ {m} : run'[k] = run[k]
<1>1. X \in Runs
  BY DEF RunOK
<1>2. run' \in [Machines -> Runs] /\ run'[m] = X /\ \A k \in Machines \ {m} : run'[k] = run[k]
  BY <1>1 DEF RunsOK
<1>3. \A k \in Machines : RunOK(run'[k])
  BY <1>2 DEF RunsOK
<1> QED
  BY <1>2, <1>3 DEF RunsOK

LEMMA RunningInPlay ==
  ASSUME RunsOK, NEW m \in Machines, Running(m)
  PROVE  InPlay(run[m])
BY DEF RunsOK, Running, RunOK, InPlay

LEMMA PassSteps ==
  ASSUME RunsOK, NEW m \in Machines, NEW n, Running(m), Pass(m, n)
  PROVE  Step(m)
<1> DEFINE X == Settle([run[m] EXCEPT !.left = run[m].left \ {n}])
<1>1. run' = [run EXCEPT ![m] = X]
  BY DEF Pass, RunsOK
<1>2. RunOK(X) /\ Keeps(run[m], X)
  BY RunningInPlay, DoneOK
<1> QED
  BY <1>1, <1>2, RunUpdate DEF Step

LEMMA PassJoinedSteps ==
  ASSUME RunsOK, NEW m \in Machines, NEW n \in Nodes, Running(m), PassJoined(m, n)
  PROVE  Step(m)
<1> DEFINE X == Settle([run[m] EXCEPT !.left = run[m].left \ {n},
                                      !.joined = run[m].joined \cup {n}])
<1>1. run' = [run EXCEPT ![m] = X]
  BY DEF PassJoined, RunsOK
<1>2. run[m].joined \cup {n} \in SUBSET Nodes
  BY DEF RunsOK, Runs
<1>3. RunOK(X) /\ Keeps(run[m], X)
  BY <1>2, RunningInPlay, DoneOK
<1> QED
  BY <1>1, <1>3, RunUpdate DEF Step

LEMMA LoseSteps ==
  ASSUME RunsOK, NEW m \in Machines, NEW n \in Nodes, Running(m),
         run' = [run EXCEPT ![m] = Lose(@, {n})]
  PROVE  Step(m)
<1>1. run' = [run EXCEPT ![m] = Lose(run[m], {n})]
  BY DEF RunsOK
<1>2. RunOK(Lose(run[m], {n})) /\ Keeps(run[m], Lose(run[m], {n}))
  BY RunningInPlay, LoseOK
<1> QED
  BY <1>1, <1>2, RunUpdate DEF Step

LEMMA LeftAreNodes ==
  ASSUME RunsOK, NEW m \in Machines
  PROVE  run[m].left \subseteq Nodes /\ run[m].kind \in Kinds
BY DEF RunsOK, Runs

LEMMA PrepareSteps ==
  ASSUME RunsOK, NEW m \in Machines, NEW failed, Prepare(m, failed)
  PROVE  Step(m)
<1> DEFINE r == [run[m] EXCEPT !.left = failed]
<1>1. Running(m) /\ failed \subseteq run[m].left
  BY DEF Prepare
<1>2. InPlay(run[m]) /\ failed \in SUBSET Nodes
  BY <1>1, RunningInPlay, LeftAreNodes
<1>3. /\ r \in Runs /\ r.left = failed /\ r.kind = run[m].kind /\ r.hosts = run[m].hosts
      /\ r.lost = run[m].lost /\ r.phase = run[m].phase /\ r.play = run[m].play
      /\ r.target = run[m].target /\ r.lenient = run[m].lenient
      /\ r.checked = run[m].checked /\ r.major = run[m].major
  BY <1>2 DEF InPlay, Runs
<1>4. run' = [run EXCEPT ![m] = Lose(r, failed)]
  BY DEF Prepare, RunsOK
<1> HIDE DEF r
<1>5. HostsOf(r, r.play) = HostsOf(run[m], run[m].play)
  BY <1>3 DEF HostsOf
<1>6. InPlay(r)
  BY <1>1, <1>2, <1>3, <1>5 DEF InPlay
<1>7. RunOK(Lose(r, failed)) /\ Keeps(r, Lose(r, failed))
  BY <1>2, <1>6, LoseOK
<1>8. Keeps(run[m], Lose(r, failed))
  BY <1>3, <1>7 DEF Keeps
<1> QED
  BY <1>4, <1>7, <1>8, RunUpdate DEF Step

LEMMA BeginSteps ==
  ASSUME RunsOK, NEW m \in Machines, NEW r \in Runs, Begin(m, r)
  PROVE  /\ RunsOK' /\ Keeps(r, run'[m])
         /\ \A k \in Machines \ {m} : run'[k] = run[k]
         /\ used' = used + 1 /\ UNCHANGED <<cluster, history>>
<1> DEFINE s == [r EXCEPT !.phase = "plays"]
<1>1. /\ s \in Runs /\ s.phase = "plays"
      /\ s.kind = r.kind /\ s.target = r.target /\ s.hosts = r.hosts
      /\ s.lenient = r.lenient /\ s.checked = r.checked /\ s.major = r.major
  BY DEF Runs
<1>2. /\ run' = [run EXCEPT ![m] = Goto(s, 1)]
      /\ used' = used + 1 /\ UNCHANGED <<cluster, history>>
  BY DEF Begin, Invoke
<1> HIDE DEF s
<1>3. RunOK(Goto(s, 1)) /\ Keeps(s, Goto(s, 1))
  BY <1>1, GotoOK
<1>4. Keeps(r, Goto(s, 1))
  BY <1>1, <1>3 DEF Keeps
<1> QED
  BY <1>2, <1>3, <1>4, RunUpdate

LEMMA RefuseSteps ==
  ASSUME RunsOK, NEW m \in Machines, NEW kind, NEW status \in {0, 1}, Refuse(m, kind, status)
  PROVE  /\ RunsOK' /\ run'[m].phase = "ended" /\ ~run'[m].checked
         /\ \A k \in Machines \ {m} : run'[k] = run[k]
         /\ used' = used + 1 /\ UNCHANGED <<cluster, history>>
<1>1. /\ run' = [run EXCEPT ![m] = Exit(status)]
      /\ used' = used + 1 /\ UNCHANGED <<cluster, history>>
  BY DEF Refuse, Invoke
<1> QED
  BY <1>1, ExitOK, RunUpdate

-----------------------------------------------------------------------------
(* The type invariant *)

ClusterOK ==
  /\ config \in Configs
  /\ members \subseteq Nodes /\ unit \subseteq Nodes
  /\ stamp \in [Nodes -> Nat]
  /\ version \in Majors \cup {0}
  /\ tasks \in [Nodes -> SUBSET (Majors \cup {0})]
  /\ used \in Nat
  /\ unchecked \subseteq Nodes /\ leftover \subseteq Nodes /\ behind \subseteq Nodes
  /\ Servers \subseteq members

LEMMA TypeParts == TypeOK <=> ClusterOK /\ RunsOK
BY DEF TypeOK, ClusterOK, RunsOK, RunOK, Running

LEMMA SectionsAreNodes ==
  ASSUME NEW c \in Configs, NEW g \in Groups
  PROVE  Section(c, g) \subseteq Nodes
<1>1. c \in Configurations(Nodes)
  BY CommandsAssumption
<1>2. c.hosts \in [Groups -> SUBSET Nodes]
  BY <1>1 DEF Configurations
<1> QED
  BY <1>2 DEF Section

LEMMA VersionIsMajor ==
  ASSUME NEW c \in Configs, GenerateInventory(c) = "ok"
  PROVE  OnecloudVersion(c) \in Majors
<1>1. Versions(c) # {}
  BY DEF GenerateInventory
<1>2. DOMAIN Sections = 1..7
  BY DEF Sections
<1>3. Versions(c) \subseteq Nat /\ Versions(c) \subseteq DOMAIN Sections
  BY <1>2 DEF Versions
<1>4. Min(Versions(c)) \in Versions(c)
  BY <1>1, <1>3, LeastOf
<1>5. Sections[Min(Versions(c))] \in Groups /\ c.version[Sections[Min(Versions(c))]] # 0
  BY <1>3, <1>4 DEF Versions, Groups
<1>6. c.version \in [Groups -> Majors \cup {0}]
  BY CommandsAssumption
<1> QED
  BY <1>5, <1>6 DEF OnecloudVersion

LEMMA InitTypeOK == Init => TypeOK
<1> SUFFICES ASSUME Init PROVE TypeOK
  OBVIOUS
<1>1. RunsOK
  BY BlankOK DEF Init, RunsOK
<1>2. ASSUME Untouched PROVE ClusterOK
  BY <1>2 DEF Init, Untouched, ClusterOK, Servers
<1>3. ASSUME Installed PROVE ClusterOK
  <2>1. config \in Configs /\ OnecloudVersion(config) \in Majors
    BY <1>3, VersionIsMajor DEF Init, Installed
  <2>2. \A g \in KubeGroups : Section(config, g) \subseteq Nodes
    BY <2>1, SectionsAreNodes, GroupSets
  <2>3. members \subseteq Nodes /\ unit \subseteq Nodes
    BY <1>3, <2>2, OneGroup DEF Installed
  <2>4. version \in Majors \cup {0} /\ tasks \in [Nodes -> SUBSET (Majors \cup {0})]
    BY <1>3, <2>1 DEF Installed
  <2>5. stamp \in [Nodes -> Nat]
    BY <1>3 DEF Installed
  <2>6. Servers \subseteq Section(config, "primary_master_node")
                             \cup Section(config, "master_nodes")
    BY <1>3 DEF Installed, Servers, Masters
  <2>7. Servers \subseteq members
    BY <1>3, <2>6, OneGroup DEF Installed
  <2> QED
    BY <2>1, <2>3, <2>4, <2>5, <2>7 DEF Init, ClusterOK
<1> QED
  BY <1>1, <1>2, <1>3, TypeParts DEF Init

-----------------------------------------------------------------------------
(* What each command is about when it begins *)

LEMMA HostLists ==
  /\ NoHosts \in [AllGroups -> SUBSET Nodes]
  /\ \A W \in SUBSET Nodes :
       /\ [NoHosts EXCEPT !["worker_nodes"] = W] \in [AllGroups -> SUBSET Nodes]
       /\ [NoHosts EXCEPT !["worker_nodes"] = W]["worker_nodes"] = W
       /\ \A g \in AllGroups \ {"worker_nodes"} :
            [NoHosts EXCEPT !["worker_nodes"] = W][g] = {}
       /\ [NoHosts EXCEPT !["nodes"] = W] \in [AllGroups -> SUBSET Nodes]
BY GroupSets DEF NoHosts

LEMMA BlankFields ==
  /\ Blank.kind = "startStop" /\ Blank.target = 0 /\ Blank.hosts = NoHosts
  /\ Blank.lenient = FALSE /\ Blank.major = FALSE /\ Blank.checked = FALSE
  /\ Blank.joined = {} /\ Blank.play = 1 /\ Blank.left = {} /\ Blank.lost = {}
  /\ Blank.phase = "idle" /\ Blank.exit = 0
BY DEF Blank

LEMMA InstallRunOK ==
  ASSUME ClusterOK, GenerateInventory(config) = "ok", NEW checks \in BOOLEAN
  PROVE  /\ InstallRun(checks) \in Runs
         /\ InstallRun(checks).kind = "install"
         /\ InstallRun(checks).target = OnecloudVersion(config)
         /\ InstallRun(checks).hosts = InstallInventory
         /\ InstallRun(checks).checked = checks
<1>1. OnecloudVersion(config) \in Majors
  BY VersionIsMajor DEF ClusterOK
<1>2. InstallInventory \in [AllGroups -> SUBSET Nodes]
  BY SectionsAreNodes, GroupSets DEF ClusterOK, InstallInventory, Inventory
<1>3. Blank \in Runs /\ "install" \in Kinds
  BY BlankOK DEF Kinds
<1> QED
  BY <1>1, <1>2, <1>3 DEF InstallRun, Runs

LEMMA AddNodeRunOK ==
  ASSUME ClusterOK, NEW named \in Asked, NEW checks \in BOOLEAN
  PROVE  /\ AddNodeRun(named, checks) \in Runs
         /\ AddNodeRun(named, checks).kind = "addNode"
         /\ AddNodeRun(named, checks).target = version
         /\ AddNodeRun(named, checks).hosts = [NoHosts EXCEPT !["worker_nodes"] = named]
         /\ AddNodeRun(named, checks).checked = checks
<1>1. [NoHosts EXCEPT !["worker_nodes"] = named] \in [AllGroups -> SUBSET Nodes]
  BY HostLists, CommandsAssumption
<1>2. Blank \in Runs /\ "addNode" \in Kinds
  BY BlankOK DEF Kinds
<1> QED
  BY <1>1, <1>2 DEF AddNodeRun, Runs, ClusterOK

LEMMA UpgradeRunOK ==
  ASSUME ClusterOK, NEW kind \in UpgradeModes, NEW target \in Majors,
         NEW named \in Asked, NEW lenient \in BOOLEAN, Servers # {},
         FindPrimaryMasterNode \in Nodes
  PROVE  /\ UpgradeRun(kind, target, named, lenient) \in Runs
         /\ UpgradeRun(kind, target, named, lenient).kind = kind
         /\ UpgradeRun(kind, target, named, lenient).target = target
         /\ UpgradeRun(kind, target, named, lenient).lenient = lenient
         /\ UpgradeRun(kind, target, named, lenient).hosts
              = PlaybookInventory(UpgradedWorkers(kind, named))
         /\ UpgradeRun(kind, target, named, lenient).major = IsMajorUpgrade(target)
         /\ ~UpgradeRun(kind, target, named, lenient).checked
<1>1. UpgradedWorkers(kind, named) \subseteq Nodes /\ Servers \subseteq Nodes
  BY DEF UpgradedWorkers, ClusterOK, Servers
<1>2. PlaybookInventory(UpgradedWorkers(kind, named)) \in [AllGroups -> SUBSET Nodes]
  BY <1>1, HostLists, GroupSets DEF PlaybookInventory, NoHosts
<1>3. Blank \in Runs /\ kind \in Kinds /\ IsMajorUpgrade(target) \in BOOLEAN
  BY BlankOK DEF Kinds, IsMajorUpgrade
<1> DEFINE b == IsMajorUpgrade(target)
           h == PlaybookInventory(UpgradedWorkers(kind, named))
<1>4. UpgradeRun(kind, target, named, lenient)
        = [Blank EXCEPT !.kind = kind, !.target = target, !.lenient = lenient,
                        !.major = b, !.hosts = h]
  BY DEF UpgradeRun
<1>5. h \in [AllGroups -> SUBSET Nodes] /\ b \in BOOLEAN
  BY <1>2, <1>3
<1> HIDE DEF b, h
<1>6. /\ UpgradeRun(kind, target, named, lenient) \in Runs
      /\ UpgradeRun(kind, target, named, lenient).kind = kind
      /\ UpgradeRun(kind, target, named, lenient).target = target
      /\ UpgradeRun(kind, target, named, lenient).lenient = lenient
      /\ UpgradeRun(kind, target, named, lenient).hosts = h
      /\ UpgradeRun(kind, target, named, lenient).major = b
      /\ UpgradeRun(kind, target, named, lenient).checked = FALSE
  BY <1>3, <1>4, <1>5, BlankFields DEF Runs
<1> QED
  BY <1>6 DEF h, b

LEMMA ServiceRunOK ==
  ASSUME ClusterOK, NEW kind \in DOMAIN Services, NEW named \in Asked,
         NEW server \in Nodes
  PROVE  /\ ServiceRun(kind, named, server) \in Runs
         /\ ServiceRun(kind, named, server).kind = kind
         /\ ~ServiceRun(kind, named, server).checked
<1>1. ServiceHosts(kind, named, server) \subseteq Nodes
  BY CommandsAssumption DEF ServiceHosts, Services, Clickhouse, Service
<1>2. [NoHosts EXCEPT !["nodes"] = ServiceHosts(kind, named, server)] \in [AllGroups -> SUBSET Nodes]
  BY <1>1, HostLists
<1>3. Blank \in Runs /\ kind \in Kinds
  BY BlankOK, ServicesAreKinds
<1> QED
  BY <1>2, <1>3, BlankFields DEF ServiceRun, Runs

-----------------------------------------------------------------------------
(* There is one oldest server *)

\* The servers of the stamps st, and the order of find_primary_master_node.
ServersOf(st) == {n \in Nodes : st[n] > 0}
Older(st, n, k) == \/ st[n] < st[k]
                   \/ st[n] = st[k] /\ Rank[n] < Rank[k]
Oldest(st, n) == n \in ServersOf(st) /\ \A k \in ServersOf(st) \ {n} : Older(st, n, k)

LEMMA OneOldest ==
  ASSUME NEW st \in [Nodes -> Nat], NEW n, NEW k, Oldest(st, n), Oldest(st, k)
  PROVE  n = k
<1> SUFFICES ASSUME n # k PROVE FALSE
  OBVIOUS
<1>1. Older(st, n, k) /\ Older(st, k, n)
  BY DEF Oldest
<1>2. st[n] \in Nat /\ st[k] \in Nat /\ Rank[n] \in Nat /\ Rank[k] \in Nat
  BY CommandsAssumption DEF Oldest, ServersOf
<1> QED
  BY <1>1, <1>2 DEF Older

LEMMA SomeOldest ==
  ASSUME NEW st \in [Nodes -> Nat], ServersOf(st) # {}
  PROVE  \E n : Oldest(st, n)
<1>1. ServersOf(st) \subseteq Nodes
  BY DEF ServersOf
<1> DEFINE S == {st[n] : n \in ServersOf(st)}
<1>2. S \in SUBSET Nat /\ S # {}
  BY <1>1
<1>3. PICK s \in S : \A t \in S : s \leq t
  BY <1>2, Earliest
<1> DEFINE T == {k \in ServersOf(st) : st[k] = s}
           R == {Rank[n] : n \in T}
<1>4. R \in SUBSET Nat /\ R # {}
  <2>1. T \subseteq Nodes /\ T # {}
    BY <1>1, <1>3
  <2> HIDE DEF T
  <2> QED
    BY <2>1, CommandsAssumption
<1>5. PICK r \in R : \A t \in R : r \leq t
  BY <1>4, Earliest
<1>6. PICK n \in ServersOf(st) : st[n] = s /\ Rank[n] = r
  BY <1>5
<1>7. ASSUME NEW k \in ServersOf(st) \ {n} PROVE Older(st, n, k)
  <2>1. /\ st[n] \in Nat /\ st[k] \in Nat /\ Rank[n] \in Nat /\ Rank[k] \in Nat
        /\ Rank[n] # Rank[k]
    BY <1>1, <1>6, CommandsAssumption
  <2>2. st[n] \leq st[k]
    BY <1>3, <1>6
  <2>3. st[k] = st[n] => Rank[n] \leq Rank[k]
    BY <1>5, <1>6
  <2> QED
    BY <2>1, <2>2, <2>3 DEF Older
<1> QED
  BY <1>6, <1>7 DEF Oldest

LEMMA PrimaryIsOldest ==
  ASSUME stamp \in [Nodes -> Nat], Servers # {}
  PROVE  Oldest(stamp, FindPrimaryMasterNode) /\ FindPrimaryMasterNode \in Nodes
<1>1. Servers = ServersOf(stamp)
  BY DEF Servers, ServersOf
<1>2. \E n \in Servers : \A k \in Servers \ {n} :
        stamp[n] < stamp[k] \/ (stamp[n] = stamp[k] /\ Rank[n] < Rank[k])
  BY <1>1, SomeOldest DEF Oldest, Older
<1> QED
  BY <1>1, <1>2 DEF FindPrimaryMasterNode, Oldest, Older, ServersOf

LEMMA PrimaryIsOldestNext ==
  ASSUME stamp' \in [Nodes -> Nat], Servers' # {}
  PROVE  Oldest(stamp', FindPrimaryMasterNode')
<1>1. Servers' = ServersOf(stamp')
  BY DEF Servers, ServersOf
<1>2. \E n \in Servers' : \A k \in Servers' \ {n} :
        stamp'[n] < stamp'[k] \/ (stamp'[n] = stamp'[k] /\ Rank[n] < Rank[k])
  BY <1>1, SomeOldest DEF Oldest, Older
<1> QED
  BY <1>1, <1>2 DEF FindPrimaryMasterNode, Oldest, Older, ServersOf

-----------------------------------------------------------------------------
(* Steps *)

LEMMA TaskSteps ==
  ASSUME RunsOK, NEW m \in Machines, Task(m)
  PROVE  Step(m)
<1>1. ASSUME NEW failed, Prepare(m, failed) PROVE Step(m)
  BY <1>1, PrepareSteps
<1>2. ASSUME NEW n \in run[m].left,
             \/ StartServer(m, n) \/ ServerRuns(m, n) \/ ServerSkipped(m, n)
             \/ VerifyServers(m, n) \/ StartAgent(m, n) \/ AgentSkipped(m, n)
             \/ AgentFails(m, n) \/ MajorTasks(m, n) \/ PatchVersion(m, n)
             \/ CreateCluster(m, n) \/ TaskFails(m, n)
      PROVE  Step(m)
  <2>1. n \in Nodes
    BY LeftAreNodes
  <2>2. \/ Running(m) /\ Pass(m, n)
        \/ Running(m) /\ PassJoined(m, n)
        \/ Running(m) /\ run' = [run EXCEPT ![m] = Lose(@, {n})]
    BY <1>2 DEF StartServer, ServerRuns, ServerSkipped, VerifyServers, StartAgent,
                AgentSkipped, AgentFails, MajorTasks, PatchVersion, CreateCluster,
                TaskFails, Fails, At
  <2> QED
    BY <2>1, <2>2, PassSteps, PassJoinedSteps, LoseSteps
<1> QED
  BY <1>1, <1>2 DEF Task

LEMMA InterruptSteps ==
  ASSUME RunsOK, NEW m \in Machines, Interrupt(m)
  PROVE  Step(m)
BY ExitOK, RunUpdate DEF Interrupt, Step, Keeps

\* A command that has begun: it refused, or is about one of four things.
Begun(m) ==
  \/ run'[m].phase = "ended" /\ ~run'[m].checked
  \/ \E checks \in BOOLEAN :
       /\ ~checks \/ ~CidrsConflict(config)
       /\ GenerateInventory(config) = "ok"
       /\ Keeps(InstallRun(checks), run'[m])
  \/ \E named \in Asked, checks \in BOOLEAN :
       /\ ~Taken(named, checks) /\ ReadsCluster
       /\ Keeps(AddNodeRun(named, checks), run'[m])
  \/ \E kind \in UpgradeModes, target \in Majors, named \in Asked, lenient \in BOOLEAN :
       /\ target \geq version /\ ReadsCluster
       /\ Keeps(UpgradeRun(kind, target, named, lenient), run'[m])
  \/ \E kind \in DOMAIN Services, named \in Asked, server \in Nodes :
       /\ Keeps(ServiceRun(kind, named, server), run'[m])
       /\ ~ServiceRun(kind, named, server).checked

LEMMA CommandSteps ==
  ASSUME TypeOK, NEW m \in Machines, Command(m)
  PROVE  /\ RunsOK' /\ Begun(m)
         /\ \A k \in Machines \ {m} : run'[k] = run[k]
         /\ used' = used + 1 /\ UNCHANGED <<cluster, history>>
<1>1. ClusterOK /\ RunsOK
  BY TypeParts
<1>2. ASSUME NEW kind, NEW status \in {0, 1}, Refuse(m, kind, status)
      PROVE  /\ RunsOK' /\ Begun(m)
             /\ \A k \in Machines \ {m} : run'[k] = run[k]
             /\ used' = used + 1 /\ UNCHANGED <<cluster, history>>
  BY <1>1, <1>2, RefuseSteps DEF Begun
<1>3. ASSUME NEW checks \in BOOLEAN, RefuseInstall(m, checks)
      PROVE  \E status \in {0, 1} : Refuse(m, "install", status)
  BY <1>3 DEF RefuseInstall
<1>4. ASSUME NEW checks \in BOOLEAN, StartInstall(m, checks)
      PROVE  /\ RunsOK' /\ Begun(m)
             /\ \A k \in Machines \ {m} : run'[k] = run[k]
             /\ used' = used + 1 /\ UNCHANGED <<cluster, history>>
  <2>1. /\ GenerateInventory(config) = "ok" /\ Begin(m, InstallRun(checks))
        /\ ~checks \/ ~CidrsConflict(config)
    BY <1>4 DEF StartInstall, InstallRun
  <2>2. InstallRun(checks) \in Runs
    BY <1>1, <2>1, InstallRunOK
  <2> QED
    BY <1>1, <2>1, <2>2, BeginSteps DEF Begun
<1>5. ASSUME NEW named \in Asked, NEW checks \in BOOLEAN, StartAddNode(m, named, checks)
      PROVE  /\ RunsOK' /\ Begun(m)
             /\ \A k \in Machines \ {m} : run'[k] = run[k]
             /\ used' = used + 1 /\ UNCHANGED <<cluster, history>>
  <2>1. CASE Taken(named, checks)
    BY <1>2, <1>5, <2>1 DEF StartAddNode
  <2>2. CASE ~Taken(named, checks)
    <3>1. Begin(m, AddNodeRun(named, checks)) /\ ReadsCluster
      BY <1>5, <2>2 DEF StartAddNode, AddNodeRun
    <3>2. AddNodeRun(named, checks) \in Runs
      BY <1>1, AddNodeRunOK
    <3> QED
      BY <1>1, <2>2, <3>1, <3>2, BeginSteps DEF Begun
  <2> QED
    BY <2>1, <2>2
<1>6. ASSUME NEW kind \in UpgradeModes, NEW target \in Majors, NEW named \in Asked,
             NEW lenient \in BOOLEAN, StartUpgrade(m, kind, target, named, lenient)
      PROVE  /\ RunsOK' /\ Begun(m)
             /\ \A k \in Machines \ {m} : run'[k] = run[k]
             /\ used' = used + 1 /\ UNCHANGED <<cluster, history>>
  <2>1. /\ Begin(m, UpgradeRun(kind, target, named, lenient)) /\ ReadsCluster
        /\ target \geq version
    BY <1>6 DEF StartUpgrade, UpgradeRun
  <2>2. UpgradeRun(kind, target, named, lenient) \in Runs
    BY <1>1, <2>1, UpgradeRunOK, PrimaryIsOldest DEF ReadsCluster, ClusterOK
  <2> QED
    BY <1>1, <2>1, <2>2, BeginSteps DEF Begun
<1>7. ASSUME NEW kind \in DOMAIN Services, NEW named \in Asked, NEW server \in Nodes,
             StartService(m, kind, named, server)
      PROVE  /\ RunsOK' /\ Begun(m)
             /\ \A k \in Machines \ {m} : run'[k] = run[k]
             /\ used' = used + 1 /\ UNCHANGED <<cluster, history>>
  <2>1. Begin(m, ServiceRun(kind, named, server))
    BY <1>7 DEF StartService, ServiceRun
  <2>2. ServiceRun(kind, named, server) \in Runs /\ ~ServiceRun(kind, named, server).checked
    BY <1>1, <2>1, ServiceRunOK DEF ClusterOK
  <2> QED
    BY <1>1, <2>1, <2>2, BeginSteps DEF Begun
<1>8. ASSUME NEW kind \in DOMAIN Services, RefuseService(m, kind)
      PROVE  Refuse(m, kind, 1)
  BY <1>8 DEF RefuseService
<1>9. CASE \E checks \in BOOLEAN : RefuseInstall(m, checks) \/ StartInstall(m, checks)
  BY <1>2, <1>3, <1>4, <1>9
<1>10. CASE \E named \in Asked, checks \in BOOLEAN : StartAddNode(m, named, checks)
  BY <1>5, <1>10
<1>11. CASE \E kind \in UpgradeModes, target \in Majors, named \in Asked,
               lenient \in BOOLEAN : StartUpgrade(m, kind, target, named, lenient)
  BY <1>6, <1>11
<1>12. CASE \E kind \in DOMAIN Services :
              \/ RefuseService(m, kind)
              \/ \E named \in Asked, server \in Nodes :
                   StartService(m, kind, named, server)
  BY <1>2, <1>7, <1>8, <1>12
<1>13. CASE RefuseAddNode(m)
  <2>1. Refuse(m, "addNode", 1)
    BY <1>13 DEF RefuseAddNode
  <2> QED
    BY <1>2, <2>1
<1> QED
  BY <1>9, <1>10, <1>11, <1>12, <1>13 DEF Command

LEMMA TargetIsVersion ==
  ASSUME RunsOK, NEW m \in Machines
  PROVE  run[m].target \in Majors \cup {0} /\ run[m].kind \in Kinds
BY DEF RunsOK, Runs

LEMMA JoinOK ==
  ASSUME ClusterOK, RunsOK, NEW m \in Machines, NEW n \in Nodes, Join(m, n)
  PROVE  /\ members' = members \cup {n} /\ members' \subseteq Nodes
         /\ tasks' \in [Nodes -> SUBSET (Majors \cup {0})]
         /\ unchecked' \subseteq Nodes /\ behind' \subseteq Nodes
BY DEF ClusterOK, Join

LEMMA StampsOK ==
  ASSUME ClusterOK, NEW s \in Stamps
  PROVE  /\ s \in Nat /\ s > 0
         /\ Servers # {} => s > stamp[FindPrimaryMasterNode]
<1>1. CASE Servers = {}
  BY <1>1 DEF Stamps
<1>2. CASE Servers # {}
  <2>1. stamp[FindPrimaryMasterNode] \in Nat
    BY <1>2, PrimaryIsOldest DEF ClusterOK
  <2>2. MaxStamp \in Nat
    BY CommandsAssumption
  <2> QED
    BY <1>2, <2>1, <2>2 DEF Stamps
<1> QED
  BY <1>1, <1>2

LEMMA NewServer ==
  ASSUME ClusterOK, NEW m \in Machines, NEW n \in Nodes, StartServer(m, n)
  PROVE  /\ stamp' \in [Nodes -> Nat] /\ Servers' = Servers \cup {n} /\ n \notin Servers
         /\ \A k \in Nodes \ {n} : stamp'[k] = stamp[k]
         /\ Servers # {} => stamp'[n] > stamp[FindPrimaryMasterNode]
<1>1. PICK s \in Stamps : stamp' = [stamp EXCEPT ![n] = s]
  BY DEF StartServer
<1>2. s \in Nat /\ s > 0 /\ (Servers # {} => s > stamp[FindPrimaryMasterNode])
  BY StampsOK
<1>3. /\ stamp' \in [Nodes -> Nat] /\ stamp'[n] = s
      /\ \A k \in Nodes \ {n} : stamp'[k] = stamp[k]
  BY <1>1, <1>2 DEF ClusterOK
<1> QED
  BY <1>2, <1>3 DEF Servers, StartServer

LEMMA TaskClusterOK ==
  ASSUME ClusterOK, RunsOK, NEW m \in Machines, Task(m)
  PROVE  ClusterOK'
<1> DEFINE Same == UNCHANGED <<cluster, used, history>>
<1>1. ASSUME Same PROVE ClusterOK'
  BY <1>1 DEF ClusterOK, cluster, history, Servers
<1>2. ASSUME NEW failed, Prepare(m, failed) PROVE ClusterOK'
  BY <1>1, <1>2 DEF Prepare
<1>3. ASSUME NEW n \in run[m].left,
             \/ ServerRuns(m, n) \/ ServerSkipped(m, n) \/ VerifyServers(m, n)
             \/ AgentSkipped(m, n) \/ TaskFails(m, n)
      PROVE  ClusterOK'
  BY <1>1, <1>3 DEF ServerRuns, ServerSkipped, VerifyServers, AgentSkipped, TaskFails
<1>4. ASSUME NEW n \in run[m].left, StartServer(m, n) PROVE ClusterOK'
  <2>1. n \in Nodes
    BY LeftAreNodes
  <2>2. /\ stamp' \in [Nodes -> Nat] /\ Servers' = Servers \cup {n}
    BY <1>4, <2>1, NewServer
  <2>3. /\ members' = members \cup {n} /\ members' \subseteq Nodes
        /\ tasks' \in [Nodes -> SUBSET (Majors \cup {0})]
        /\ unchecked' \subseteq Nodes /\ behind' \subseteq Nodes
    BY <1>4, <2>1, JoinOK DEF StartServer
  <2>4. UNCHANGED <<config, unit, version, used, leftover>>
    BY <1>4 DEF StartServer
  <2> QED
    BY <2>2, <2>3, <2>4 DEF ClusterOK
<1>5. ASSUME NEW n \in run[m].left, StartAgent(m, n) PROVE ClusterOK'
  <2>1. n \in Nodes
    BY LeftAreNodes
  <2>2. /\ members' = members \cup {n} /\ members' \subseteq Nodes
        /\ tasks' \in [Nodes -> SUBSET (Majors \cup {0})]
        /\ unchecked' \subseteq Nodes /\ behind' \subseteq Nodes
    BY <1>5, <2>1, JoinOK DEF StartAgent
  <2>3. UNCHANGED <<config, stamp, version, used, leftover>> /\ unit' = unit \cup {n}
    BY <1>5 DEF StartAgent
  <2> QED
    BY <2>1, <2>2, <2>3 DEF ClusterOK, Servers
<1>6. ASSUME NEW n \in run[m].left, AgentFails(m, n) PROVE ClusterOK'
  BY <1>6, LeftAreNodes DEF AgentFails, ClusterOK, Servers
<1>7. ASSUME NEW n \in run[m].left, MajorTasks(m, n) PROVE ClusterOK'
  <2>1. InPlay(run[m]) /\ run[m].kind \in Kinds
    BY <1>7, RunningInPlay, LeftAreNodes DEF MajorTasks, At
  <2>2. run[m].target \in Majors \cup {0}
    BY TargetIsVersion
  <2>3. n \in Nodes
    BY LeftAreNodes
  <2>4. tasks' = tasks \/ tasks' = [tasks EXCEPT ![n] = tasks[n] \cup {run[m].target}]
    BY <1>7 DEF MajorTasks
  <2>5. tasks' \in [Nodes -> SUBSET (Majors \cup {0})]
    BY <2>2, <2>3, <2>4 DEF ClusterOK
  <2> QED
    BY <1>7, <2>5 DEF MajorTasks, ClusterOK, Servers, history
<1>8. ASSUME NEW n \in run[m].left, PatchVersion(m, n) \/ CreateCluster(m, n)
      PROVE  ClusterOK'
  <2>1. version' \in Majors \cup {0}
    BY <1>8, TargetIsVersion DEF PatchVersion, CreateCluster
  <2>2. behind' \subseteq Nodes
    BY <1>8 DEF PatchVersion, CreateCluster, Laggards, ClusterOK, history
  <2> QED
    BY <1>8, <2>1, <2>2 DEF PatchVersion, CreateCluster, ClusterOK, Servers, history
<1> QED
  BY <1>2, <1>3, <1>4, <1>5, <1>6, <1>7, <1>8 DEF Task

LEMMA RemoveKeeps ==
  ASSUME ClusterOK, NEW n \in Nodes, RemoveNode(n)
  PROVE  /\ stamp' \in [Nodes -> Nat] /\ Servers' = Servers \ {n}
         /\ \A k \in Nodes \ {n} : stamp'[k] = stamp[k]
         /\ ClusterOK'
<1>1. stamp' = [stamp EXCEPT ![n] = 0] /\ members' = members \ {n}
  BY DEF RemoveNode
<1>2. /\ stamp' \in [Nodes -> Nat] /\ stamp'[n] = 0
      /\ \A k \in Nodes \ {n} : stamp'[k] = stamp[k]
  BY <1>1 DEF ClusterOK
<1>3. Servers' = Servers \ {n}
  BY <1>2 DEF Servers
<1>4. /\ config' \in Configs /\ used' \in Nat /\ version' \in Majors \cup {0}
      /\ tasks' \in [Nodes -> SUBSET (Majors \cup {0})]
      /\ unchecked' \subseteq Nodes /\ behind' \subseteq Nodes
  BY DEF ClusterOK, RemoveNode
<1>5. unit' \subseteq Nodes /\ leftover' \subseteq Nodes
  BY DEF ClusterOK, RemoveNode
<1> QED
  BY <1>1, <1>2, <1>3, <1>4, <1>5 DEF ClusterOK

LEMMA StepTypeOK == TypeOK /\ [Next]_vars => TypeOK'
<1> SUFFICES ASSUME TypeOK, [Next]_vars PROVE TypeOK'
  OBVIOUS
<1>1. ClusterOK /\ RunsOK
  BY TypeParts
<1>2. TypeOK' <=> ClusterOK' /\ RunsOK'
  BY DEF TypeOK, ClusterOK, RunsOK, RunOK, Running
<1>3. ASSUME NEW m \in Machines, Command(m) PROVE TypeOK'
  <2>1. RunsOK' /\ used' = used + 1 /\ UNCHANGED <<cluster, history>>
    BY <1>3, CommandSteps
  <2>2. ClusterOK'
    BY <1>1, <2>1 DEF ClusterOK, cluster, history, Servers
  <2> QED
    BY <1>2, <2>1, <2>2
<1>4. ASSUME NEW m \in Machines, Task(m) PROVE TypeOK'
  BY <1>1, <1>2, <1>4, TaskSteps, TaskClusterOK DEF Step
<1>5. ASSUME NEW m \in Machines, Interrupt(m) PROVE TypeOK'
  <2>1. RunsOK' /\ UNCHANGED <<cluster, used, history>>
    BY <1>1, <1>5, InterruptSteps DEF Step, Interrupt
  <2>2. ClusterOK'
    BY <1>1, <2>1 DEF ClusterOK, cluster, history, Servers
  <2> QED
    BY <1>2, <2>1, <2>2
<1>6. ASSUME NEW n \in Nodes, RemoveNode(n) PROVE TypeOK'
  <2>1. ClusterOK' /\ run' = run
    BY <1>1, <1>6, RemoveKeeps DEF RemoveNode
  <2> QED
    BY <1>1, <1>2, <2>1 DEF RunsOK
<1>7. CASE UNCHANGED vars
  BY <1>1, <1>2, <1>7 DEF vars, cluster, history, ClusterOK, RunsOK, Servers
<1> QED
  BY <1>3, <1>4, <1>5, <1>6, <1>7 DEF Next

(* Whatever commands run, fail and are interrupted, on however many        *)
(* machines: servers are nodes, and a command that is under way has a host *)
(* in its present play that is neither done nor lost.                      *)
THEOREM CommandsTypeCorrect == Spec => []TypeOK
BY InitTypeOK, StepTypeOK, PTL DEF Spec

-----------------------------------------------------------------------------
(* The primary *)

LEMMA WhoChangesServers ==
  ASSUME TypeOK, [Next]_vars
  PROVE  \/ stamp' = stamp
         \/ \E m \in Machines, n \in Nodes : StartServer(m, n)
         \/ \E n \in Nodes : RemoveNode(n)
<1>1. ClusterOK /\ RunsOK
  BY TypeParts
<1>2. ASSUME NEW m \in Machines, Command(m) PROVE stamp' = stamp
  BY <1>2, CommandSteps DEF cluster
<1>3. ASSUME NEW m \in Machines, NEW n \in run[m].left,
             \/ ServerRuns(m, n) \/ ServerSkipped(m, n) \/ VerifyServers(m, n)
             \/ StartAgent(m, n) \/ AgentSkipped(m, n) \/ AgentFails(m, n)
             \/ MajorTasks(m, n) \/ PatchVersion(m, n) \/ CreateCluster(m, n)
             \/ TaskFails(m, n)
      PROVE  stamp' = stamp
  BY <1>3 DEF ServerRuns, ServerSkipped, VerifyServers, StartAgent, AgentSkipped,
              AgentFails, MajorTasks, PatchVersion, CreateCluster, TaskFails, cluster
<1>4. ASSUME NEW m \in Machines, NEW n \in run[m].left, StartServer(m, n)
      PROVE  \E k \in Nodes : StartServer(m, k)
  BY <1>1, <1>4, LeftAreNodes
<1>5. ASSUME NEW m \in Machines, NEW failed, Prepare(m, failed) PROVE stamp' = stamp
  BY <1>5 DEF Prepare, cluster
<1>6. ASSUME NEW m \in Machines, Interrupt(m) PROVE stamp' = stamp
  BY <1>6 DEF Interrupt, cluster
<1>7. CASE UNCHANGED vars
  BY <1>7 DEF vars, cluster
<1>8. ASSUME NEW m \in Machines, Task(m)
      PROVE  stamp' = stamp \/ \E n \in Nodes : StartServer(m, n)
  BY <1>3, <1>4, <1>5, <1>8 DEF Task
<1> QED
  BY <1>2, <1>6, <1>7, <1>8 DEF Next

\* What happens to the stamps while the server p stays.
Undisturbed(p) ==
  /\ stamp' \in [Nodes -> Nat]
  /\ stamp'[p] = stamp[p]
  /\ \A k \in Servers' \ Servers : stamp'[k] > stamp[p]
  /\ \A k \in Servers' \cap Servers : stamp'[k] = stamp[k]

LEMMA PrimaryStep ==
  ASSUME TypeOK, [Next]_vars, Servers # {}, FindPrimaryMasterNode \in Servers'
  PROVE  FindPrimaryMasterNode' = FindPrimaryMasterNode
<1> DEFINE p == FindPrimaryMasterNode
<1>1. ClusterOK /\ RunsOK
  BY TypeParts
<1>2. Oldest(stamp, p) /\ p \in Nodes
  BY <1>1, PrimaryIsOldest DEF ClusterOK
<1> HIDE DEF p
<1>3. p \in Servers /\ p \in Servers'
  BY <1>2 DEF Oldest, Servers, ServersOf, p
<1>4. Undisturbed(p)
  <2>1. ASSUME stamp' = stamp PROVE Undisturbed(p)
    BY <1>1, <2>1 DEF ClusterOK, Servers, Undisturbed
  <2>2. ASSUME NEW m \in Machines, NEW n \in Nodes, StartServer(m, n)
        PROVE  Undisturbed(p)
    <3>1. /\ stamp' \in [Nodes -> Nat] /\ Servers' = Servers \cup {n} /\ n \notin Servers
          /\ \A k \in Nodes \ {n} : stamp'[k] = stamp[k]
          /\ stamp'[n] > stamp[p]
      BY <1>1, <2>2, NewServer DEF p
    <3> QED
      BY <1>2, <1>3, <3>1 DEF Undisturbed, Servers
  <2>3. ASSUME NEW n \in Nodes, RemoveNode(n) PROVE Undisturbed(p)
    <3>1. /\ stamp' \in [Nodes -> Nat] /\ Servers' = Servers \ {n}
          /\ \A k \in Nodes \ {n} : stamp'[k] = stamp[k]
      BY <1>1, <2>3, RemoveKeeps
    <3> QED
      BY <1>2, <1>3, <3>1 DEF Undisturbed, Servers
  <2> QED
    BY <2>1, <2>2, <2>3, WhoChangesServers
<1>5. Oldest(stamp', p)
  <2>1. ServersOf(stamp') = Servers' /\ ServersOf(stamp) = Servers
    BY DEF ServersOf, Servers
  <2>2. ASSUME NEW k \in Servers' \ {p} PROVE Older(stamp', p, k)
    <3>1. stamp[p] \in Nat /\ stamp'[k] \in Nat
      BY <1>1, <1>2, <1>4 DEF ClusterOK, Undisturbed, Servers
    <3>2. CASE k \in Servers
      <4>1. Older(stamp, p, k) /\ stamp'[k] = stamp[k] /\ stamp'[p] = stamp[p]
        BY <1>2, <1>4, <2>1, <2>2, <3>2 DEF Undisturbed, Oldest
      <4> QED
        BY <4>1 DEF Older
    <3>3. CASE k \notin Servers
      BY <1>4, <2>2, <3>1, <3>3 DEF Undisturbed, Older
    <3> QED
      BY <3>2, <3>3
  <2> QED
    BY <1>3, <2>1, <2>2 DEF Oldest
<1>6. Oldest(stamp', FindPrimaryMasterNode') /\ stamp' \in [Nodes -> Nat]
  BY <1>3, <1>4, PrimaryIsOldestNext DEF Undisturbed
<1> QED
  BY <1>5, <1>6, OneOldest DEF p

(* Servers that join, come back or leave do not change which server the    *)
(* commands take for the primary, until that server itself leaves.         *)
THEOREM PrimaryIsKept == Spec => SamePrimary
<1>1. TypeOK /\ [Next]_vars
        => [Servers # {} /\ FindPrimaryMasterNode \in Servers'
              => FindPrimaryMasterNode' = FindPrimaryMasterNode]_vars
  BY PrimaryStep
<1> QED
  BY <1>1, CommandsTypeCorrect, PTL DEF Spec, SamePrimary

-----------------------------------------------------------------------------
(* Addresses *)

NamesPrimary == Has(config, "primary_master_node")

\* There are servers only where the file names a primary, and no command
\* that compares addresses is about a host in the networks of such a file.
AddressesInv ==
  /\ Servers # {} => NamesPrimary
  /\ NamesPrimary => \A m \in Machines :
       Running(m) /\ run[m].checked => Wanted(run[m]) \cap RenderedNetworks(config) = {}
  /\ NodesOutsideNetworks

LEMMA SameWanted ==
  ASSUME NEW r, NEW s, r.hosts = s.hosts
  PROVE  Wanted(r) = Wanted(s)
BY DEF Wanted

LEMMA NetworksRendered ==
  ASSUME NEW c
  PROVE  RenderedNetworks(c) = NetworkCidrs(c)
BY DEF RenderedNetworks, NetworkCidrs

LEMMA HostsAreAddresses ==
  ASSUME NEW c
  PROVE  UNION {Section(c, g) : g \in KubeGroups} \subseteq NodeAddresses(c)
<1>1. UNION {Section(c, g) : g \in KubeGroups}
        \subseteq UNION {Section(c, g) \cup c.nodeIps[g] : g \in KubeGroups}
  OBVIOUS
<1> QED
  BY <1>1 DEF NodeAddresses

LEMMA InstallOutside ==
  ASSUME ~CidrsConflict(config), NamesPrimary, NEW r, r.hosts = InstallInventory
  PROVE  Wanted(r) \cap RenderedNetworks(config) = {}
<1>1. NodeAddresses(config) \cap NetworkCidrs(config) = {}
  BY DEF CidrsConflict, InNetworks, NamesPrimary
<1>2. Wanted(r) = UNION {Section(config, g) : g \in KubeGroups}
  BY GroupSets DEF Wanted, InstallInventory, Inventory
<1>3. Wanted(r) \subseteq NodeAddresses(config)
  BY <1>2, HostsAreAddresses
<1> QED
  BY <1>1, <1>3, NetworksRendered

LEMMA AddNodeOutside ==
  ASSUME NEW named \in Asked, ~Taken(named, TRUE), NEW r,
         r.hosts = [NoHosts EXCEPT !["worker_nodes"] = named]
  PROVE  Wanted(r) \cap RenderedNetworks(config) = {}
<1>1. named \in SUBSET Nodes
  BY CommandsAssumption
<1>2. Wanted(r) \subseteq named
  BY <1>1, HostLists, GroupSets DEF Wanted
<1> QED
  BY <1>2 DEF Taken, CheckTargetNodes, InNetworks

LEMMA InitAddresses == Init => AddressesInv
<1> SUFFICES ASSUME Init PROVE AddressesInv
  OBVIOUS
<1>1. \A m \in Machines : ~Running(m)
  BY DEF Init, Running, Blank
<1>2. ASSUME Untouched PROVE AddressesInv
  BY <1>1, <1>2 DEF Untouched, AddressesInv, Servers, NodesOutsideNetworks
<1>3. ASSUME Installed PROVE AddressesInv
  <2>1. /\ NamesPrimary /\ ~CidrsConflict(config)
        /\ members = UNION {Section(config, g) : g \in KubeGroups}
    BY <1>3 DEF Installed, NamesPrimary, Has
  <2>2. members \cap RenderedNetworks(config) = {}
    BY <2>1, NetworksRendered, HostsAreAddresses DEF CidrsConflict, InNetworks, NamesPrimary
  <2> QED
    BY <1>1, <2>1, <2>2 DEF AddressesInv, NodesOutsideNetworks
<1> QED
  BY <1>2, <1>3 DEF Init

\* A step of a command leaves what it is about.
LEMMA StepKeepsWanted ==
  ASSUME RunsOK, NEW m \in Machines, Step(m), NEW k \in Machines,
         Running(k)', run'[k].checked
  PROVE  run[k].checked /\ Wanted(run'[k]) = Wanted(run[k])
           /\ (k # m => Running(k))
<1>1. CASE k # m
  BY <1>1 DEF Step, Running
<1>2. CASE k = m
  <2>1. run'[m] # Exit(1)
    BY <1>2, ExitOK
  <2> QED
    BY <1>2, <2>1, SameWanted DEF Step, Keeps
<1> QED
  BY <1>1, <1>2

\* Only hosts the command is about are given to a play that starts k3s.
LEMMA JoinsAreWanted ==
  ASSUME RunsOK, NEW m \in Machines, NEW n \in run[m].left, Running(m),
         Effect(run[m]) \in Joins
  PROVE  n \in Wanted(run[m])
<1> DEFINE q == Playbook[run[m].kind][run[m].play]
<1>1. InPlay(run[m])
  BY RunningInPlay
<1>2. run[m].kind \in Kinds /\ run[m].play \in DOMAIN Playbook[run[m].kind]
  BY <1>1, LeftAreNodes DEF InPlay
<1>3. q.groups \subseteq KubeGroups
  BY <1>2, PlaybookShaped DEF Shaped, GoodPlay, Effect
<1>4. n \in UNION {run[m].hosts[g] : g \in q.groups}
  BY <1>1 DEF InPlay, HostsOf
<1> QED
  BY <1>3, <1>4 DEF Wanted

LEMMA JoinAddresses ==
  ASSUME RunsOK, AddressesInv, NamesPrimary, NEW m \in Machines, NEW n \in run[m].left,
         Running(m), Effect(run[m]) \in Joins, Join(m, n), UNCHANGED config
  PROVE  NodesOutsideNetworks'
<1>1. members' = members \cup {n} /\ RenderedNetworks(config)' = RenderedNetworks(config)
  BY DEF Join
<1>2. CASE run[m].checked
  <2>1. n \notin RenderedNetworks(config) /\ unchecked' = unchecked
    BY <1>2, JoinsAreWanted DEF AddressesInv, Join
  <2> QED
    BY <1>1, <2>1 DEF NodesOutsideNetworks, AddressesInv
<1>3. CASE ~run[m].checked
  <2>1. unchecked' = unchecked \cup {n}
    BY <1>3 DEF Join
  <2> QED
    BY <1>1, <2>1 DEF NodesOutsideNetworks, AddressesInv
<1> QED
  BY <1>2, <1>3

LEMMA StepAddresses == TypeOK /\ AddressesInv /\ [Next]_vars => AddressesInv'
<1> SUFFICES ASSUME TypeOK, AddressesInv, [Next]_vars PROVE AddressesInv'
  OBVIOUS
<1> DEFINE Apart == NamesPrimary => \A m \in Machines :
             Running(m) /\ run[m].checked => Wanted(run[m]) \cap RenderedNetworks(config) = {}
<1>1. ClusterOK /\ RunsOK
  BY TypeParts
<1>2. ASSUME NEW m \in Machines, Command(m) PROVE AddressesInv'
  <2>1. /\ Begun(m) /\ \A k \in Machines \ {m} : run'[k] = run[k]
        /\ UNCHANGED <<cluster, history>>
    BY <1>2, CommandSteps
  <2>2. /\ UNCHANGED config /\ Servers' = Servers /\ NamesPrimary' = NamesPrimary
        /\ NodesOutsideNetworks'
    BY <2>1 DEF cluster, history, Servers, NamesPrimary, AddressesInv, NodesOutsideNetworks
  <2>3. ASSUME NamesPrimary, Running(m)', run'[m].checked
        PROVE  Wanted(run'[m]) \cap RenderedNetworks(config) = {}
    <3>1. run'[m] # Exit(1) /\ run'[m].phase # "ended"
      BY <2>3, ExitOK DEF Running
    <3>2. CASE \E checks \in BOOLEAN :
                 /\ ~checks \/ ~CidrsConflict(config)
                 /\ GenerateInventory(config) = "ok"
                 /\ Keeps(InstallRun(checks), run'[m])
      <4>1. PICK checks \in BOOLEAN : /\ ~checks \/ ~CidrsConflict(config)
                                      /\ GenerateInventory(config) = "ok"
                                      /\ Keeps(InstallRun(checks), run'[m])
        BY <3>2
      <4>2. checks /\ run'[m].hosts = InstallInventory
        BY <1>1, <2>3, <3>1, <4>1, InstallRunOK DEF Keeps
      <4> QED
        BY <2>3, <4>1, <4>2, InstallOutside
    <3>3. CASE \E named \in Asked, checks \in BOOLEAN :
                 /\ ~Taken(named, checks) /\ ReadsCluster
                 /\ Keeps(AddNodeRun(named, checks), run'[m])
      <4>1. PICK named \in Asked, checks \in BOOLEAN :
                 /\ ~Taken(named, checks) /\ ReadsCluster
                 /\ Keeps(AddNodeRun(named, checks), run'[m])
        BY <3>3
      <4>2. checks = TRUE /\ run'[m].hosts = [NoHosts EXCEPT !["worker_nodes"] = named]
        BY <1>1, <2>3, <3>1, <4>1, AddNodeRunOK DEF Keeps
      <4> QED
        BY <4>1, <4>2, AddNodeOutside
    <3>4. CASE \E kind \in UpgradeModes, target \in Majors, named \in Asked,
                  lenient \in BOOLEAN :
                 /\ target \geq version /\ ReadsCluster
                 /\ Keeps(UpgradeRun(kind, target, named, lenient), run'[m])
      <4>1. PICK kind \in UpgradeModes, target \in Majors, named \in Asked,
                  lenient \in BOOLEAN :
                 ReadsCluster /\ Keeps(UpgradeRun(kind, target, named, lenient), run'[m])
        BY <3>4
      <4>2. ~UpgradeRun(kind, target, named, lenient).checked
        BY <1>1, <4>1, UpgradeRunOK, PrimaryIsOldest DEF ReadsCluster, ClusterOK
      <4> QED
        BY <2>3, <3>1, <4>1, <4>2 DEF Keeps
    <3>5. CASE \E kind \in DOMAIN Services, named \in Asked, server \in Nodes :
                 /\ Keeps(ServiceRun(kind, named, server), run'[m])
                 /\ ~ServiceRun(kind, named, server).checked
      BY <2>3, <3>1, <3>5 DEF Keeps
    <3> QED
      BY <2>1, <3>1, <3>2, <3>3, <3>4, <3>5 DEF Begun
  <2>4. Apart'
    BY <2>1, <2>2, <2>3, SameWanted DEF AddressesInv, Running
  <2> QED
    BY <2>2, <2>4 DEF AddressesInv
<1>3. ASSUME NEW m \in Machines, Running(m), Step(m), config' = config PROVE Apart'
  <2>1. NamesPrimary' = NamesPrimary /\ RenderedNetworks(config)' = RenderedNetworks(config)
    BY <1>3 DEF NamesPrimary
  <2>2. ASSUME NamesPrimary, NEW k \in Machines, Running(k)', run'[k].checked
        PROVE  Wanted(run'[k]) \cap RenderedNetworks(config) = {}
    BY <1>1, <1>3, <2>2, StepKeepsWanted DEF AddressesInv
  <2> QED
    BY <2>1, <2>2
<1>4. ASSUME NEW m \in Machines, Task(m) PROVE AddressesInv'
  <2>1. Step(m)
    BY <1>1, <1>4, TaskSteps
  <2>2. ASSUME NEW n \in run[m].left, StartServer(m, n) PROVE AddressesInv'
    <3>1. /\ Running(m) /\ Effect(run[m]) \in Joins /\ Join(m, n) /\ UNCHANGED config
          /\ n \in Nodes
      BY <1>1, <2>2, LeftAreNodes DEF StartServer, At, Joins
    <3>2. NamesPrimary
      <4>1. CASE n \in Section(config, "primary_master_node")
        BY <4>1 DEF NamesPrimary, Has
      <4>2. CASE Servers # {}
        BY <4>2 DEF AddressesInv
      <4> QED
        BY <2>2, <4>1, <4>2 DEF StartServer
    <3> QED
      BY <1>1, <1>3, <2>1, <3>1, <3>2, JoinAddresses DEF AddressesInv, NamesPrimary
  <2>3. ASSUME NEW n \in run[m].left, StartAgent(m, n) PROVE AddressesInv'
    <3>1. /\ Running(m) /\ Effect(run[m]) \in Joins /\ Join(m, n) /\ UNCHANGED config
          /\ Servers # {} /\ Servers' = Servers
      BY <2>3 DEF StartAgent, At, Joins, Servers
    <3>2. NamesPrimary
      BY <3>1 DEF AddressesInv
    <3> QED
      BY <1>1, <1>3, <2>1, <3>1, <3>2, JoinAddresses DEF AddressesInv, NamesPrimary
  <2>4. ASSUME Running(m), UNCHANGED <<config, members, stamp, unchecked>> PROVE AddressesInv'
    <3>1. Apart'
      BY <1>3, <2>1, <2>4
    <3>2. Servers' = Servers /\ NamesPrimary' = NamesPrimary /\ NodesOutsideNetworks'
      BY <2>4 DEF Servers, NamesPrimary, AddressesInv, NodesOutsideNetworks
    <3> QED
      BY <3>1, <3>2 DEF AddressesInv
  <2>5. ASSUME NEW n \in run[m].left,
               \/ ServerRuns(m, n) \/ ServerSkipped(m, n) \/ VerifyServers(m, n)
               \/ AgentSkipped(m, n) \/ AgentFails(m, n)
               \/ MajorTasks(m, n) \/ PatchVersion(m, n) \/ CreateCluster(m, n)
               \/ TaskFails(m, n)
        PROVE  Running(m) /\ UNCHANGED <<config, members, stamp, unchecked>>
    BY <2>5 DEF ServerRuns, ServerSkipped, VerifyServers, AgentSkipped, AgentFails,
                MajorTasks, PatchVersion, CreateCluster, TaskFails, At, cluster, history
  <2>6. ASSUME NEW failed, Prepare(m, failed)
        PROVE  Running(m) /\ UNCHANGED <<config, members, stamp, unchecked>>
    BY <2>6 DEF Prepare, cluster, history
  <2> QED
    BY <1>4, <2>2, <2>3, <2>4, <2>5, <2>6 DEF Task
<1>5. ASSUME NEW m \in Machines, Interrupt(m) PROVE AddressesInv'
  <2>1. Running(m) /\ Step(m) /\ UNCHANGED <<config, members, stamp, unchecked>>
    BY <1>1, <1>5, InterruptSteps DEF Interrupt, cluster, history
  <2>2. Apart'
    BY <1>3, <2>1
  <2>3. Servers' = Servers /\ NamesPrimary' = NamesPrimary /\ NodesOutsideNetworks'
    BY <2>1 DEF Servers, NamesPrimary, AddressesInv, NodesOutsideNetworks
  <2> QED
    BY <2>2, <2>3 DEF AddressesInv
<1>6. ASSUME NEW n \in Nodes, RemoveNode(n) PROVE AddressesInv'
  <2>1. Servers' = Servers \ {n}
    BY <1>1, <1>6, RemoveKeeps
  <2>2. /\ UNCHANGED <<config, run, unchecked>> /\ members' = members \ {n}
    BY <1>6 DEF RemoveNode
  <2> QED
    BY <2>1, <2>2 DEF AddressesInv, NamesPrimary, NodesOutsideNetworks, Running
<1>7. CASE UNCHANGED vars
  BY <1>7 DEF vars, cluster, history, AddressesInv, NamesPrimary, NodesOutsideNetworks,
              Running, Servers
<1> QED
  BY <1>2, <1>4, <1>5, <1>6, <1>7 DEF Next

(* A node of the cluster whose command compared addresses lies outside the *)
(* networks of pods and services, in both families of a dual-stack file,   *)
(* whether install or add-node brought it.                                 *)
THEOREM AddressesApart == Spec => []NodesOutsideNetworks
<1>1. AddressesInv => NodesOutsideNetworks
  BY DEF AddressesInv
<1> QED
  BY <1>1, InitAddresses, StepAddresses, CommandsTypeCorrect, PTL DEF Spec

-----------------------------------------------------------------------------
(* Which commands do what to hosts *)

Does(P, effects) == \A i \in DOMAIN P : P[i].effect \in effects

LEMMA PlaybookOf ==
  /\ Playbook["install"] = InstallPlaybook /\ Playbook["addNode"] = AddNodePlaybook
  /\ Playbook["upgrade"] = UpgradePlaybook /\ Playbook["controller"] = ControllerPlaybook
  /\ Playbook["host"] = HostPlaybook /\ Playbook["final"] = FinalPlaybook
  /\ \A k \in DOMAIN Services : Playbook[k] = ServicesPlaybook
<1>1. \A k \in DOMAIN Services :
        k \notin {"install", "addNode", "upgrade", "controller", "host", "final"}
  BY DEF Services
<1>2. {"install", "addNode", "upgrade", "controller", "host", "final"} \subseteq Kinds
        /\ DOMAIN Services \subseteq Kinds
  BY DEF Kinds, UpgradeModes
<1>3. /\ Playbook["install"] = InstallPlaybook /\ Playbook["addNode"] = AddNodePlaybook
      /\ Playbook["upgrade"] = UpgradePlaybook /\ Playbook["controller"] = ControllerPlaybook
      /\ Playbook["host"] = HostPlaybook /\ Playbook["final"] = FinalPlaybook
  BY <1>2 DEF Playbook
<1>4. ASSUME NEW k \in DOMAIN Services PROVE Playbook[k] = ServicesPlaybook
  BY <1>1, <1>2 DEF Playbook
<1> QED
  BY <1>3, <1>4

LEMMA KindNames ==
  /\ Kinds = {"install", "addNode", "upgrade", "controller", "host", "final"} \cup DOMAIN Services
  /\ \A k \in {"install", "addNode", "upgrade", "controller", "host", "final", "startStop"} :
       PassesStatus(k)
  /\ "startStop" \in DOMAIN Services
  /\ {"install", "addNode", "upgrade", "controller", "host", "final"} \cap DOMAIN Services = {}
<1>1. Kinds = {"install", "addNode", "upgrade", "controller", "host", "final"} \cup DOMAIN Services
  BY DEF Kinds, UpgradeModes
<1>2. \A k \in {"install", "addNode", "upgrade", "controller", "host", "final"} :
        k \notin DOMAIN Services
  BY DEF Services
<1>3. "startStop" \in DOMAIN Services /\ Services["startStop"].passes = TRUE
  BY DEF Services, StartStop, Service
<1> QED
  BY <1>1, <1>2, <1>3 DEF PassesStatus

LEMMA InstallEffects ==
  /\ Does(InstallPlaybook, {"prepare", "start server", "verify servers", "start agent", "create cluster"})
  /\ DOMAIN InstallPlaybook = 1..13
  /\ InstallPlaybook[6] = Play({"primary_master_node"}, FALSE, "start server")
  /\ InstallPlaybook[7] = Play({"master_nodes"}, FALSE, "start server")
  /\ InstallPlaybook[9] = Play({"worker_nodes"}, FALSE, "start agent")
  /\ \A i \in DOMAIN InstallPlaybook :
       InstallPlaybook[i].effect = "start server" => i = 6 \/ i = 7
<1>1. DOMAIN InstallPlaybook = 1..13
  BY DEF InstallPlaybook
<1>2. /\ InstallPlaybook[6] = Play({"primary_master_node"}, FALSE, "start server")
      /\ InstallPlaybook[7] = Play({"master_nodes"}, FALSE, "start server")
      /\ InstallPlaybook[9] = Play({"worker_nodes"}, FALSE, "start agent")
  BY DEF InstallPlaybook
<1>3. /\ InstallPlaybook[1].effect = "prepare" /\ InstallPlaybook[2].effect = "prepare"
      /\ InstallPlaybook[3].effect = "prepare" /\ InstallPlaybook[4].effect = "prepare"
      /\ InstallPlaybook[5].effect = "prepare"
  BY DEF InstallPlaybook, Play
<1>4. /\ InstallPlaybook[8].effect = "verify servers" /\ InstallPlaybook[10].effect = "prepare"
      /\ InstallPlaybook[11].effect = "create cluster"
      /\ InstallPlaybook[12].effect = "prepare" /\ InstallPlaybook[13].effect = "prepare"
  BY DEF InstallPlaybook, Play
<1>5. /\ InstallPlaybook[6].effect = "start server" /\ InstallPlaybook[7].effect = "start server"
      /\ InstallPlaybook[9].effect = "start agent"
  BY DEF InstallPlaybook, Play
<1>6. \A i \in 1..13 : i \in {1, 2, 3, 4, 5, 6, 7, 8, 9, 10, 11, 12, 13}
  OBVIOUS
<1>7. Does(InstallPlaybook, {"prepare", "start server", "verify servers", "start agent", "create cluster"})
  BY <1>1, <1>3, <1>4, <1>5, <1>6 DEF Does
<1>8. \A i \in DOMAIN InstallPlaybook :
        InstallPlaybook[i].effect = "start server" => i = 6 \/ i = 7
  BY <1>1, <1>3, <1>4, <1>5, <1>6
<1> QED
  BY <1>1, <1>2, <1>7, <1>8

LEMMA AddNodeEffects ==
  /\ Does(AddNodePlaybook, {"prepare", "start agent"})
  /\ DOMAIN AddNodePlaybook = 1..2
  /\ AddNodePlaybook[2] = Play({"worker_nodes"}, FALSE, "start agent")
<1>1. DOMAIN AddNodePlaybook = 1..2 /\ \A i \in 1..2 : i \in {1, 2}
  BY DEF AddNodePlaybook
<1>2. /\ AddNodePlaybook[1] = Play(AllGroups, FALSE, "prepare")
      /\ AddNodePlaybook[2] = Play({"worker_nodes"}, FALSE, "start agent")
  BY DEF AddNodePlaybook
<1>3. AddNodePlaybook[1].effect = "prepare" /\ AddNodePlaybook[2].effect = "start agent"
  BY DEF AddNodePlaybook, Play
<1> QED
  BY <1>1, <1>2, <1>3 DEF Does

LEMMA UpgradeEffects ==
  /\ Does(UpgradePlaybook, {"prepare", "major tasks", "patch version"})
  /\ DOMAIN UpgradePlaybook = 1..5
  /\ UpgradePlaybook[1] = Play(AllGroups, TRUE, "major tasks")
  /\ \A i \in DOMAIN UpgradePlaybook : UpgradePlaybook[i].fatal
<1>1. DOMAIN UpgradePlaybook = 1..5 /\ \A i \in 1..5 : i \in {1, 2, 3, 4, 5}
  BY DEF UpgradePlaybook
<1>2. /\ UpgradePlaybook[1] = Play(AllGroups, TRUE, "major tasks")
      /\ UpgradePlaybook[2] = Play({"primary_master_node"}, TRUE, "patch version")
      /\ UpgradePlaybook[3] = Play({"master_nodes"}, TRUE, "prepare")
      /\ UpgradePlaybook[4] = Play({"worker_nodes"}, TRUE, "prepare")
      /\ UpgradePlaybook[5] = Play(KubeGroups, TRUE, "prepare")
  BY DEF UpgradePlaybook
<1>3. /\ UpgradePlaybook[1].effect = "major tasks" /\ UpgradePlaybook[1].fatal
      /\ UpgradePlaybook[2].effect = "patch version" /\ UpgradePlaybook[2].fatal
      /\ UpgradePlaybook[3].effect = "prepare" /\ UpgradePlaybook[3].fatal
      /\ UpgradePlaybook[4].effect = "prepare" /\ UpgradePlaybook[4].fatal
      /\ UpgradePlaybook[5].effect = "prepare" /\ UpgradePlaybook[5].fatal
  BY DEF UpgradePlaybook, Play
<1> QED
  BY <1>1, <1>2, <1>3 DEF Does

LEMMA ControllerEffects ==
  Does(ControllerPlaybook, {"major tasks", "prepare"})
<1>1. DOMAIN ControllerPlaybook = 1..2 /\ \A i \in 1..2 : i \in {1, 2}
  BY DEF ControllerPlaybook
<1>2. /\ ControllerPlaybook[1].effect = "major tasks"
      /\ ControllerPlaybook[2].effect = "prepare"
  BY DEF ControllerPlaybook, Play
<1> QED
  BY <1>1, <1>2 DEF Does

LEMMA HostEffects ==
  /\ Does(HostPlaybook, {"forced major tasks", "prepare"})
  /\ DOMAIN HostPlaybook = 1..2
  /\ HostPlaybook[1] = Play(AllGroups, FALSE, "forced major tasks")
<1>1. DOMAIN HostPlaybook = 1..2 /\ \A i \in 1..2 : i \in {1, 2}
  BY DEF HostPlaybook
<1>2. /\ HostPlaybook[1] = Play(AllGroups, FALSE, "forced major tasks")
      /\ HostPlaybook[2] = Play({"worker_nodes"}, FALSE, "prepare")
  BY DEF HostPlaybook
<1>3. HostPlaybook[1].effect = "forced major tasks" /\ HostPlaybook[2].effect = "prepare"
  BY DEF HostPlaybook, Play
<1> QED
  BY <1>1, <1>2, <1>3 DEF Does

LEMMA FinalEffects ==
  Does(FinalPlaybook, {"prepare", "patch version"})
<1>1. DOMAIN FinalPlaybook = 1..5 /\ \A i \in 1..5 : i \in {1, 2, 3, 4, 5}
  BY DEF FinalPlaybook
<1>2. /\ FinalPlaybook[1].effect = "prepare" /\ FinalPlaybook[2].effect = "patch version"
      /\ FinalPlaybook[3].effect = "prepare" /\ FinalPlaybook[4].effect = "prepare"
      /\ FinalPlaybook[5].effect = "prepare"
  BY DEF FinalPlaybook, Play
<1> QED
  BY <1>1, <1>2 DEF Does

LEMMA ServicesEffects == Does(ServicesPlaybook, {"prepare"})
<1>1. DOMAIN ServicesPlaybook = {1} /\ ServicesPlaybook[1].effect = "prepare"
  BY DEF ServicesPlaybook, Play
<1> QED
  BY <1>1 DEF Does

\* Only install and add-node make nodes, only install makes the cluster, only
\* upgrade and upgrade-final declare a version.
LEMMA WhoDoesWhat ==
  ASSUME NEW k \in Kinds, NEW i \in DOMAIN Playbook[k]
  PROVE  LET e == Playbook[k][i].effect IN
         /\ e \in Joins => k \in {"install", "addNode"}
         /\ e \in {"start server", "create cluster"} => k = "install"
         /\ e = "patch version" => k \in Patching
         /\ k \in DOMAIN Services => e = "prepare"
<1> DEFINE e == Playbook[k][i].effect
<1>2. CASE k = "install"
  <2>1. e \in {"prepare", "start server", "verify servers", "start agent", "create cluster"}
    BY <1>2, PlaybookOf, InstallEffects DEF Does
  <2> QED
    BY <1>2, <2>1, KindNames
<1>3. CASE k = "addNode"
  <2>1. e \in {"prepare", "start agent"}
    BY <1>3, PlaybookOf, AddNodeEffects DEF Does
  <2> QED
    BY <1>3, <2>1, KindNames
<1>4. CASE k \in {"upgrade", "final"}
  <2>1. e \in {"prepare", "major tasks", "patch version"}
    BY <1>4, PlaybookOf, UpgradeEffects, FinalEffects DEF Does
  <2> QED
    BY <1>4, <2>1, KindNames DEF Patching, Joins
<1>5. CASE k \in {"controller", "host"}
  <2>1. e \in {"major tasks", "forced major tasks", "prepare"}
    BY <1>5, PlaybookOf, ControllerEffects, HostEffects DEF Does
  <2> QED
    BY <1>5, <2>1, KindNames DEF Joins
<1>6. CASE k \in DOMAIN Services
  <2>1. e \in {"prepare"}
    BY <1>6, PlaybookOf, ServicesEffects DEF Does
  <2> QED
    BY <2>1 DEF Joins
<1> QED
  BY <1>2, <1>3, <1>4, <1>5, <1>6, KindNames

-----------------------------------------------------------------------------
(* What a command has done.  A host has passed a play that is over for it  *)
(* and in which it did not fail.                                           *)

AllOf(r, j) == UNION {r.hosts[g] : g \in Playbook[r.kind][j].groups}

Passed(r, j, n) ==
  /\ n \in AllOf(r, j) \ r.lost
  /\ \/ r.phase = "ended"
     \/ j < r.play
     \/ j = r.play /\ n \notin r.left

\* Exit status 0 tells that no host failed, for the commands that pass the
\* status of their playbook on; a strict upgrade does not outlive a failure.
NoneLost(r) ==
  /\ r.phase = "ended" /\ r.exit = 0 /\ PassesStatus(r.kind) => r.lost = {}
  /\ r.phase = "plays" /\ Strict(r) => r.lost = {}

\* s has failed, or has got further than r by the hosts N in the play of r,
\* and by plays that no host is left for.
Advances(r, s, joined, N) ==
  \/ s = Exit(1)
  \/ /\ s.joined = joined /\ NoneLost(s)
     /\ \A j \in DOMAIN Playbook[r.kind] : \A n :
          Passed(s, j, n) => Passed(r, j, n) \/ (j = r.play /\ n \in N)

LEMMA EndedPasses ==
  ASSUME NEW r \in Runs, Ended(r) # Exit(1)
  PROVE  /\ Ended(r).joined = r.joined /\ NoneLost(Ended(r))
         /\ \A j, n : Passed(Ended(r), j, n) => n \in HostsOf(r, j)
<1> DEFINE s == Ended(r)
<1>1. s = [r EXCEPT !.phase = "ended", !.left = {}]
        /\ (PassesStatus(r.kind) => r.lost = {})
  BY DEF Ended
<1>2. /\ s.kind = r.kind /\ s.hosts = r.hosts /\ s.lost = r.lost /\ s.joined = r.joined
      /\ s.phase = "ended"
  BY <1>1 DEF Runs
<1> HIDE DEF s
<1>3. NoneLost(s)
  BY <1>1, <1>2 DEF NoneLost
<1>4. \A j, n : Passed(s, j, n) => n \in HostsOf(r, j)
  BY <1>2 DEF Passed, AllOf, HostsOf
<1> QED
  BY <1>2, <1>3, <1>4 DEF s

\* Going to play i passes no play from i on.
LEMMA GotoPasses ==
  ASSUME NEW r \in Runs, r.phase = "plays", NoneLost(r), NEW i \in Nat \ {0},
         Goto(r, i) # Exit(1)
  PROVE  /\ Goto(r, i).joined = r.joined /\ NoneLost(Goto(r, i))
         /\ \A j \in DOMAIN Playbook[r.kind] : \A n :
              Passed(Goto(r, i), j, n) => j < i /\ n \in HostsOf(r, j)
<1> DEFINE P == Playbook[r.kind]
           later == {j \in i..Len(P) : HostsOf(r, j) # {}}
           k == Min(later)
           s == [r EXCEPT !.play = k, !.left = HostsOf(r, k)]
<1>1. Goto(r, i) = IF later = {} THEN Ended(r) ELSE s
  BY DEF Goto
<1>2. Len(P) \in Nat /\ DOMAIN P = 1..Len(P)
  BY PlaybookShaped DEF Shaped, Runs
<1>3. \A j \in DOMAIN P : j \in Nat /\ (j \geq i => j \in i..Len(P))
  BY <1>2
<1>4. CASE later = {}
  <2>1. \A j \in DOMAIN P : \A n : n \in HostsOf(r, j) => j < i
    BY <1>3, <1>4
  <2>2. Goto(r, i) = Ended(r)
    BY <1>1, <1>4
  <2> HIDE DEF P, later
  <2> QED
    BY <2>1, <2>2, EndedPasses DEF P
<1>5. CASE later # {}
  <2>1. /\ later \subseteq Nat
        /\ \A j \in later : HostsOf(r, j) # {} /\ j \in DOMAIN P /\ j \geq i
    BY <1>2
  <2>2. k \in later /\ \A j \in later : k \leq j
    <3> HIDE DEF later
    <3> QED
      BY <1>5, <2>1, LeastOf
  <2>3. k \in Nat /\ HostsOf(r, k) \subseteq Nodes /\ k \geq i
    <3> HIDE DEF later, k
    <3> QED
      BY <2>1, <2>2, HostsAreNodes
  <2>4. \A j \in DOMAIN P : j \geq i /\ HostsOf(r, j) # {} => k \leq j
    BY <1>3, <2>2
  <2> HIDE DEF k, later, P
  <2>5. /\ s.kind = r.kind /\ s.hosts = r.hosts /\ s.lost = r.lost /\ s.joined = r.joined
        /\ s.phase = "plays" /\ s.lenient = r.lenient /\ s.play = k /\ s.left = HostsOf(r, k)
    BY <2>3 DEF Runs
  <2> HIDE DEF s
  <2>6. NoneLost(s)
    BY <2>5 DEF NoneLost, Strict
  <2>7. ASSUME NEW j \in DOMAIN P, NEW n, Passed(s, j, n) PROVE j < i /\ n \in HostsOf(r, j)
    <3>1. n \in HostsOf(r, j) /\ (j < k \/ (j = k /\ n \notin HostsOf(r, k)))
      BY <2>5, <2>7 DEF Passed, AllOf, HostsOf
    <3>2. j < k
      BY <3>1
    <3> QED
      BY <1>3, <2>3, <2>4, <3>1, <3>2
  <2>8. Goto(r, i) = s
    BY <1>1, <1>5
  <2> QED
    BY <2>5, <2>6, <2>7, <2>8 DEF P
<1> QED
  BY <1>4, <1>5

LEMMA SettleAdvances ==
  ASSUME NEW r, InPlay(r), NoneLost(r), AllOf(r, r.play) # {}, PassesStatus(r.kind)
  PROVE  Advances(r, Settle(r), r.joined, {})
<1>1. r \in Runs /\ r.phase = "plays"
  BY DEF InPlay
<1>2. CASE r.left # {}
  BY <1>2 DEF Settle, Advances
<1>3. CASE r.left = {} /\ HostsOf(r, r.play) = {}
  <2>1. Settle(r) = Ended(r) /\ r.lost # {}
    BY <1>3 DEF Settle, NextPlay, HostsOf, AllOf
  <2> QED
    BY <2>1 DEF Ended, Advances
<1>4. CASE r.left = {} /\ HostsOf(r, r.play) # {}
  <2>1. Settle(r) = Goto(r, r.play + 1)
    BY <1>4 DEF Settle, NextPlay
  <2>2. r.play \in Nat
    BY <1>1 DEF Runs
  <2>3. \A j \in DOMAIN Playbook[r.kind] : j \in Nat
    BY <1>1, PlaybookShaped DEF Shaped, Runs
  <2>4. \A j \in DOMAIN Playbook[r.kind] : \A n :
          j < r.play + 1 /\ n \in HostsOf(r, j) => Passed(r, j, n)
    BY <1>4, <2>2, <2>3 DEF Passed, AllOf, HostsOf
  <2> QED
    BY <1>1, <2>1, <2>2, <2>4, GotoPasses DEF Advances
<1> QED
  BY <1>2, <1>3, <1>4

LEMMA DoneAdvances ==
  ASSUME NEW r, InPlay(r), NoneLost(r), NEW n \in r.left, PassesStatus(r.kind),
         NEW joined \in SUBSET Nodes
  PROVE  LET s == Settle([r EXCEPT !.left = r.left \ {n}, !.joined = joined])
             t == Settle([r EXCEPT !.left = r.left \ {n}])
         IN  Advances(r, s, joined, {n}) /\ Advances(r, t, r.joined, {n})
<1> DEFINE s == [r EXCEPT !.left = r.left \ {n}, !.joined = joined]
           t == [r EXCEPT !.left = r.left \ {n}]
<1>1. s \in Runs /\ t \in Runs
  BY DEF InPlay, Runs
<1>2. /\ s.left = r.left \ {n} /\ s.kind = r.kind /\ s.hosts = r.hosts /\ s.lost = r.lost
      /\ s.phase = r.phase /\ s.play = r.play /\ s.lenient = r.lenient /\ s.joined = joined
  BY DEF InPlay, Runs
<1>3. /\ t.left = r.left \ {n} /\ t.kind = r.kind /\ t.hosts = r.hosts /\ t.lost = r.lost
      /\ t.phase = r.phase /\ t.play = r.play /\ t.lenient = r.lenient /\ t.joined = r.joined
  BY DEF InPlay, Runs
<1>4. r.phase = "plays" /\ AllOf(r, r.play) # {}
  BY DEF InPlay, HostsOf, AllOf
<1> HIDE DEF s, t
<1>5. InPlay(s) /\ NoneLost(s) /\ AllOf(s, s.play) # {} /\ PassesStatus(s.kind)
  BY <1>1, <1>2, <1>4 DEF InPlay, NoneLost, Strict, AllOf, HostsOf
<1>6. InPlay(t) /\ NoneLost(t) /\ AllOf(t, t.play) # {} /\ PassesStatus(t.kind)
  BY <1>1, <1>3, <1>4 DEF InPlay, NoneLost, Strict, AllOf, HostsOf
<1>7. \A j, k : /\ Passed(s, j, k) => Passed(r, j, k) \/ (j = r.play /\ k = n)
                /\ Passed(t, j, k) => Passed(r, j, k) \/ (j = r.play /\ k = n)
  BY <1>2, <1>3 DEF Passed, AllOf
<1>8. Advances(s, Settle(s), joined, {}) /\ Advances(t, Settle(t), r.joined, {})
  BY <1>2, <1>3, <1>5, <1>6, SettleAdvances
<1>9. Advances(r, Settle(s), joined, {n}) /\ Advances(r, Settle(t), r.joined, {n})
  BY <1>2, <1>3, <1>7, <1>8 DEF Advances
<1> QED
  BY <1>9 DEF s, t

LEMMA LoseAdvances ==
  ASSUME NEW r, InPlay(r), NoneLost(r), AllOf(r, r.play) # {}, PassesStatus(r.kind),
         NEW failed \in SUBSET Nodes
  PROVE  Advances(r, Lose(r, failed), r.joined, {})
<1> DEFINE s == [r EXCEPT !.lost = r.lost \cup failed, !.left = r.left \ failed]
<1>1. s \in Runs
  BY DEF InPlay, Runs
<1>2. /\ s.left = r.left \ failed /\ s.lost = r.lost \cup failed
      /\ s.kind = r.kind /\ s.hosts = r.hosts /\ s.joined = r.joined
      /\ s.phase = r.phase /\ s.play = r.play /\ s.lenient = r.lenient
  BY DEF InPlay, Runs
<1>3. Lose(r, failed) = IF failed # {} /\ Fatal(r) THEN Ended(s) ELSE Settle(s)
  BY DEF Lose
<1> HIDE DEF s
<1>4. CASE failed # {} /\ Fatal(r)
  <2>1. Ended(s) = Exit(1)
    BY <1>2, <1>4 DEF Ended
  <2> QED
    BY <1>3, <1>4, <2>1 DEF Advances
<1>5. CASE ~(failed # {} /\ Fatal(r))
  <2>1. Strict(r) => failed = {}
    <3> SUFFICES ASSUME Strict(r) PROVE Fatal(r)
      BY <1>5
    <3>1. r.kind = "upgrade" /\ ~r.lenient
      BY DEF Strict
    <3> QED
      BY <3>1, PlaybookOf, UpgradeEffects DEF Fatal, InPlay
  <2>2. InPlay(s)
    BY <1>1, <1>2 DEF InPlay, HostsOf
  <2>3. NoneLost(s) /\ AllOf(s, s.play) # {} /\ PassesStatus(s.kind)
    BY <1>2, <2>1 DEF NoneLost, Strict, AllOf, InPlay
  <2>4. Advances(s, Settle(s), s.joined, {})
    BY <2>2, <2>3, SettleAdvances
  <2>5. \A j, k : Passed(s, j, k) => Passed(r, j, k)
    BY <1>2 DEF Passed, AllOf
  <2> QED
    BY <1>2, <1>3, <1>5, <2>4, <2>5 DEF Advances
<1> QED
  BY <1>4, <1>5

-----------------------------------------------------------------------------
(* What the hosts of a command have behind them, whatever failed: each one *)
(* has been made a node by the plays that start k3s, or is one of those in *)
(* ex, and the plays of a major upgrade have left their mark in ta.        *)

DidIn(r, j, n, ex, ta) ==
  LET e == Playbook[r.kind][j].effect IN
  /\ e \in Joins => n \in r.joined \cup ex
  /\ e = "forced major tasks" \/ (e = "major tasks" /\ r.major) => r.target \in ta[n]

FollowedIn(r, ex, ta) ==
  \A j \in DOMAIN Playbook[r.kind], n \in Nodes : Passed(r, j, n) => DidIn(r, j, n, ex, ta)

\* Nothing older than the file c is installed or declared, and the hosts an
\* install or an add-node makes nodes are those it was given.
AimedIn(r, c) ==
  /\ r.kind \in {"install", "addNode"} \cup Patching
       => GenerateInventory(c) = "ok" /\ r.target \geq OnecloudVersion(c)
  /\ r.kind = "install"
       => r.target = OnecloudVersion(c) /\ \A g \in KubeGroups : r.hosts[g] = Section(c, g)
  /\ r.kind = "addNode" => \A g \in KubeGroups \ {"worker_nodes"} : r.hosts[g] = {}

RunGood(r, ex, ta, c) == FollowedIn(r, ex, ta) /\ NoneLost(r) /\ AimedIn(r, c)

\* What a play of r must have done to the hosts N that it is over for.
DoneTo(r, N, joined, ex, ta) ==
  \A n \in N :
    /\ Effect(r) \in Joins => n \in joined \cup ex
    /\ Effect(r) = "forced major tasks" \/ (Effect(r) = "major tasks" /\ r.major)
         => r.target \in ta[n]

LEMMA ServicesGood ==
  ASSUME NEW r, r.kind \in DOMAIN Services,
         r.phase = "ended" /\ r.exit = 0 /\ PassesStatus(r.kind) => r.lost = {}
  PROVE  \A ex, ta, c : RunGood(r, ex, ta, c)
<1>1. \A j \in DOMAIN Playbook[r.kind] : Playbook[r.kind][j].effect = "prepare"
  BY PlaybookOf, ServicesEffects DEF Does
<1>2. \A ex, ta : FollowedIn(r, ex, ta)
  BY <1>1 DEF FollowedIn, DidIn, Joins
<1>3. r.kind \notin {"install", "addNode", "upgrade", "controller", "host", "final"}
  BY KindNames
<1>4. NoneLost(r)
  BY <1>3 DEF NoneLost, Strict
<1>5. \A c : AimedIn(r, c)
  BY <1>3 DEF AimedIn, Patching
<1> QED
  BY <1>2, <1>4, <1>5 DEF RunGood

LEMMA ExitGood ==
  ASSUME NEW status
  PROVE  \A ex, ta, c : RunGood(Exit(status), ex, ta, c)
<1>1. Exit(status).kind = "startStop" /\ Exit(status).lost = {}
  BY DEF Exit, Blank
<1> QED
  BY <1>1, KindNames, ServicesGood

\* A command stays good when it gets on: what was done stays done, and the
\* play it is in has been done to the hosts it is over for.
LEMMA GoodStep ==
  ASSUME NEW r \in Runs, NEW s \in Runs, NEW joined, NEW N, NEW ex, NEW ta, NEW c,
         NEW ex2, NEW ta2,
         RunGood(r, ex, ta, c), Keeps(r, s),
         PassesStatus(r.kind) => Advances(r, s, joined, N),
         r.joined \subseteq joined, ex \subseteq ex2, \A n \in Nodes : ta[n] \subseteq ta2[n],
         DoneTo(r, N, joined, ex2, ta2)
  PROVE  RunGood(s, ex2, ta2, c)
<1>1. CASE s = Exit(1)
  BY <1>1, ExitGood
<1>2. CASE s # Exit(1) /\ ~PassesStatus(r.kind)
  <2>1. s.kind = r.kind
    BY <1>2 DEF Keeps
  <2>2. s.kind \in DOMAIN Services
    BY <1>2, <2>1, KindNames DEF Runs
  <2> QED
    BY <1>2, <2>1, <2>2, ServicesGood
<1>3. CASE s # Exit(1) /\ PassesStatus(r.kind)
  <2>1. /\ s.kind = r.kind /\ s.target = r.target /\ s.hosts = r.hosts /\ s.major = r.major
        /\ s.joined = joined /\ NoneLost(s)
        /\ \A j \in DOMAIN Playbook[r.kind] : \A n :
             Passed(s, j, n) => Passed(r, j, n) \/ (j = r.play /\ n \in N)
    BY <1>3 DEF Keeps, Advances
  <2>2. AimedIn(s, c)
    BY <2>1 DEF RunGood, AimedIn
  <2>3. ASSUME NEW j \in DOMAIN Playbook[r.kind], NEW n \in Nodes, Passed(s, j, n)
        PROVE  DidIn(s, j, n, ex2, ta2)
    <3>1. CASE Passed(r, j, n)
      <4>1. DidIn(r, j, n, ex, ta)
        BY <3>1 DEF RunGood, FollowedIn
      <4> QED
        BY <2>1, <4>1 DEF DidIn
    <3>2. CASE j = r.play /\ n \in N
      BY <2>1, <3>2 DEF DoneTo, Effect, DidIn
    <3> QED
      BY <2>1, <2>3, <3>1, <3>2
  <2>4. FollowedIn(s, ex2, ta2)
    BY <2>1, <2>3 DEF FollowedIn
  <2> QED
    BY <2>1, <2>2, <2>4 DEF RunGood
<1> QED
  BY <1>1, <1>2, <1>3

-----------------------------------------------------------------------------
(* How far the command of a machine gets in each kind of step *)

Gets(m, joined, N) ==
  PassesStatus(run[m].kind) => Advances(run[m], run'[m], joined, N)

LEMMA PassAdvances ==
  ASSUME RunsOK, NEW m \in Machines, Running(m), NoneLost(run[m]), NEW n \in run[m].left,
         Pass(m, n)
  PROVE  Gets(m, run[m].joined, {n})
<1>1. run'[m] = Settle([run[m] EXCEPT !.left = run[m].left \ {n}])
  BY DEF Pass, RunsOK
<1>2. InPlay(run[m])
  BY RunningInPlay
<1>3. {} \in SUBSET Nodes
  OBVIOUS
<1> QED
  BY <1>1, <1>2, <1>3, DoneAdvances DEF Gets

LEMMA PassJoinedAdvances ==
  ASSUME RunsOK, NEW m \in Machines, Running(m), NoneLost(run[m]), NEW n \in run[m].left,
         PassJoined(m, n)
  PROVE  Gets(m, run[m].joined \cup {n}, {n})
<1>1. run'[m] = Settle([run[m] EXCEPT !.left = run[m].left \ {n},
                                      !.joined = run[m].joined \cup {n}])
  BY DEF PassJoined, RunsOK
<1>2. InPlay(run[m])
  BY RunningInPlay
<1>3. run[m].joined \cup {n} \in SUBSET Nodes
  BY DEF RunsOK, Runs
<1> QED
  BY <1>1, <1>2, <1>3, DoneAdvances DEF Gets

LEMMA HasHosts ==
  ASSUME RunsOK, NEW m \in Machines, Running(m)
  PROVE  InPlay(run[m]) /\ run[m].left # {} /\ AllOf(run[m], run[m].play) # {}
<1>1. InPlay(run[m])
  BY RunningInPlay
<1>2. run[m].left # {}
  BY DEF RunsOK, RunOK, Running
<1> QED
  BY <1>1, <1>2 DEF InPlay, HostsOf, AllOf

LEMMA LosingAdvances ==
  ASSUME RunsOK, NEW m \in Machines, Running(m), NoneLost(run[m]), NEW n \in run[m].left,
         run' = [run EXCEPT ![m] = Lose(@, {n})]
  PROVE  Gets(m, run[m].joined, {})
<1>1. run'[m] = Lose(run[m], {n})
  BY DEF RunsOK
<1>2. {n} \in SUBSET Nodes
  BY LeftAreNodes
<1> QED
  BY <1>1, <1>2, HasHosts, LoseAdvances DEF Gets

LEMMA PrepareAdvances ==
  ASSUME RunsOK, NEW m \in Machines, NoneLost(run[m]), NEW failed, Prepare(m, failed)
  PROVE  Gets(m, run[m].joined, run[m].left)
<1> DEFINE r == [run[m] EXCEPT !.left = failed]
<1>1. Running(m) /\ failed \subseteq run[m].left
  BY DEF Prepare
<1>2. InPlay(run[m]) /\ failed \in SUBSET Nodes /\ AllOf(run[m], run[m].play) # {}
  BY <1>1, HasHosts, LeftAreNodes
<1>3. /\ r \in Runs /\ r.left = failed /\ r.kind = run[m].kind /\ r.hosts = run[m].hosts
      /\ r.lost = run[m].lost /\ r.phase = run[m].phase /\ r.play = run[m].play
      /\ r.lenient = run[m].lenient /\ r.joined = run[m].joined
  BY <1>2 DEF InPlay, Runs
<1>4. run'[m] = Lose(r, failed)
  BY DEF Prepare, RunsOK
<1> HIDE DEF r
<1>5. InPlay(r)
  BY <1>1, <1>2, <1>3 DEF InPlay, HostsOf
<1>6. NoneLost(r) /\ AllOf(r, r.play) # {}
  BY <1>2, <1>3 DEF InPlay, NoneLost, Strict, AllOf
<1>7. PassesStatus(r.kind) => Advances(r, Lose(r, failed), r.joined, {})
  BY <1>2, <1>5, <1>6, LoseAdvances
<1>8. \A j, k : Passed(r, j, k)
                  => Passed(run[m], j, k) \/ (j = run[m].play /\ k \in run[m].left)
  BY <1>3 DEF Passed, AllOf
<1> QED
  BY <1>3, <1>4, <1>7, <1>8 DEF Advances, Gets

LEMMA BeginGood ==
  ASSUME RunsOK, NEW m \in Machines, NEW r \in Runs, r.lost = {}, NEW c, AimedIn(r, c),
         Begin(m, r)
  PROVE  \A ex, ta : RunGood(run'[m], ex, ta, c)
<1> DEFINE s == [r EXCEPT !.phase = "plays"]
<1>1. /\ s \in Runs /\ s.phase = "plays" /\ s.lost = {}
      /\ s.kind = r.kind /\ s.target = r.target /\ s.hosts = r.hosts
  BY DEF Runs
<1>2. run'[m] = Goto(s, 1)
  BY DEF Begin, Invoke, RunsOK
<1> HIDE DEF s
<1>3. CASE Goto(s, 1) = Exit(1)
  BY <1>2, <1>3, ExitGood
<1>4. CASE Goto(s, 1) # Exit(1)
  <2>1. NoneLost(s)
    BY <1>1 DEF NoneLost
  <2>2. /\ NoneLost(Goto(s, 1))
        /\ \A j \in DOMAIN Playbook[s.kind] : \A n : Passed(Goto(s, 1), j, n) => j < 1
    BY <1>1, <1>4, <2>1, GotoPasses
  <2>3. \A j \in DOMAIN Playbook[s.kind] : ~(j < 1)
    BY <1>1, PlaybookShaped DEF Shaped, Runs
  <2>4. Keeps(s, Goto(s, 1))
    BY <1>1, GotoOK
  <2>5. \A ex, ta : FollowedIn(Goto(s, 1), ex, ta)
    BY <1>4, <2>2, <2>3, <2>4 DEF FollowedIn, Keeps
  <2>6. AimedIn(Goto(s, 1), c)
    BY <1>1, <1>4, <2>4 DEF AimedIn, Keeps
  <2> QED
    BY <1>2, <2>2, <2>5, <2>6 DEF RunGood
<1> QED
  BY <1>3, <1>4

Floor == OnecloudVersion(config)

\* A cluster's version is not below that of the file it was installed from.
VersionFloor == version # 0 => GenerateInventory(config) = "ok" /\ version \geq Floor

LEMMA NewRuns ==
  /\ \A checks : InstallRun(checks).lost = {}
  /\ \A named, checks : AddNodeRun(named, checks).lost = {}
  /\ \A kind, target, named, lenient : UpgradeRun(kind, target, named, lenient).lost = {}
  /\ \A kind, named, server : ServiceRun(kind, named, server).lost = {}
<1>1. \A checks : InstallRun(checks).lost = {}
  BY DEF InstallRun, Blank
<1>2. \A named, checks : AddNodeRun(named, checks).lost = {}
  BY DEF AddNodeRun, Blank
<1>3. \A kind, target, named, lenient : UpgradeRun(kind, target, named, lenient).lost = {}
  BY DEF UpgradeRun, Blank
<1>4. \A kind, named, server : ServiceRun(kind, named, server).lost = {}
  BY DEF ServiceRun, Blank
<1> QED
  BY <1>1, <1>2, <1>3, <1>4

LEMMA InstallAimed ==
  ASSUME ClusterOK, GenerateInventory(config) = "ok", NEW checks \in BOOLEAN
  PROVE  AimedIn(InstallRun(checks), config)
<1> DEFINE r == InstallRun(checks)
<1>1. r.kind = "install" /\ r.target = OnecloudVersion(config) /\ r.hosts = InstallInventory
  BY InstallRunOK
<1>2. OnecloudVersion(config) \in Nat
  BY VersionIsMajor, CommandsAssumption DEF ClusterOK
<1>3. \A g \in KubeGroups : InstallInventory[g] = Section(config, g)
  BY GroupSets DEF InstallInventory, Inventory
<1> HIDE DEF r
<1> QED
  BY <1>1, <1>2, <1>3 DEF AimedIn, r

LEMMA AddNodeAimed ==
  ASSUME ClusterOK, VersionFloor, ReadsCluster, NEW named \in Asked, NEW checks \in BOOLEAN
  PROVE  AimedIn(AddNodeRun(named, checks), config)
<1> DEFINE r == AddNodeRun(named, checks)
<1>1. /\ r.kind = "addNode" /\ r.target = version
      /\ r.hosts = [NoHosts EXCEPT !["worker_nodes"] = named]
  BY AddNodeRunOK
<1>2. \A g \in AllGroups \ {"worker_nodes"} : r.hosts[g] = {}
  BY <1>1, HostLists, CommandsAssumption
<1> HIDE DEF r
<1>3. \A g \in KubeGroups \ {"worker_nodes"} : r.hosts[g] = {}
  BY <1>2, GroupSets
<1> QED
  BY <1>1, <1>3 DEF AimedIn, r, VersionFloor, Floor, ReadsCluster

LEMMA UpgradeAimed ==
  ASSUME ClusterOK, VersionFloor, ReadsCluster, NEW kind \in UpgradeModes,
         NEW target \in Majors, NEW named \in Asked, NEW lenient \in BOOLEAN,
         target \geq version
  PROVE  AimedIn(UpgradeRun(kind, target, named, lenient), config)
<1> DEFINE r == UpgradeRun(kind, target, named, lenient)
<1>1. r.kind = kind /\ r.target = target
  BY UpgradeRunOK, PrimaryIsOldest DEF ReadsCluster, ClusterOK
<1>2. GenerateInventory(config) = "ok" /\ version \geq Floor
  BY DEF VersionFloor, ReadsCluster
<1>3. version \in Nat /\ target \in Nat /\ Floor \in Nat
  BY <1>2, VersionIsMajor, CommandsAssumption DEF ClusterOK, Floor, ReadsCluster
<1>4. target \geq Floor
  BY <1>2, <1>3
<1> HIDE DEF r
<1> QED
  BY <1>1, <1>2, <1>4 DEF AimedIn, r, Floor, UpgradeModes

LEMMA RefuseGood ==
  ASSUME RunsOK, NEW m \in Machines, NEW kind, NEW status, Refuse(m, kind, status)
  PROVE  /\ \A ex, ta : RunGood(run'[m], ex, ta, config)
         /\ ~Running(m)'
<1>1. run'[m] = Exit(status)
  BY DEF Refuse, Invoke, RunsOK
<1>2. Exit(status).phase = "ended"
  BY DEF Exit, Blank
<1> QED
  BY <1>1, <1>2, ExitGood DEF Running

LEMMA CommandGood ==
  ASSUME TypeOK, VersionFloor, NEW m \in Machines, Command(m)
  PROVE  \A ex, ta : RunGood(run'[m], ex, ta, config)
<1> DEFINE Good == \A ex, ta : RunGood(run'[m], ex, ta, config)
<1>1. ClusterOK /\ RunsOK
  BY TypeParts
<1>2. ASSUME NEW kind, NEW status, Refuse(m, kind, status) PROVE Good
  BY <1>1, <1>2, RefuseGood
<1>3. ASSUME NEW checks \in BOOLEAN, RefuseInstall(m, checks) PROVE Good
  BY <1>2, <1>3 DEF RefuseInstall
<1>4. ASSUME NEW checks \in BOOLEAN, StartInstall(m, checks) PROVE Good
  <2>1. GenerateInventory(config) = "ok" /\ Begin(m, InstallRun(checks))
    BY <1>4 DEF StartInstall
  <2> QED
    BY <1>1, <2>1, InstallRunOK, InstallAimed, NewRuns, BeginGood
<1>5. ASSUME NEW named \in Asked, NEW checks \in BOOLEAN, StartAddNode(m, named, checks)
      PROVE  Good
  <2>1. CASE Taken(named, checks)
    BY <1>2, <1>5, <2>1 DEF StartAddNode
  <2>2. CASE ~Taken(named, checks)
    <3>1. Begin(m, AddNodeRun(named, checks)) /\ ReadsCluster
      BY <1>5, <2>2 DEF StartAddNode
    <3> QED
      BY <1>1, <3>1, AddNodeRunOK, AddNodeAimed, NewRuns, BeginGood
  <2> QED
    BY <2>1, <2>2
<1>6. ASSUME NEW kind \in UpgradeModes, NEW target \in Majors, NEW named \in Asked,
             NEW lenient \in BOOLEAN, StartUpgrade(m, kind, target, named, lenient)
      PROVE  Good
  <2>1. /\ Begin(m, UpgradeRun(kind, target, named, lenient)) /\ ReadsCluster
        /\ target \geq version
    BY <1>6 DEF StartUpgrade
  <2>2. UpgradeRun(kind, target, named, lenient) \in Runs
    BY <1>1, <2>1, UpgradeRunOK, PrimaryIsOldest DEF ReadsCluster, ClusterOK
  <2>3. AimedIn(UpgradeRun(kind, target, named, lenient), config)
    BY <1>1, <2>1, UpgradeAimed
  <2> QED
    BY <1>1, <2>1, <2>2, <2>3, NewRuns, BeginGood
<1>7. ASSUME NEW kind \in DOMAIN Services, NEW named \in Asked, NEW server \in Nodes,
             StartService(m, kind, named, server)
      PROVE  Good
  <2>1. Begin(m, ServiceRun(kind, named, server))
    BY <1>7 DEF StartService
  <2>2. ServiceRun(kind, named, server) \in Runs /\ ServiceRun(kind, named, server).kind = kind
    BY <1>1, ServiceRunOK
  <2>3. RunGood(ServiceRun(kind, named, server), {}, {}, config)
    BY <2>2, NewRuns, ServicesGood
  <2> QED
    BY <1>1, <2>1, <2>2, <2>3, NewRuns, BeginGood DEF RunGood
<1>8. ASSUME NEW kind \in DOMAIN Services, RefuseService(m, kind) PROVE Good
  BY <1>2, <1>8 DEF RefuseService
<1>9. CASE \E checks \in BOOLEAN : RefuseInstall(m, checks) \/ StartInstall(m, checks)
  BY <1>3, <1>4, <1>9
<1>10. CASE \E named \in Asked, checks \in BOOLEAN : StartAddNode(m, named, checks)
  BY <1>5, <1>10
<1>11. CASE \E kind \in UpgradeModes, target \in Majors, named \in Asked,
               lenient \in BOOLEAN : StartUpgrade(m, kind, target, named, lenient)
  BY <1>6, <1>11
<1>12. CASE \E kind \in DOMAIN Services :
              \/ RefuseService(m, kind)
              \/ \E named \in Asked, server \in Nodes :
                   StartService(m, kind, named, server)
  BY <1>7, <1>8, <1>12
<1>13. CASE RefuseAddNode(m)
  BY <1>2, <1>13 DEF RefuseAddNode
<1> QED
  BY <1>9, <1>10, <1>11, <1>12, <1>13 DEF Command

-----------------------------------------------------------------------------
(* Commands keep what their plays promise while the cluster changes        *)

OnlyMaster == IF Cardinality(Masters) = 1 THEN Masters ELSE {}
Excused == leftover \cup OnlyMaster

\* The inductive invariant behind the three theorems below: a unit without a
\* node is a leftover, the version and every node's tasks are not below the
\* file's, and every command has done what the plays behind it are for.
ProgressInv ==
  /\ unit \ members \subseteq leftover
  /\ VersionFloor
  /\ \A n \in members : Floor \in tasks[n]
  /\ \A m \in Machines : RunGood(run[m], Excused, tasks, config)

\* Nothing of what was done is undone.
Grown ==
  /\ config' = config /\ leftover \subseteq leftover'
  /\ \A n \in Nodes : tasks[n] \subseteq tasks'[n]

LEMMA JoinGrows ==
  ASSUME ClusterOK, NEW m \in Machines, NEW n \in Nodes, Join(m, n)
  PROVE  /\ members' = members \cup {n}
         /\ \A k \in Nodes : tasks[k] \subseteq tasks'[k]
         /\ \A v \in Majors : v \leq run[m].target => v \in tasks'[n]
BY DEF Join, ClusterOK

LEMMA TaskGrows ==
  ASSUME ClusterOK, RunsOK, NEW m \in Machines, Task(m)
  PROVE  Grown /\ Running(m)
<1>1. ASSUME NEW failed, Prepare(m, failed) PROVE Grown /\ Running(m)
  BY <1>1 DEF Prepare, Grown, cluster, history
<1>2. ASSUME NEW n \in run[m].left,
             \/ ServerRuns(m, n) \/ ServerSkipped(m, n) \/ VerifyServers(m, n)
             \/ AgentSkipped(m, n) \/ TaskFails(m, n) \/ CreateCluster(m, n)
             \/ PatchVersion(m, n) \/ AgentFails(m, n)
      PROVE  Grown /\ Running(m)
  BY <1>2 DEF ServerRuns, ServerSkipped, VerifyServers, AgentSkipped, TaskFails,
              CreateCluster, PatchVersion, AgentFails, At, Grown, cluster, history
<1>3. ASSUME NEW n \in run[m].left, StartServer(m, n) \/ StartAgent(m, n)
      PROVE  Grown /\ Running(m)
  <2>1. n \in Nodes /\ Join(m, n) /\ config' = config /\ leftover' = leftover /\ Running(m)
    BY <1>3, LeftAreNodes DEF StartServer, StartAgent, At
  <2> QED
    BY <2>1, JoinGrows DEF Grown
<1>4. ASSUME NEW n \in run[m].left, MajorTasks(m, n) PROVE Grown /\ Running(m)
  <2>1. /\ n \in Nodes /\ config' = config /\ leftover' = leftover /\ Running(m)
        /\ tasks' = tasks \/ tasks' = [tasks EXCEPT ![n] = tasks[n] \cup {run[m].target}]
    BY <1>4, LeftAreNodes DEF MajorTasks, At, history
  <2>2. \A k \in Nodes : tasks[k] \subseteq tasks'[k]
    BY <2>1 DEF ClusterOK
  <2> QED
    BY <2>1, <2>2 DEF Grown
<1> QED
  BY <1>1, <1>2, <1>3, <1>4 DEF Task

LEMMA Excuses == ASSUME Grown PROVE Excused \subseteq Excused'
BY DEF Grown, Excused, OnlyMaster, Masters

LEMMA Progresses ==
  ASSUME RunsOK, NEW m \in Machines, Step(m), RunGood(run[m], Excused, tasks, config), Grown,
         NEW joined, NEW N, run[m].joined \subseteq joined, Gets(m, joined, N),
         DoneTo(run[m], N, joined, Excused', tasks')
  PROVE  RunGood(run'[m], Excused', tasks', config)
<1>1. run[m] \in Runs /\ run'[m] \in Runs
  BY DEF RunsOK, Step
<1>2. /\ Keeps(run[m], run'[m])
      /\ PassesStatus(run[m].kind) => Advances(run[m], run'[m], joined, N)
      /\ \A n \in Nodes : tasks[n] \subseteq tasks'[n]
  BY DEF Step, Gets, Grown
<1> DEFINE r == run[m]
           s == run'[m]
           ex2 == Excused'
           ta2 == tasks'
<1>3. /\ r \in Runs /\ s \in Runs /\ RunGood(r, Excused, tasks, config) /\ Keeps(r, s)
      /\ PassesStatus(r.kind) => Advances(r, s, joined, N)
      /\ r.joined \subseteq joined /\ Excused \subseteq ex2
      /\ \A n \in Nodes : tasks[n] \subseteq ta2[n]
      /\ DoneTo(r, N, joined, ex2, ta2)
  BY <1>1, <1>2, Excuses
<1> HIDE DEF r, s, ex2, ta2
<1>4. RunGood(s, ex2, ta2, config)
  BY <1>3, GoodStep
<1> QED
  BY <1>4 DEF s, ex2, ta2

LEMMA JoinGroups ==
  /\ InstallPlaybook[6].groups = {"primary_master_node"}
  /\ InstallPlaybook[7].groups = {"master_nodes"}
  /\ InstallPlaybook[9].groups = {"worker_nodes"}
  /\ AddNodePlaybook[2].groups = {"worker_nodes"}
BY DEF InstallPlaybook, AddNodePlaybook, Play

\* With one master beside the primary, it is that master which is skipped.
LEMMA SkippedIsOnly ==
  ASSUME ClusterOK, RunsOK, NEW m \in Machines, NEW n \in run[m].left, AimedIn(run[m], config),
         ServerSkipped(m, n)
  PROVE  n \in OnlyMaster
<1> DEFINE r == run[m]
           q == Playbook[r.kind][r.play]
<1>1. /\ Running(m) /\ q.effect = "start server" /\ Cardinality(Masters) \leq 1
      /\ n \notin Section(config, "primary_master_node")
  BY DEF ServerSkipped, At, Effect
<1>2. InPlay(r) /\ r.kind \in Kinds /\ r.play \in DOMAIN Playbook[r.kind]
  BY <1>1, RunningInPlay, LeftAreNodes DEF InPlay
<1>3. r.kind = "install"
  BY <1>1, <1>2, WhoDoesWhat
<1>4. r.play = 6 \/ r.play = 7
  BY <1>1, <1>2, <1>3, PlaybookOf, InstallEffects
<1>5. q.groups = {"primary_master_node"} \/ q.groups = {"master_nodes"}
  BY <1>3, <1>4, PlaybookOf, JoinGroups
<1>6. n \in UNION {r.hosts[g] : g \in q.groups}
  BY <1>2 DEF InPlay, HostsOf
<1>7. /\ r.hosts["primary_master_node"] = Section(config, "primary_master_node")
      /\ r.hosts["master_nodes"] = Masters
  BY <1>3, OneGroup DEF AimedIn, Masters
<1>8. n \in Masters
  BY <1>1, <1>5, <1>6, <1>7
<1>9. IsFiniteSet(Masters)
  <2>1. Masters \subseteq Nodes
    BY SectionsAreNodes, GroupSets, OneGroup DEF Masters, ClusterOK
  <2> QED
    BY <2>1, CommandsAssumption, FS_Subset
<1>10. Cardinality(Masters) \in Nat /\ Cardinality(Masters) # 0
  BY <1>8, <1>9, FS_CardinalityType, FS_EmptySet
<1>11. \A c \in Nat : c # 0 /\ c \leq 1 => c = 1
  OBVIOUS
<1>12. Cardinality(Masters) = 1
  BY <1>1, <1>10, <1>11
<1> QED
  BY <1>8, <1>12 DEF OnlyMaster

LEMMA TaskGood ==
  ASSUME TypeOK, ProgressInv, NEW m \in Machines, Task(m)
  PROVE  RunGood(run'[m], Excused', tasks', config)
<1> DEFINE r == run[m]
           Good == RunGood(run'[m], Excused', tasks', config)
<1>1. ClusterOK /\ RunsOK
  BY TypeParts
<1>2. Step(m) /\ Grown /\ Running(m)
  BY <1>1, TaskSteps, TaskGrows
<1>3. RunGood(r, Excused, tasks, config) /\ NoneLost(r) /\ AimedIn(r, config)
  BY DEF ProgressInv, RunGood
<1>4. ASSUME NEW n \in r.left, Pass(m, n), DoneTo(r, {n}, r.joined, Excused', tasks')
      PROVE  Good
  <2>1. Gets(m, r.joined, {n})
    BY <1>1, <1>2, <1>3, <1>4, PassAdvances
  <2> QED
    BY <1>1, <1>2, <1>3, <1>4, <2>1, Progresses
<1>5. ASSUME NEW n \in r.left, PassJoined(m, n), Effect(r) \in Joins PROVE Good
  <2>1. Gets(m, r.joined \cup {n}, {n})
    BY <1>1, <1>2, <1>3, <1>5, PassJoinedAdvances
  <2>2. DoneTo(r, {n}, r.joined \cup {n}, Excused', tasks')
    BY <1>5 DEF DoneTo, Joins
  <2>3. r.joined \subseteq r.joined \cup {n}
    OBVIOUS
  <2> QED
    BY <1>1, <1>2, <1>3, <2>1, <2>2, <2>3, Progresses
<1>6. ASSUME NEW n \in r.left, Fails(m, n) PROVE Good
  <2>1. Gets(m, r.joined, {})
    BY <1>1, <1>2, <1>3, <1>6, LosingAdvances DEF Fails
  <2>2. DoneTo(r, {}, r.joined, Excused', tasks')
    BY DEF DoneTo
  <2> QED
    BY <1>1, <1>2, <1>3, <2>1, <2>2, Progresses
<1>7. ASSUME NEW failed, Prepare(m, failed) PROVE Good
  <2>1. Gets(m, r.joined, r.left)
    BY <1>1, <1>3, <1>7, PrepareAdvances
  <2>2. DoneTo(r, r.left, r.joined, Excused', tasks')
    BY <1>7 DEF DoneTo, Joins, Prepare
  <2> QED
    BY <1>1, <1>2, <1>3, <2>1, <2>2, Progresses
<1>8. ASSUME NEW n \in r.left, StartServer(m, n) \/ ServerRuns(m, n) \/ StartAgent(m, n)
      PROVE  Good
  <2>1. (PassJoined(m, n) \/ Fails(m, n)) /\ Effect(r) \in Joins
    BY <1>8 DEF StartServer, ServerRuns, StartAgent, At, Joins
  <2> QED
    BY <1>5, <1>6, <2>1
<1>9. ASSUME NEW n \in r.left, ServerSkipped(m, n) PROVE Good
  <2>1. n \in OnlyMaster /\ Pass(m, n) /\ Effect(r) = "start server" /\ config' = config
    BY <1>1, <1>3, <1>9, SkippedIsOnly DEF ServerSkipped, At, cluster
  <2>2. n \in Excused'
    BY <2>1 DEF Excused, OnlyMaster, Masters
  <2>3. DoneTo(r, {n}, r.joined, Excused', tasks')
    BY <2>1, <2>2 DEF DoneTo
  <2> QED
    BY <1>4, <2>1, <2>3
<1>10. ASSUME NEW n \in r.left, AgentSkipped(m, n) PROVE Good
  <2>1. CASE n \in members
    BY <1>5, <1>10, <2>1 DEF AgentSkipped, At, Joins
  <2>2. CASE n \notin members
    <3>1. n \in leftover' /\ Pass(m, n) /\ Effect(r) = "start agent"
      BY <1>2, <1>10, <2>2 DEF AgentSkipped, At, ProgressInv, Grown
    <3>2. DoneTo(r, {n}, r.joined, Excused', tasks')
      BY <3>1 DEF DoneTo, Excused
    <3> QED
      BY <1>4, <3>1, <3>2
  <2> QED
    BY <2>1, <2>2
<1>11. ASSUME NEW n \in r.left, MajorTasks(m, n) PROVE Good
  <2>1. /\ Pass(m, n) /\ n \in Nodes
        /\ Effect(r) \in {"major tasks", "forced major tasks"}
    BY <1>1, <1>11, LeftAreNodes DEF MajorTasks, At
  <2>2. r.major \/ Effect(r) = "forced major tasks" => r.target \in tasks'[n]
    BY <1>1, <1>11, <2>1 DEF MajorTasks, ClusterOK
  <2>3. DoneTo(r, {n}, r.joined, Excused', tasks')
    BY <2>1, <2>2 DEF DoneTo, Joins
  <2> QED
    BY <1>4, <2>1, <2>3
<1>12. ASSUME NEW n \in r.left, VerifyServers(m, n) \/ PatchVersion(m, n) \/ CreateCluster(m, n)
       PROVE  Good
  <2>1. /\ Pass(m, n) \/ Fails(m, n)
        /\ Effect(r) \in {"verify servers", "patch version", "create cluster"}
    BY <1>12 DEF VerifyServers, PatchVersion, CreateCluster, At
  <2>2. DoneTo(r, {n}, r.joined, Excused', tasks')
    BY <2>1 DEF DoneTo, Joins
  <2> QED
    BY <1>4, <1>6, <2>1, <2>2
<1>13. ASSUME NEW n \in r.left, AgentFails(m, n) \/ TaskFails(m, n) PROVE Good
  BY <1>6, <1>13 DEF AgentFails, TaskFails
<1> QED
  BY <1>7, <1>8, <1>9, <1>10, <1>11, <1>12, <1>13 DEF Task

\* Commands whose machine does nothing stay good when the cluster grows.
LEMMA OthersGood ==
  ASSUME RunsOK, NEW k \in Machines, RunGood(run[k], Excused, tasks, config), Grown,
         run'[k] = run[k]
  PROVE  RunGood(run'[k], Excused', tasks', config)
<1> DEFINE r == run[k]
           ex2 == Excused'
           ta2 == tasks'
<1>1. /\ FollowedIn(r, Excused, tasks) /\ NoneLost(r) /\ AimedIn(r, config)
      /\ Excused \subseteq ex2 /\ \A n \in Nodes : tasks[n] \subseteq ta2[n]
  BY Excuses DEF RunGood, Grown
<1> HIDE DEF r, ex2, ta2
<1>2. FollowedIn(r, ex2, ta2)
  BY <1>1 DEF FollowedIn, DidIn
<1>3. RunGood(r, ex2, ta2, config)
  BY <1>1, <1>2 DEF RunGood
<1> QED
  BY <1>3 DEF r, ex2, ta2

UnitsKnown == unit \ members \subseteq leftover
TasksFloor == \A n \in members : Floor \in tasks[n]

LEMMA ProgressParts ==
  ProgressInv <=> /\ UnitsKnown /\ VersionFloor /\ TasksFloor
                  /\ \A m \in Machines : RunGood(run[m], Excused, tasks, config)
BY DEF ProgressInv, UnitsKnown, TasksFloor

LEMMA FloorStays ==
  ASSUME UNCHANGED <<config, members, unit, version, tasks>>, leftover \subseteq leftover',
         UnitsKnown, VersionFloor, TasksFloor
  PROVE  UnitsKnown' /\ VersionFloor' /\ TasksFloor'
BY DEF UnitsKnown, VersionFloor, TasksFloor, Floor

\* Who brings a node was started with a file that can be installed.
LEMMA JoinsAim ==
  ASSUME TypeOK, ProgressInv, NEW m \in Machines, Running(m), Effect(run[m]) \in Joins
  PROVE  /\ run[m].kind \in {"install", "addNode"} /\ run[m].target \in Majors
         /\ Floor \in Majors /\ Floor \leq run[m].target
<1>1. ClusterOK /\ RunsOK
  BY TypeParts
<1>2. InPlay(run[m]) /\ run[m].kind \in Kinds /\ run[m].play \in DOMAIN Playbook[run[m].kind]
  BY <1>1, RunningInPlay, LeftAreNodes DEF InPlay
<1>3. run[m].kind \in {"install", "addNode"}
  BY <1>2, WhoDoesWhat DEF Effect
<1>4. GenerateInventory(config) = "ok" /\ run[m].target \geq Floor
  BY <1>3 DEF ProgressInv, RunGood, AimedIn, Floor
<1>5. Floor \in Majors /\ run[m].target \in Majors \cup {0}
  BY <1>1, <1>4, VersionIsMajor, TargetIsVersion DEF ClusterOK, Floor
<1>6. run[m].target \in Nat /\ Floor \in Nat /\ Floor # 0
  <2>1. Majors \subseteq Nat \ {0}
    BY CommandsAssumption
  <2>2. \A v \in Majors \cup {0} : v \in Nat /\ (v \in Majors => v # 0)
    BY <2>1
  <2> QED
    BY <1>5, <2>2
<1>7. run[m].target # 0 /\ Floor \leq run[m].target
  BY <1>4, <1>6
<1> QED
  BY <1>3, <1>5, <1>7

LEMMA TaskFloor ==
  ASSUME TypeOK, ProgressInv, NEW m \in Machines, Task(m)
  PROVE  UnitsKnown' /\ VersionFloor' /\ TasksFloor'
<1>1. ClusterOK /\ RunsOK
  BY TypeParts
<1>2. UnitsKnown /\ VersionFloor /\ TasksFloor
  BY ProgressParts
<1>3. Grown /\ Running(m)
  BY <1>1, TaskGrows
<1>4. ASSUME NEW failed, Prepare(m, failed) PROVE UnitsKnown' /\ VersionFloor' /\ TasksFloor'
  BY <1>2, <1>3, <1>4, FloorStays DEF Prepare, cluster, Grown
<1>5. ASSUME NEW n \in run[m].left,
             \/ ServerRuns(m, n) \/ ServerSkipped(m, n) \/ VerifyServers(m, n)
             \/ AgentSkipped(m, n) \/ TaskFails(m, n)
      PROVE  UnitsKnown' /\ VersionFloor' /\ TasksFloor'
  BY <1>2, <1>3, <1>5, FloorStays DEF ServerRuns, ServerSkipped, VerifyServers, AgentSkipped,
     TaskFails, cluster, Grown
<1>6. ASSUME NEW n \in run[m].left, StartServer(m, n) \/ StartAgent(m, n)
      PROVE  UnitsKnown' /\ VersionFloor' /\ TasksFloor'
  <2>1. /\ n \in Nodes /\ Join(m, n) /\ Effect(run[m]) \in Joins
        /\ UNCHANGED <<config, version>> /\ leftover' = leftover
        /\ unit' \subseteq unit \cup {n}
    BY <1>1, <1>6, LeftAreNodes DEF StartServer, StartAgent, At, Joins
  <2>2. Floor \in Majors /\ Floor \leq run[m].target
    BY <1>3, <2>1, JoinsAim
  <2>3. /\ members' = members \cup {n} /\ Floor \in tasks'[n]
        /\ \A k \in Nodes : tasks[k] \subseteq tasks'[k]
    BY <1>1, <2>1, <2>2, JoinGrows
  <2>4. UnitsKnown'
    BY <1>2, <2>1, <2>3 DEF UnitsKnown
  <2>5. VersionFloor'
    BY <1>2, <2>1 DEF VersionFloor, Floor
  <2>6. members \subseteq Nodes /\ Floor' = Floor
    BY <1>1, <2>1 DEF ClusterOK, Floor
  <2>7. TasksFloor'
    BY <1>2, <2>3, <2>6 DEF TasksFloor
  <2> QED
    BY <2>4, <2>5, <2>7
<1>7. ASSUME NEW n \in run[m].left, AgentFails(m, n)
      PROVE  UnitsKnown' /\ VersionFloor' /\ TasksFloor'
  BY <1>2, <1>7 DEF AgentFails, UnitsKnown, VersionFloor, TasksFloor, Floor
<1>8. ASSUME NEW n \in run[m].left, MajorTasks(m, n)
      PROVE  UnitsKnown' /\ VersionFloor' /\ TasksFloor'
  <2>1. UNCHANGED <<config, members, unit, version, leftover>>
    BY <1>8 DEF MajorTasks, history
  <2>2. members \subseteq Nodes /\ \A k \in Nodes : tasks[k] \subseteq tasks'[k]
    BY <1>1, <1>3 DEF Grown, ClusterOK
  <2> QED
    BY <1>2, <2>1, <2>2 DEF UnitsKnown, VersionFloor, TasksFloor, Floor
<1>9. ASSUME NEW n \in run[m].left, PatchVersion(m, n) \/ CreateCluster(m, n)
      PROVE  UnitsKnown' /\ VersionFloor' /\ TasksFloor'
  <2>1. /\ UNCHANGED <<config, members, unit, tasks, leftover>> /\ version' = run[m].target
        /\ Effect(run[m]) \in {"patch version", "create cluster"}
    BY <1>9 DEF PatchVersion, CreateCluster, At, history
  <2>2. InPlay(run[m]) /\ run[m].kind \in Kinds /\ run[m].play \in DOMAIN Playbook[run[m].kind]
    BY <1>1, <1>3, RunningInPlay, LeftAreNodes DEF InPlay
  <2>3. run[m].kind \in Patching \cup {"install"}
    BY <2>1, <2>2, WhoDoesWhat DEF Effect
  <2>4. GenerateInventory(config) = "ok" /\ run[m].target \geq Floor
    BY <2>3 DEF ProgressInv, RunGood, AimedIn, Floor
  <2> QED
    BY <1>2, <2>1, <2>4 DEF UnitsKnown, VersionFloor, TasksFloor, Floor
<1> QED
  BY <1>4, <1>5, <1>6, <1>7, <1>8, <1>9 DEF Task

LEMMA InitProgress == Init => ProgressInv
<1> SUFFICES ASSUME Init PROVE ProgressInv
  OBVIOUS
<1>1. \A m \in Machines : run[m].kind \in DOMAIN Services /\ run[m].lost = {}
  BY KindNames, BlankFields DEF Init
<1>2. \A m \in Machines : RunGood(run[m], Excused, tasks, config)
  BY <1>1, ServicesGood
<1>3. CASE Untouched
  BY <1>2, <1>3 DEF ProgressInv, Untouched, VersionFloor
<1>4. CASE Installed
  <2>1. /\ GenerateInventory(config) = "ok" /\ version = Floor
        /\ members = UNION {Section(config, g) : g \in KubeGroups}
        /\ unit = Section(config, "worker_nodes")
        /\ tasks = [n \in Nodes |-> IF n \in members THEN {v \in Majors : v \leq version} ELSE {}]
    BY <1>4 DEF Installed, Floor
  <2>2. Floor \in Majors /\ Floor \in Nat
    BY <2>1, VersionIsMajor, CommandsAssumption DEF Init, Floor
  <2>3. members \subseteq Nodes
    BY InitTypeOK DEF TypeOK
  <2>4. unit \subseteq members
    BY <2>1, OneGroup
  <2>5. \A n \in members : Floor \in tasks[n]
    BY <2>1, <2>2, <2>3
  <2>6. VersionFloor
    BY <2>1, <2>2 DEF VersionFloor
  <2> QED
    BY <1>2, <2>4, <2>5, <2>6 DEF ProgressInv
<1> QED
  BY <1>3, <1>4 DEF Init

LEMMA StepProgress == TypeOK /\ ProgressInv /\ [Next]_vars => ProgressInv'
<1> SUFFICES ASSUME TypeOK, ProgressInv, [Next]_vars PROVE ProgressInv'
  OBVIOUS
<1> DEFINE AllGood == \A k \in Machines : RunGood(run[k], Excused, tasks, config)
<1>1. ClusterOK /\ RunsOK
  BY TypeParts
<1>2. UnitsKnown /\ VersionFloor /\ TasksFloor /\ AllGood
  BY ProgressParts
<1>3. UnitsKnown' /\ VersionFloor' /\ TasksFloor' /\ AllGood' => ProgressInv'
  BY DEF ProgressInv, UnitsKnown, TasksFloor
<1>4. ASSUME NEW m \in Machines, Grown, \A k \in Machines \ {m} : run'[k] = run[k],
             RunGood(run'[m], Excused', tasks', config)
      PROVE  AllGood'
  <2>1. config' = config
    BY <1>4 DEF Grown
  <2>2. \A k \in Machines : RunGood(run'[k], Excused', tasks', config)
    BY <1>1, <1>2, <1>4, OthersGood
  <2> QED
    BY <2>1, <2>2
<1>5. ASSUME NEW m \in Machines, Command(m) PROVE ProgressInv'
  <2>1. UNCHANGED <<cluster, history>> /\ \A k \in Machines \ {m} : run'[k] = run[k]
    BY <1>5, CommandSteps
  <2>2. Grown
    BY <2>1 DEF Grown, cluster, history
  <2>3. RunGood(run'[m], Excused', tasks', config)
    BY <1>2, <1>5, CommandGood
  <2>4. UnitsKnown' /\ VersionFloor' /\ TasksFloor'
    BY <1>2, <2>1, <2>2, FloorStays DEF cluster, Grown
  <2> QED
    BY <1>3, <1>4, <2>1, <2>2, <2>3, <2>4
<1>6. ASSUME NEW m \in Machines, Task(m) PROVE ProgressInv'
  <2>1. Grown /\ Step(m)
    BY <1>1, <1>6, TaskGrows, TaskSteps
  <2>2. RunGood(run'[m], Excused', tasks', config)
    BY <1>6, TaskGood
  <2>3. UnitsKnown' /\ VersionFloor' /\ TasksFloor'
    BY <1>6, TaskFloor
  <2> QED
    BY <1>3, <1>4, <2>1, <2>2, <2>3 DEF Step
<1>7. ASSUME NEW m \in Machines, Interrupt(m) PROVE ProgressInv'
  <2>1. /\ UNCHANGED <<cluster, used, history>> /\ run'[m] = Exit(1)
        /\ \A k \in Machines \ {m} : run'[k] = run[k]
    BY <1>1, <1>7 DEF Interrupt, RunsOK
  <2>2. Grown
    BY <2>1 DEF Grown, cluster, history
  <2>3. RunGood(run'[m], Excused', tasks', config)
    BY <2>1, ExitGood
  <2>4. UnitsKnown' /\ VersionFloor' /\ TasksFloor'
    BY <1>2, <2>1, <2>2, FloorStays DEF cluster, Grown
  <2> QED
    BY <1>3, <1>4, <2>1, <2>2, <2>3, <2>4
<1>8. ASSUME NEW n \in Nodes, RemoveNode(n) PROVE ProgressInv'
  <2>1. /\ UNCHANGED <<config, version, tasks, run>> /\ members' = members \ {n}
        /\ leftover \subseteq leftover'
    BY <1>8 DEF RemoveNode
  <2>2. Grown
    BY <2>1 DEF Grown
  <2>3. UnitsKnown'
    BY <1>2, <1>8, <2>1 DEF UnitsKnown, RemoveNode
  <2>4. VersionFloor' /\ TasksFloor'
    BY <1>2, <2>1 DEF VersionFloor, TasksFloor, Floor
  <2>5. \A k \in Machines : RunGood(run'[k], Excused', tasks', config)
    BY <1>1, <1>2, <2>1, <2>2, OthersGood
  <2>6. AllGood'
    BY <2>1, <2>5
  <2> QED
    BY <1>3, <2>3, <2>4, <2>6
<1>9. CASE UNCHANGED vars
  <2>1. UNCHANGED <<config, members, unit, version, tasks, leftover, run>>
    BY <1>9 DEF vars, cluster, history
  <2>2. AllGood'
    BY <1>2, <2>1 DEF Excused, OnlyMaster, Masters
  <2> QED
    BY <1>2, <1>3, <2>1, <2>2, FloorStays
<1> QED
  BY <1>5, <1>6, <1>7, <1>8, <1>9 DEF Next

LEMMA Progress == Spec => []ProgressInv
BY InitProgress, StepProgress, CommandsTypeCorrect, PTL DEF Spec

\* With exit status 0 every host of every play has had it done.
LEMMA SuccessPasses ==
  ASSUME RunsOK, NEW m \in Machines, RunGood(run[m], Excused, tasks, config),
         run[m].phase = "ended", run[m].exit = 0, PassesStatus(run[m].kind),
         NEW j \in DOMAIN Playbook[run[m].kind], NEW g \in Playbook[run[m].kind][j].groups,
         NEW n \in run[m].hosts[g]
  PROVE  DidIn(run[m], j, n, Excused, tasks)
<1>1. run[m].lost = {}
  BY DEF RunGood, NoneLost
<1>2. Passed(run[m], j, n)
  BY <1>1 DEF Passed, AllOf
<1>3. n \in Nodes
  <2>1. /\ run[m].kind \in Kinds /\ run[m].hosts \in [AllGroups -> SUBSET Nodes]
    BY DEF RunsOK, Runs
  <2>2. g \in AllGroups
    BY <2>1, PlaybookShaped DEF Shaped, GoodPlay
  <2> QED
    BY <2>1, <2>2
<1> QED
  BY <1>2, <1>3 DEF RunGood, FollowedIn

\* The upgrades whose first play runs the major tasks.
LEMMA MajorPlays ==
  /\ \A k \in {"upgrade", "controller", "host"} :
       1 \in DOMAIN Playbook[k] /\ Playbook[k][1].groups = AllGroups
  /\ Playbook["upgrade"][1].effect = "major tasks"
  /\ Playbook["controller"][1].effect = "major tasks"
  /\ Playbook["host"][1].effect = "forced major tasks"
<1>1. /\ 1 \in DOMAIN UpgradePlaybook /\ 1 \in DOMAIN ControllerPlaybook
      /\ 1 \in DOMAIN HostPlaybook
  BY DEF UpgradePlaybook, ControllerPlaybook, HostPlaybook
<1>2. UpgradePlaybook[1].groups = AllGroups /\ UpgradePlaybook[1].effect = "major tasks"
  BY DEF UpgradePlaybook, Play
<1>3. ControllerPlaybook[1].groups = AllGroups /\ ControllerPlaybook[1].effect = "major tasks"
  BY DEF ControllerPlaybook, Play
<1>4. HostPlaybook[1].groups = AllGroups /\ HostPlaybook[1].effect = "forced major tasks"
  BY DEF HostPlaybook, Play
<1> QED
  BY <1>1, <1>2, <1>3, <1>4, PlaybookOf

LEMMA SuccessUpgradesNow == TypeOK /\ ProgressInv => SuccessMeansUpgraded
<1> SUFFICES ASSUME TypeOK, ProgressInv, NEW m \in Machines,
                    run[m].phase = "ended", run[m].exit = 0,
                    \/ run[m].kind = "host"
                    \/ run[m].kind \in {"upgrade", "controller"} /\ run[m].major,
                    NEW g \in AllGroups, NEW n \in run[m].hosts[g]
             PROVE  run[m].target \in tasks[n]
  BY DEF SuccessMeansUpgraded
<1> DEFINE kind == run[m].kind
<1>1. RunsOK /\ RunGood(run[m], Excused, tasks, config)
  BY TypeParts DEF ProgressInv
<1>2. kind \in {"upgrade", "controller", "host"}
  OBVIOUS
<1>3. /\ PassesStatus(kind) /\ 1 \in DOMAIN Playbook[kind]
      /\ Playbook[kind][1].groups = AllGroups
  BY <1>2, KindNames, MajorPlays
<1>4. DidIn(run[m], 1, n, Excused, tasks)
  BY <1>1, <1>3, SuccessPasses
<1>5. \/ Playbook[kind][1].effect = "forced major tasks"
      \/ Playbook[kind][1].effect = "major tasks" /\ run[m].major
  BY <1>2, MajorPlays
<1> QED
  BY <1>4, <1>5 DEF DidIn

(* Whatever else runs and fails meanwhile: when an upgrade exits with 0,   *)
(* each of its hosts has had the major tasks of its version, for hosts     *)
(* whichever version the cluster declared when it began.                   *)
THEOREM SuccessIsUpgraded == Spec => []SuccessMeansUpgraded
BY SuccessUpgradesNow, Progress, CommandsTypeCorrect, PTL

LEMMA JoinPlays ==
  /\ 6 \in DOMAIN InstallPlaybook /\ InstallPlaybook[6].effect = "start server"
  /\ 7 \in DOMAIN InstallPlaybook /\ InstallPlaybook[7].effect = "start server"
  /\ 9 \in DOMAIN InstallPlaybook /\ InstallPlaybook[9].effect = "start agent"
  /\ 2 \in DOMAIN AddNodePlaybook /\ AddNodePlaybook[2].effect = "start agent"
<1>1. {6, 7, 9} \subseteq DOMAIN InstallPlaybook /\ 2 \in DOMAIN AddNodePlaybook
  BY DEF InstallPlaybook, AddNodePlaybook
<1>2. /\ InstallPlaybook[6].effect = "start server"
      /\ InstallPlaybook[7].effect = "start server"
      /\ InstallPlaybook[9].effect = "start agent"
  BY DEF InstallPlaybook, Play
<1>3. AddNodePlaybook[2].effect = "start agent"
  BY DEF AddNodePlaybook, Play
<1> QED
  BY <1>1, <1>2, <1>3

LEMMA SuccessJoinsNow == TypeOK /\ ProgressInv => SuccessMeansJoined
<1> SUFFICES ASSUME TypeOK, ProgressInv, NEW m \in Machines,
                    run[m].kind \in {"install", "addNode"}, run[m].phase = "ended",
                    run[m].exit = 0, NEW g \in KubeGroups, NEW n \in run[m].hosts[g]
             PROVE  n \in run[m].joined \cup Excused
  BY DEF SuccessMeansJoined, Wanted, Excused, OnlyMaster
<1>1. RunsOK /\ RunGood(run[m], Excused, tasks, config)
  BY TypeParts DEF ProgressInv
<1>2. PassesStatus(run[m].kind)
  BY KindNames
<1>3. ASSUME NEW j \in DOMAIN Playbook[run[m].kind], g \in Playbook[run[m].kind][j].groups,
             Playbook[run[m].kind][j].effect \in Joins
      PROVE  n \in run[m].joined \cup Excused
  <2>1. DidIn(run[m], j, n, Excused, tasks)
    BY <1>1, <1>2, <1>3, SuccessPasses
  <2> QED
    BY <1>3, <2>1 DEF DidIn
<1>4. g \in {"primary_master_node", "master_nodes", "worker_nodes"}
  BY DEF KubeGroups, Joining
<1>5. CASE run[m].kind = "install"
  <2>1. Playbook[run[m].kind] = InstallPlaybook
    BY <1>5, PlaybookOf
  <2> QED
    BY <1>3, <1>4, <2>1, JoinPlays, JoinGroups, EffectNames
<1>6. CASE run[m].kind = "addNode"
  <2>1. Playbook[run[m].kind] = AddNodePlaybook
    BY <1>6, PlaybookOf
  <2>2. g = "worker_nodes"
    BY <1>1, <1>6 DEF RunGood, AimedIn
  <2> QED
    BY <1>3, <2>1, <2>2, JoinPlays, JoinGroups, EffectNames
<1> QED
  BY <1>5, <1>6

(* Whatever else runs and fails meanwhile: when install or add-node exits  *)
(* with 0, each of its hosts has been made a node, but for a host with the *)
(* unit of an earlier attempt and the only master beside the primary.      *)
THEOREM SuccessIsJoined == Spec => []SuccessMeansJoined
BY SuccessJoinsNow, Progress, CommandsTypeCorrect, PTL

-----------------------------------------------------------------------------
(* No node is left behind the version                                      *)

\* A strict upgrade may go on: each of ms has had the tasks of its version,
\* or has them still to come in its first play, which no host may fail.
ReadyIn(r, ms, ta) == \A n \in ms : r.target \in ta[n] \/ (r.major /\ n \in AllOf(r, 1))

BehindInv ==
  /\ NoneBehind
  /\ \A m \in Machines : Running(m) /\ Strict(run[m]) => ReadyIn(run[m], members \ behind, tasks)

LEMMA ReadyGrows ==
  ASSUME NEW r, NEW ms, NEW ta, ReadyIn(r, ms, ta), NEW ms2 \in SUBSET Nodes, NEW ta2,
         ms2 \subseteq ms, \A n \in Nodes : ta[n] \subseteq ta2[n]
  PROVE  ReadyIn(r, ms2, ta2)
BY DEF ReadyIn

LEMMA ReadyKept ==
  ASSUME NEW r, NEW s, Keeps(r, s), s.phase = "plays"
  PROVE  /\ s.target = r.target /\ Strict(s) = Strict(r) /\ s.kind = r.kind
         /\ \A ms, ta : ReadyIn(r, ms, ta) = ReadyIn(s, ms, ta)
<1>1. s # Exit(1)
  BY DEF Exit, Blank
<1> QED
  BY <1>1 DEF Keeps, Strict, ReadyIn, AllOf

LEMMA InventoryHasMembers ==
  ASSUME ClusterOK, Servers # {}, NEW W, members \subseteq W \cup Servers
  PROVE  /\ PlaybookInventory(W)["primary_master_node"] = {FindPrimaryMasterNode}
         /\ PlaybookInventory(W)["master_nodes"] = Servers \ {FindPrimaryMasterNode}
         /\ PlaybookInventory(W)["worker_nodes"] = W
         /\ members \subseteq UNION {PlaybookInventory(W)[g] : g \in AllGroups}
<1>1. {"primary_master_node", "master_nodes", "worker_nodes"} \subseteq AllGroups
  BY GroupSets
<1>2. /\ PlaybookInventory(W)["primary_master_node"] = {FindPrimaryMasterNode}
      /\ PlaybookInventory(W)["master_nodes"] = Servers \ {FindPrimaryMasterNode}
      /\ PlaybookInventory(W)["worker_nodes"] = W
  BY <1>1 DEF PlaybookInventory, NoHosts
<1> QED
  BY <1>1, <1>2

LEMMA UpgradeReady ==
  ASSUME ClusterOK, NoneBehind, ReadsCluster, NEW target \in Majors, NEW named \in Asked,
         NEW lenient \in BOOLEAN
  PROVE  ReadyIn(UpgradeRun("upgrade", target, named, lenient), members \ behind, tasks)
<1> DEFINE r == UpgradeRun("upgrade", target, named, lenient)
           W == UpgradedWorkers("upgrade", named)
<1>1. Servers # {} /\ version # 0 /\ FindPrimaryMasterNode \in Nodes /\ "upgrade" \in UpgradeModes
  BY PrimaryIsOldest DEF ReadsCluster, ClusterOK, UpgradeModes
<1>2. /\ r.kind = "upgrade" /\ r.target = target /\ r.hosts = PlaybookInventory(W)
      /\ r.major = (version # target)
  BY <1>1, UpgradeRunOK DEF IsMajorUpgrade
<1>3. members \subseteq W \cup Servers
  BY DEF UpgradedWorkers
<1> HIDE DEF r, W
<1>4. members \subseteq UNION {r.hosts[g] : g \in AllGroups}
  BY <1>1, <1>2, <1>3, InventoryHasMembers
<1>5. Playbook[r.kind][1].groups = AllGroups
  <2>1. UpgradePlaybook[1].groups = AllGroups
    BY DEF UpgradePlaybook, Play
  <2> QED
    BY <1>2, <2>1, PlaybookOf
<1>6. members \subseteq AllOf(r, 1)
  BY <1>4, <1>5 DEF AllOf
<1>7. \A n \in members \ behind : version \in tasks[n]
  BY <1>1 DEF NoneBehind
<1>8. ReadyIn(r, members \ behind, tasks)
  BY <1>2, <1>6, <1>7 DEF ReadyIn
<1> QED
  BY <1>8 DEF r

LEMMA CommandReady ==
  ASSUME TypeOK, NoneBehind, NEW m \in Machines, Command(m),
         run'[m].phase = "plays", Strict(run'[m])
  PROVE  ReadyIn(run'[m], members \ behind, tasks)
<1>1. ClusterOK /\ RunsOK /\ Begun(m)
  BY TypeParts, CommandSteps
<1>2. run'[m].kind = "upgrade"
  BY DEF Strict
<1>3. ASSUME NEW checks \in BOOLEAN, GenerateInventory(config) = "ok",
             Keeps(InstallRun(checks), run'[m])
      PROVE  FALSE
  BY <1>1, <1>2, <1>3, InstallRunOK, ReadyKept
<1>4. ASSUME NEW named \in Asked, NEW checks \in BOOLEAN, Keeps(AddNodeRun(named, checks), run'[m])
      PROVE  FALSE
  BY <1>1, <1>2, <1>4, AddNodeRunOK, ReadyKept
<1>5. ASSUME NEW kind \in DOMAIN Services, NEW named \in Asked, NEW server \in Nodes,
             Keeps(ServiceRun(kind, named, server), run'[m])
      PROVE  FALSE
  <2>1. kind # "upgrade"
    BY KindNames
  <2> QED
    BY <1>1, <1>2, <1>5, <2>1, ServiceRunOK, ReadyKept
<1>6. ASSUME NEW kind \in UpgradeModes, NEW target \in Majors, NEW named \in Asked,
             NEW lenient \in BOOLEAN, ReadsCluster,
             Keeps(UpgradeRun(kind, target, named, lenient), run'[m])
      PROVE  ReadyIn(run'[m], members \ behind, tasks)
  <2>1. UpgradeRun(kind, target, named, lenient).kind = kind
    BY <1>1, <1>6, UpgradeRunOK, PrimaryIsOldest DEF ReadsCluster, ClusterOK
  <2>2. kind = "upgrade"
    BY <1>2, <1>6, <2>1, ReadyKept
  <2>3. ReadyIn(UpgradeRun(kind, target, named, lenient), members \ behind, tasks)
    BY <1>1, <1>6, <2>2, UpgradeReady
  <2> QED
    BY <1>6, <2>3, ReadyKept
<1> QED
  BY <1>1, <1>3, <1>4, <1>5, <1>6 DEF Begun

ReadyAll ==
  \A m \in Machines : Running(m) /\ Strict(run[m]) => ReadyIn(run[m], members \ behind, tasks)

LEMMA StillReady ==
  ASSUME RunsOK, ReadyAll, NEW m \in Machines, Step(m), Running(m),
         NEW k \in Machines, Running(k)', Strict(run'[k])
  PROVE  /\ k \in Upgrading /\ run'[k].target = run[k].target
         /\ ReadyIn(run'[k], members \ behind, tasks)
<1>1. CASE k = m
  <2>1. Keeps(run[m], run'[m]) /\ run'[m].phase = "plays"
    BY <1>1 DEF Step, Running
  <2>2. /\ run'[m].target = run[m].target /\ Strict(run[m])
        /\ ReadyIn(run[m], members \ behind, tasks) = ReadyIn(run'[m], members \ behind, tasks)
    BY <1>1, <2>1, ReadyKept
  <2> QED
    BY <1>1, <2>2 DEF ReadyAll, Upgrading, Strict, Patching
<1>2. CASE k # m
  BY <1>2 DEF Step, Running, ReadyAll, Upgrading, Strict, Patching
<1> QED
  BY <1>1, <1>2

\* Steps that leave the version and let no one be missed.
LEMMA BehindStays ==
  ASSUME TypeOK, BehindInv, Grown, version' = version, members' \ behind' \subseteq members \ behind
  PROVE  NoneBehind'
<1>1. members \subseteq Nodes
  BY DEF TypeOK
<1> QED
  BY <1>1 DEF BehindInv, NoneBehind, Grown

LEMMA ReadyStays ==
  ASSUME TypeOK, ReadyAll, NEW m \in Machines, Step(m), Running(m), Grown,
         members' \ behind' \subseteq members \ behind
  PROVE  ReadyAll'
<1>1. RunsOK /\ members' \ behind' \in SUBSET Nodes
  BY TypeParts DEF TypeOK
<1>2. ASSUME NEW k \in Machines, Running(k)', Strict(run'[k])
      PROVE  ReadyIn(run'[k], members' \ behind', tasks')
  <2>1. ReadyIn(run'[k], members \ behind, tasks)
    BY <1>1, <1>2, StillReady
  <2> QED
    BY <1>1, <2>1, ReadyGrows DEF Grown
<1> QED
  BY <1>2 DEF ReadyAll

\* A node that comes has the tasks of the version, or counts as missed; and
\* under an upgrade every node that comes counts as missed.
LEMMA JoinBehind ==
  ASSUME TypeOK, ProgressInv, BehindInv, NEW m \in Machines, NEW n \in run[m].left, Step(m),
         Running(m), Grown, Effect(run[m]) \in Joins, Join(m, n), version' = version
  PROVE  NoneBehind' /\ ReadyAll'
<1>1. ClusterOK /\ RunsOK /\ n \in Nodes
  BY TypeParts, LeftAreNodes
<1>2. /\ members' = members \cup {n} /\ members \subseteq Nodes
      /\ \A v \in Majors : v \leq run[m].target => v \in tasks'[n]
  BY <1>1, JoinGrows DEF ClusterOK
<1>3. ReadyAll
  BY DEF BehindInv, ReadyAll
<1>4. CASE Missed(m)
  <2>1. behind' = behind \cup {n}
    BY <1>4 DEF Join
  <2>2. members' \ behind' \subseteq members \ behind
    BY <1>2, <2>1
  <2> QED
    BY <1>3, <2>2, BehindStays, ReadyStays
<1>5. CASE ~Missed(m)
  <2>1. behind' = behind \ {n} /\ Upgrading = {} /\ (version # 0 => run[m].target = version)
    BY <1>5 DEF Join, Missed
  <2>2. ReadyAll'
    BY <1>1, <1>3, <2>1, StillReady DEF ReadyAll
  <2>3. ASSUME version # 0, NEW x \in members' \ behind' PROVE version \in tasks'[x]
    <3>1. CASE x = n
      <4>1. version \in Majors /\ version \in Nat
        BY <1>1, <2>3, CommandsAssumption DEF ClusterOK
      <4>2. version \leq run[m].target
        BY <2>1, <2>3, <4>1
      <4> QED
        BY <1>2, <3>1, <4>1, <4>2
    <3>2. CASE x # n
      <4>1. x \in members \ behind /\ x \in Nodes
        BY <1>2, <2>1, <2>3, <3>2
      <4> QED
        BY <2>3, <4>1 DEF BehindInv, NoneBehind, Grown
    <3> QED
      BY <3>1, <3>2
  <2>4. NoneBehind'
    BY <2>3 DEF NoneBehind
  <2> QED
    BY <2>2, <2>4
<1> QED
  BY <1>4, <1>5

LEMMA FirstOfFive == 1 \in 1..5 /\ \A i \in 1..5 : i # 1 => 1 < i
OBVIOUS

\* Where a strict upgrade declares its version, its first play is over and
\* no host was lost in it.
LEMMA StrictDeclares ==
  ASSUME TypeOK, ProgressInv, ReadyAll, NEW m \in Machines, Running(m), Strict(run[m]),
         Effect(run[m]) = "patch version", NEW x \in members \ behind
  PROVE  run[m].target \in tasks[x]
<1> DEFINE r == run[m]
<1>1. RunsOK /\ InPlay(r) /\ r.kind = "upgrade" /\ r.phase = "plays"
  BY TypeParts, RunningInPlay DEF Strict, Running
<1>2. r.lost = {}
  BY <1>1 DEF ProgressInv, RunGood, NoneLost
<1>3. r.target \in tasks[x] \/ (r.major /\ x \in AllOf(r, 1))
  BY DEF ReadyAll, ReadyIn
<1>4. CASE r.major /\ x \in AllOf(r, 1)
  <2>1. /\ Playbook["upgrade"] = UpgradePlaybook /\ DOMAIN UpgradePlaybook = 1..5
    BY PlaybookOf, UpgradeEffects
  <2>2. UpgradePlaybook[1].effect = "major tasks"
    BY DEF UpgradePlaybook, Play
  <2>3. r.play \in 1..5 /\ r.play # 1
    BY <1>1, <2>1, <2>2 DEF InPlay, Effect
  <2>4. 1 < r.play /\ 1 \in DOMAIN Playbook[r.kind]
    BY <1>1, <2>1, <2>3, FirstOfFive
  <2>5. Passed(r, 1, x)
    BY <1>2, <1>4, <2>4 DEF Passed
  <2>6. x \in Nodes
    BY DEF TypeOK
  <2>7. DidIn(r, 1, x, Excused, tasks)
    BY <2>4, <2>5, <2>6 DEF ProgressInv, RunGood, FollowedIn
  <2> QED
    BY <1>1, <1>4, <2>1, <2>2, <2>7 DEF DidIn
<1> QED
  BY <1>3, <1>4

LEMMA PatchBehind ==
  ASSUME TypeOK, ProgressInv, BehindInv, NEW m \in Machines, NEW n \in run[m].left, Step(m),
         Grown, PatchVersion(m, n)
  PROVE  NoneBehind' /\ ReadyAll'
<1> DEFINE t == run[m].target
<1>1. RunsOK /\ ReadyAll /\ members \subseteq Nodes
  BY TypeParts DEF BehindInv, ReadyAll, TypeOK
<1>2. /\ version' = t /\ members' = members /\ tasks' = tasks
      /\ Running(m) /\ Effect(run[m]) = "patch version"
      /\ behind' = (IF Upgrading = {m} THEN behind \cap Laggards(t) ELSE behind)
                     \cup (IF Strict(run[m]) THEN {} ELSE Laggards(t))
  BY DEF PatchVersion, At
<1> HIDE DEF t
<1>3. ASSUME NEW x \in members \ behind'
      PROVE  x \in members \ behind \/ (Upgrading = {m} /\ t \in tasks[x])
  BY <1>2, <1>3 DEF Laggards
<1>4. ASSUME NEW x \in members \ behind' PROVE t \in tasks[x]
  <2>1. CASE Strict(run[m])
    BY <1>1, <1>2, <1>3, <1>4, <2>1, StrictDeclares DEF t
  <2>2. CASE ~Strict(run[m])
    BY <1>2, <1>4, <2>2 DEF Laggards
  <2> QED
    BY <2>1, <2>2
<1>5. NoneBehind'
  BY <1>2, <1>4 DEF NoneBehind
<1>6. ASSUME NEW k \in Machines, Running(k)', Strict(run'[k]), NEW x \in members \ behind'
      PROVE  run'[k].target \in tasks[x] \/ (run'[k].major /\ x \in AllOf(run'[k], 1))
  <2>1. /\ k \in Upgrading /\ run'[k].target = run[k].target
        /\ ReadyIn(run'[k], members \ behind, tasks)
    BY <1>1, <1>2, <1>6, StillReady
  <2>2. CASE x \in members \ behind
    BY <2>1, <2>2 DEF ReadyIn
  <2>3. CASE Upgrading = {m} /\ t \in tasks[x]
    BY <2>1, <2>3 DEF t
  <2> QED
    BY <1>3, <1>6, <2>2, <2>3
<1>7. ReadyAll'
  BY <1>2, <1>6 DEF ReadyAll, ReadyIn
<1> QED
  BY <1>5, <1>7

LEMMA TaskBehind ==
  ASSUME TypeOK, ProgressInv, BehindInv, NEW m \in Machines, Task(m)
  PROVE  NoneBehind' /\ ReadyAll'
<1>1. ClusterOK /\ RunsOK /\ ReadyAll
  BY TypeParts DEF BehindInv, ReadyAll
<1>2. Step(m) /\ Grown /\ Running(m)
  BY <1>1, TaskSteps, TaskGrows
<1>3. ASSUME version' = version, members' \ behind' \subseteq members \ behind
      PROVE  NoneBehind' /\ ReadyAll'
  BY <1>1, <1>2, <1>3, BehindStays, ReadyStays
<1>4. ASSUME NEW failed, Prepare(m, failed) PROVE NoneBehind' /\ ReadyAll'
  BY <1>3, <1>4 DEF Prepare, cluster, history
<1>5. ASSUME NEW n \in run[m].left,
             \/ ServerRuns(m, n) \/ ServerSkipped(m, n) \/ VerifyServers(m, n)
             \/ AgentSkipped(m, n) \/ AgentFails(m, n) \/ MajorTasks(m, n) \/ TaskFails(m, n)
      PROVE  NoneBehind' /\ ReadyAll'
  BY <1>3, <1>5 DEF ServerRuns, ServerSkipped, VerifyServers, AgentSkipped, AgentFails,
     MajorTasks, TaskFails, cluster, history
<1>6. ASSUME NEW n \in run[m].left, StartServer(m, n) \/ StartAgent(m, n)
      PROVE  NoneBehind' /\ ReadyAll'
  <2>1. Join(m, n) /\ Effect(run[m]) \in Joins /\ version' = version
    BY <1>6 DEF StartServer, StartAgent, At, Joins
  <2> QED
    BY <1>2, <2>1, JoinBehind
<1>7. ASSUME NEW n \in run[m].left, PatchVersion(m, n) PROVE NoneBehind' /\ ReadyAll'
  BY <1>2, <1>7, PatchBehind
<1>8. ASSUME NEW n \in run[m].left, CreateCluster(m, n) PROVE NoneBehind' /\ ReadyAll'
  <2>1. /\ UNCHANGED <<config, members, tasks, behind>> /\ version' = run[m].target
        /\ Effect(run[m]) = "create cluster"
    BY <1>8 DEF CreateCluster, At, history
  <2>2. InPlay(run[m]) /\ run[m].kind \in Kinds /\ run[m].play \in DOMAIN Playbook[run[m].kind]
    BY <1>1, <1>2, RunningInPlay, LeftAreNodes DEF InPlay
  <2>3. run[m].kind = "install"
    BY <2>1, <2>2, WhoDoesWhat DEF Effect
  <2>4. run[m].target = Floor
    BY <2>3 DEF ProgressInv, RunGood, AimedIn, Floor
  <2>5. NoneBehind'
    BY <2>1, <2>4 DEF NoneBehind, ProgressInv
  <2>6. ReadyAll'
    BY <1>1, <1>2, <2>1, ReadyStays
  <2> QED
    BY <2>5, <2>6
<1> QED
  BY <1>4, <1>5, <1>6, <1>7, <1>8 DEF Task

LEMMA InitBehind == Init => BehindInv
<1> SUFFICES ASSUME Init PROVE BehindInv
  OBVIOUS
<1>1. \A m \in Machines : ~Running(m)
  BY BlankFields DEF Init, Running
<1>2. NoneBehind
  <2>1. CASE Untouched
    BY <2>1 DEF Untouched, NoneBehind
  <2>2. CASE Installed
    <3>1. \A n \in members : Floor \in tasks[n]
      BY InitProgress DEF ProgressInv
    <3> QED
      BY <2>2, <3>1 DEF Installed, NoneBehind, Floor
  <2> QED
    BY <2>1, <2>2 DEF Init
<1> QED
  BY <1>1, <1>2 DEF BehindInv

LEMMA StepBehind == TypeOK /\ ProgressInv /\ BehindInv /\ [Next]_vars => BehindInv'
<1> SUFFICES ASSUME TypeOK, ProgressInv, BehindInv, [Next]_vars PROVE BehindInv'
  OBVIOUS
<1>1. RunsOK /\ ReadyAll /\ NoneBehind /\ members \subseteq Nodes
  BY TypeParts DEF BehindInv, ReadyAll, TypeOK
<1>2. NoneBehind' /\ ReadyAll' => BehindInv'
  BY DEF BehindInv, ReadyAll
<1>3. ASSUME NEW m \in Machines, Command(m) PROVE BehindInv'
  <2>1. UNCHANGED <<cluster, history>> /\ \A k \in Machines \ {m} : run'[k] = run[k]
    BY <1>3, CommandSteps
  <2>2. NoneBehind'
    BY <1>1, <2>1 DEF NoneBehind, cluster, history
  <2>3. ASSUME NEW k \in Machines, Running(k)', Strict(run'[k])
        PROVE  ReadyIn(run'[k], members \ behind, tasks)
    <3>1. CASE k = m
      BY <1>1, <1>3, <2>3, <3>1, CommandReady DEF Running
    <3>2. CASE k # m
      BY <1>1, <2>1, <2>3, <3>2 DEF ReadyAll, Running
    <3> QED
      BY <3>1, <3>2
  <2>4. ReadyAll'
    BY <2>1, <2>3 DEF ReadyAll, cluster, history
  <2> QED
    BY <1>2, <2>2, <2>4
<1>4. ASSUME NEW m \in Machines, Task(m) PROVE BehindInv'
  BY <1>2, <1>4, TaskBehind
<1>5. ASSUME NEW m \in Machines, Interrupt(m) PROVE BehindInv'
  <2>1. UNCHANGED <<cluster, used, history>> /\ Step(m) /\ Running(m)
    BY <1>1, <1>5, InterruptSteps DEF Interrupt
  <2>2. Grown /\ version' = version /\ members' \ behind' = members \ behind
    BY <2>1 DEF Grown, cluster, history
  <2> QED
    BY <1>1, <1>2, <2>1, <2>2, BehindStays, ReadyStays
<1>6. ASSUME NEW n \in Nodes, RemoveNode(n) PROVE BehindInv'
  <2>1. UNCHANGED <<version, tasks, run, behind>> /\ members' = members \ {n}
    BY <1>6 DEF RemoveNode
  <2>2. NoneBehind'
    BY <1>1, <2>1 DEF NoneBehind
  <2>3. ReadyAll'
    BY <1>1, <2>1 DEF ReadyAll, ReadyIn, Running
  <2> QED
    BY <1>2, <2>2, <2>3
<1>7. CASE UNCHANGED vars
  BY <1>1, <1>2, <1>7 DEF vars, cluster, history, NoneBehind, ReadyAll, Running
<1> QED
  BY <1>3, <1>4, <1>5, <1>6, <1>7 DEF Next

(* Whatever upgrades, installs and joins fail, are interrupted, repeated   *)
(* or run at the same time: every node has had the major tasks of the      *)
(* version the cluster declares, but for those an upgrade could not know   *)
(* of and those that one without any_errors_fatal was free to leave.       *)
THEOREM NobodyBehind == Spec => []NoneBehind
<1>1. BehindInv => NoneBehind
  BY DEF BehindInv
<1> QED
  BY <1>1, InitBehind, StepBehind, Progress, CommandsTypeCorrect, PTL DEF Spec

=============================================================================
