--------------------------- MODULE ClusterConfig ---------------------------
(***************************************************************************)
(* What lib/ocboot.py makes of a configuration file: does it load, which   *)
(* hosts are in which group of the inventory, which variables do they get, *)
(* are its addresses fit for its networks; and what the k3s roles render   *)
(* from that.                                                              *)
(*                                                                         *)
(* A configuration is a record of                                          *)
(*   hosts     the hosts of each section, {} where the section is absent   *)
(*   missing   the sections that lack a key the program insists on         *)
(*   invalid   the primary's section has a backend or product not allowed  *)
(*   version   onecloud_version of each section, 0 where it is not set     *)
(*   endpoint  controlplane_host of each section                           *)
(*   token, sshPort   the joining sections that set join_token and         *)
(*             controlplane_ssh_port                                       *)
(*   dual      ip_type is dual-stack                                       *)
(*   nodeIps   the node_ip of each section where it differs from the host  *)
(*   second    the addresses of a dual-stack primary, node_ip_v4 and _v6   *)
(*   pods, pods4   the addresses in pod_network_cidr and service_cidr, and *)
(*             in their _v4 forms                                          *)
(*   db        db_host and db_password of the primary's section            *)
(*   mariadb   the password the mariadb_node section asks for              *)
(*   restore   restore_mode                                                *)
(***************************************************************************)
EXTENDS Naturals, Sequences, FiniteSetsExt

Databases == <<"mariadb_node", "mariadb_ha_nodes">>
Joining == {"master_nodes", "worker_nodes"}
Sections == <<"mariadb_node", "mariadb_ha_nodes", "clickhouse_node", "registry_node",
              "primary_master_node", "master_nodes", "worker_nodes">>
Groups == {Sections[i] : i \in DOMAIN Sections}
KubeGroups == Joining \cup {"primary_master_node"}

(* Configurations whose addresses are those of the set H. *)
Configurations(H) ==
  [hosts : [Groups -> SUBSET H], missing : SUBSET Groups, invalid : BOOLEAN,
   version : [Groups -> Nat], endpoint : [Groups -> H],
   token : SUBSET Joining, sshPort : SUBSET Joining, dual : BOOLEAN,
   nodeIps : [Groups -> SUBSET H], second : SUBSET H, pods : SUBSET H, pods4 : SUBSET H,
   db : [host : H, password : Nat], mariadb : Nat, restore : BOOLEAN]

Section(c, g) == c.hosts[g]
Has(c, g) == Section(c, g) # {}

-----------------------------------------------------------------------------
(* Loading *)

IsIsoJoinMode(c) == c.token \cap {g \in Joining : Has(c, g)} # {}

(* get_primary_master_ssh_port asks the primary's section, present or not. *)
PortFails(c, g) == /\ g \in Joining
                   /\ g \notin c.sshPort
                   /\ ~IsIsoJoinMode(c)
                   /\ ~Has(c, "primary_master_node")

EnsureGet(c, g) == IF g \in c.missing THEN "not found" ELSE "ok"

LoadPrimary(c) ==
  IF EnsureGet(c, "primary_master_node") = "ok" /\ c.invalid
  THEN "error" ELSE EnsureGet(c, "primary_master_node")

LoadSection(c, g) ==
  IF ~Has(c, g) THEN "ok"
  ELSE IF PortFails(c, g) THEN "error"
  ELSE IF g = "primary_master_node" THEN LoadPrimary(c) ELSE EnsureGet(c, g)

(* ConfigNotFoundException is told apart, for do_install does. *)
LoadConfig(c) ==
  LET bad == {i \in DOMAIN Sections : LoadSection(c, Sections[i]) # "ok"}
  IN  IF bad # {} THEN LoadSection(c, Sections[Min(bad)])
      ELSE IF \A i \in DOMAIN Databases : Has(c, Databases[i]) THEN "error" ELSE "ok"

(* The sections that may set onecloud_version and do; the first counts. *)
Versions(c) ==
  {i \in DOMAIN Sections : /\ Sections[i] \in KubeGroups
                           /\ Has(c, Sections[i]) /\ c.version[Sections[i]] # 0}
OnecloudVersion(c) == c.version[Sections[Min(Versions(c))]]

(* A master's variables are the primary's; a worker's only if there is one. *)
VarsFail(c, g) ==
  g = "master_nodes" /\ Has(c, g) /\ ~Has(c, "primary_master_node")

GenerateInventory(c) ==
  IF Versions(c) = {} \/ \E g \in Joining : VarsFail(c, g) THEN "error" ELSE "ok"

Inventory(c) == [g \in Groups |-> Section(c, g)]

-----------------------------------------------------------------------------
(* Variables of a group *)

Endpoint(c, g) == c.endpoint[g]
DbVars(c) == c.db
MariadbPassword(c) == c.mariadb

-----------------------------------------------------------------------------
(* Addresses and networks *)

NodeAddresses(c) ==
  (UNION {Section(c, g) \cup c.nodeIps[g] : g \in KubeGroups})
    \cup {c.endpoint["primary_master_node"]}
    \cup (IF c.dual THEN c.second ELSE {})

InNetworks(ips, networks) == ips \cap networks # {}

NetworkCidrs(c) == c.pods \cup (IF c.dual THEN c.pods4 ELSE {})

(* Without a primary there is no network to compare with. *)
CidrsConflict(c) == /\ Has(c, "primary_master_node")
                    /\ InNetworks(NodeAddresses(c), NetworkCidrs(c))

(* config.yaml of a k3s server *)
RenderedNetworks(c) == IF c.dual THEN c.pods4 \cup c.pods ELSE c.pods
=============================================================================
