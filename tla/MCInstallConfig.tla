---------------------------- MODULE MCInstallConfig ----------------------------
(* Instances of InstallConfig.  Two products are enough, one that is a host    *)
(* and needs containerd and one that is neither.                               *)
EXTENDS InstallConfig, FiniteSets

MCAddresses == {"a1", "a2"}
MCVersions == {"v1", "v2"}

\* At most one of the three options.  To give the shipped version is to give none.
Line(targets) ==
  {i \in [target : targets, product : {"AI", "CMP"}, containerd : BOOLEAN,
          version : {NotGiven, "v2"}, networks : BOOLEAN, offline : BOOLEAN,
          force : BOOLEAN] :
     /\ i.product = "AI" => i.containerd
     /\ Cardinality({o \in {"networks", "offline", "force"} : i[o]}) <= 1}
\* --force and offline mode act on both files alike; the second address only
\* makes the file one for another address.
MCInvocations ==
  Line({"a1"})
    \union {i \in Line({"own"}) : ~i.force /\ ~i.offline}
    \union {i \in Line({"a2"}) : i.product = "AI" /\ ~(i.networks \/ i.offline \/ i.force)}

\* A file of the administrator, with and without further masters.
OwnConfig(m) ==
  [hostname |-> "a1", version |-> "v1", password |-> 9, product |-> "AI",
   asHost |-> FALSE, containerd |-> FALSE, networks |-> "a1", masters |-> m]
MCOwnConfigs == {OwnConfig(m) : m \in BOOLEAN}
=============================================================================
