-------------------------- MODULE MCRestoreCluster --------------------------
(* Small instances of RestoreCluster: an old and a new primary, a master,  *)
(* and a worker.                                                           *)
EXTENDS RestoreCluster

CONSTANTS old, new, m, w

File(masters, workers) ==
  [hosts |-> [g \in Groups |->
                IF g \in {"primary_master_node", "mariadb_node"} THEN {old}
                ELSE IF g = "master_nodes" THEN masters
                ELSE IF g = "worker_nodes" THEN workers ELSE {}],
   missing |-> {}, invalid |-> FALSE,
   version |-> [g \in Groups |-> IF g = "primary_master_node" THEN 1 ELSE 0],
   endpoint |-> [g \in Groups |-> old], token |-> {}, sshPort |-> {},
   dual |-> FALSE, nodeIps |-> [g \in Groups |-> {}], second |-> {}, pods |-> {}, pods4 |-> {},
   db |-> [host |-> old, password |-> 1], mariadb |-> 1, restore |-> FALSE]

Option(primary, local, mysql, password, masters, workers) ==
  [primary |-> primary, local |-> local, mysql |-> mysql, password |-> password,
   masters |-> masters, workers |-> workers]

MCFiles == {File({}, {}), File({m}, {w})}
MCOptions ==
  { Option(new, TRUE, new, 0, {}, {}), Option(new, TRUE, new, 2, {m}, {}),
    Option(new, FALSE, w, 2, {}, {m}), Option(old, FALSE, old, 0, {m}, {w}) }
=============================================================================
