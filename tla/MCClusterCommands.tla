------------------------- MODULE MCClusterCommands -------------------------
(* Small instances of ClusterCommands: a primary, two possible masters, a  *)
(* worker and a spare host.                                                *)
EXTENDS ClusterCommands, TLC

CONSTANTS p, m1, m2, w, x, a, b

MCRank == (m1 :> 1) @@ (p :> 2) @@ (m2 :> 3) @@ (w :> 4) @@ (x :> 5)
MCAsked == {{x}, {w, x}}

Hosts(primary, masters, workers) ==
  [g \in Groups |->
     IF g = "primary_master_node" THEN primary
     ELSE IF g = "master_nodes" THEN masters
     ELSE IF g = "worker_nodes" THEN workers ELSE {}]

Plain ==
  [hosts |-> Hosts({p}, {m1, m2}, {}), missing |-> {}, invalid |-> FALSE,
   version |-> [g \in Groups |-> IF g = "primary_master_node" THEN 1 ELSE 0],
   endpoint |-> [g \in Groups |-> p], token |-> {}, sshPort |-> {},
   dual |-> FALSE, nodeIps |-> [g \in Groups |-> {}], second |-> {}, pods |-> {}, pods4 |-> {},
   db |-> [host |-> p, password |-> 1], mariadb |-> 1, restore |-> FALSE]

\* three servers
HA == Plain
\* a worker; the spare host lies in the second pod network
Dual == [Plain EXCEPT !.hosts = Hosts({p}, {}, {w}), !.dual = TRUE, !.pods4 = {x}]
\* the worker itself lies there
Conflict == [Dual EXCEPT !.pods4 = {w}]
\* a worker and nothing else to tell apart
Worker == [Plain EXCEPT !.hosts = Hosts({p}, {}, {w})]
\* one master beside the primary
OneMaster == [Plain EXCEPT !.hosts = Hosts({p}, {m1}, {w})]
\* files that do not load
NoPassword == [Plain EXCEPT !.missing = {"primary_master_node"}]
BadBackend == [Plain EXCEPT !.invalid = TRUE]
NoPrimary == [Plain EXCEPT !.hosts = Hosts({}, {}, {w})]
\* a worker for a cluster that is elsewhere, without a version
Elsewhere == [NoPrimary EXCEPT !.token = {"worker_nodes"}]

\* a primary alone
Single == [Plain EXCEPT !.hosts = Hosts({p}, {}, {})]

MCConfigs == {HA, Dual, Worker, Single, Conflict, OneMaster, NoPassword, BadBackend, NoPrimary, Elsewhere}
MCTried ==
  [c \in MCConfigs |->
     IF c = HA THEN [kinds |-> {"install", "addNode", "upgrade"}, times |-> 2]
     ELSE IF c = Dual
       THEN [kinds |-> {"install", "addNode", "upgrade"}, times |-> 3]
     ELSE IF c = Worker
       THEN [kinds |-> {"upgrade", "controller", "host", "final"}, times |-> 3]
     ELSE IF c = Single THEN [kinds |-> Kinds, times |-> 2]
     ELSE [kinds |-> {"install", "addNode", "host"}, times |-> 2]]

\* one file, add-node only
MCSingle == {Single}
MCRetried == [c \in MCSingle |-> [kinds |-> {"addNode"}, times |-> 2]]

Symmetric == Permutations(Machines)
=============================================================================
