---------------------------- MODULE MCComposeStart ----------------------------
(* Instances of ComposeStart: a chain of components of each kind under       *)
(* faults, and the conditions of everything in the two manifests.            *)
EXTENDS ComposeStart, ComposeManifest

\* climc has no post-init and no probe, scheduler no keystone_svc of its own.
MCChain == {"mysql", "etcd", "keystone", "region", "scheduler", "climc"}
MCChainDecl == [c \in MCChain |-> Cmp[c]]

\* The two manifests declare a component they share in the same way, so that
\* their union stands for each of them, provided that each by itself has all
\* the components its own ones wait for.
Whole == Cmp @@ Baremetal
Stack == INSTANCE ComposeStart WITH Components <- DOMAIN Whole, Decl <- Whole

ASSUME ManifestsClosed ==
  \A m \in {Cmp, Baremetal} : \A c \in DOMAIN m :
    m[c].depend \union m[c].healthy \union m[c].registered \subseteq DOMAIN m
ASSUME StackAssumption == Stack!ManifestAssumption /\ Stack!ChainAssumption

\* The containers that can have started after k rounds, each of which starts
\* what waits for nothing else.
Longest == Cardinality(Stack!Containers)
Round[k \in 0 .. Longest] ==
  IF k = 0 THEN {}
  ELSE LET before == Round[k - 1]
       IN  {x \in Stack!Containers : \A n \in Stack!Needs(x) : n.on \in before}
Startable == Round[Longest]
RoundOf ==
  [x \in Stack!Containers |->
     IF x \in Startable THEN CHOOSE k \in 1 .. Longest : x \in Round[k] \ Round[k - 1]
     ELSE Longest + 1]

\* lib/compose/manifest: when an `up` of either manifest begins, none of the
\* conditions of the 24 components is circular, on a container that is not there,
\* or on the health of a service without a healthcheck.  By UpGoesOn no
\* `up` of them is ever stuck.  What a condition is does not change with the state.
NoImpossibleCondition == up = "starting" /\ visited = {} => Stack!Ranked(RoundOf)
=============================================================================
