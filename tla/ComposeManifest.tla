---------------------------- MODULE ComposeManifest ----------------------------
(***************************************************************************)
(* The two manifests lib/compose/manifest builds, as declarations of        *)
(* ComposeStart: which components there are, and what the constructor of   *)
(* each is given or overrides.                                             *)
(***************************************************************************)
EXTENDS TLC

\* ClusterCommonService with no argument but its port.
Common ==
  [db |-> FALSE, keystone |-> FALSE, depend |-> {}, init |-> TRUE,
   postInit |-> TRUE, probed |-> TRUE, restart |-> TRUE, healthy |-> {},
   registered |-> {}]
NoOneShots == [Common EXCEPT !.init = FALSE, !.postInit = FALSE]

OnKeystone == [Common EXCEPT !.keystone = TRUE]
WithDb == [Common EXCEPT !.db = TRUE]
WithDbOnKeystone == [WithDb EXCEPT !.keystone = TRUE]
WithDbOn(c) == [WithDb EXCEPT !.depend = {c}]
OnKeystoneAnd(c) == [OnKeystone EXCEPT !.depend = {c}]
Unprobed(d) == [d EXCEPT !.probed = FALSE, !.postInit = FALSE]

Mysql == [NoOneShots EXCEPT !.restart = FALSE]
Keystone == [WithDb EXCEPT !.healthy = {"etcd"}]

\* Slip: glance waits for the health of host-deployer, which has no
\* healthcheck.
GlanceHealthy == [WithDbOnKeystone EXCEPT !.healthy = {"host-deployer"}]

HostDeployer == Unprobed(OnKeystone)
Climc == [Unprobed(OnKeystoneAnd("region")) EXCEPT !.registered = {"keystone"}]
Web == [Unprobed(Common) EXCEPT !.registered = {"apigateway", "webconsole"}]
BaremetalAgent == [OnKeystoneAnd("region") EXCEPT !.healthy = {"dhcprelay"}]
Glance == [WithDbOnKeystone EXCEPT !.depend = {"host-deployer"}]

OfBoth ==
  "mysql" :> Mysql
    @@ "etcd" :> NoOneShots
    @@ "keystone" :> Keystone
    @@ "host-deployer" :> HostDeployer
    @@ "influxdb" :> OnKeystone
    @@ "glance" :> Glance
    @@ "climc" :> Climc
    @@ "apigateway" :> OnKeystoneAnd("region")
    @@ "web" :> Web
    @@ [c \in {"logger", "notify", "region", "ansibleserver", "yunionconf",
               "webconsole"} |-> WithDbOnKeystone]
    @@ [c \in {"scheduler", "scheduledtask", "monitor"} |-> WithDbOn("region")]

Cmp ==
  OfBoth
    @@ "kubeserver" :> WithDbOnKeystone
    @@ "cloudmon" :> OnKeystone
    @@ "cloudid" :> WithDbOn("region")
    @@ "esxi-agent" :> OnKeystoneAnd("region")

Baremetal ==
  OfBoth
    @@ "dhcprelay" :> NoOneShots
    @@ "baremetal-agent" :> BaremetalAgent

=============================================================================
