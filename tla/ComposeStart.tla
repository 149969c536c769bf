----------------------------- MODULE ComposeStart -----------------------------
(***************************************************************************)
(* The stack generate-compose.py describes, as docker compose brings it up. *)
(*                                                                         *)
(* A component of the manifest is up to three containers: a one-shot init, *)
(* which writes the component's configuration and creates its database,    *)
(* the service itself, and a one-shot post-init, which registers the       *)
(* running service.  The order in which they start is nowhere written      *)
(* down: it follows from the depends_on conditions ClusterCommonService    *)
(* and ComposeServiceInitService hand out one container at a time.         *)
(*                                                                         *)
(* `docker compose up` visits each container once its conditions hold and  *)
(* gives up at a condition that can no longer come true; it may be run     *)
(* again, which starts again whatever is not running, one-shots included.  *)
(***************************************************************************)
EXTENDS Naturals, FiniteSets

CONSTANTS
  Components,  \* names in the manifest
  Decl,        \* how each of them is constructed
  MaxFaults    \* bound: crashes and failing health checks

\* db, keystone, depend: arguments of the constructor (depend: at most one).
\* init, postInit: the component has that one-shot.  probed: it has a
\* healthcheck.  restart: its policy is on-failure.  healthy, registered: what
\* its own class adds, components to wait for until healthy, or until their
\* post-init is through.
Declaration ==
  [db : BOOLEAN, keystone : BOOLEAN, depend : SUBSET Components,
   init : BOOLEAN, postInit : BOOLEAN, probed : BOOLEAN, restart : BOOLEAN,
   healthy : SUBSET Components, registered : SUBSET Components]

ASSUME ManifestAssumption ==
  /\ Decl \in [Components -> Declaration]
  /\ {"mysql", "keystone"} \subseteq Components
  /\ Decl["keystone"].postInit
  /\ MaxFaults \in Nat

\* Components with nothing before them.
Base == {"mysql", "etcd", "dhcprelay"}

\* Every other component has keystone, or one that has, in front of it.
ASSUME ChainAssumption ==
  \A c \in Components \ (Base \union {"keystone"}) :
    \/ Decl[c].init /\ Decl[c].keystone
    \/ Decl[c].init /\ \E d \in Decl[c].depend \ Base : Decl[d].postInit
    \/ \E d \in Decl[c].registered \ Base : Decl[d].postInit

VARIABLES
  status,   \* of each container
  effects,  \* one-shots that completed at least once: what they wrote is there
  up,       \* the `docker compose up` in progress, or how the last one ended
  visited,  \* containers it has started, or found running
  faults

vars == <<status, effects, up, visited, faults>>

InitOf(c) == <<c, "init">>
RunOf(c) == <<c, "run">>
PostInitOf(c) == <<c, "post-init">>

Inits == {InitOf(c) : c \in {d \in Components : Decl[d].init}}
Runs == {RunOf(c) : c \in Components}
PostInits == {PostInitOf(c) : c \in {d \in Components : Decl[d].postInit}}
OneShots == Inits \union PostInits
Containers == OneShots \union Runs

Statuses == {"created", "running", "healthy", "unhealthy", "completed", "failed"}
Alive(x) == status[x] \in {"running", "healthy", "unhealthy"}

-----------------------------------------------------------------------------
(* depends_on.                                                               *)

Started(x) == [on |-> x, when |-> "started"]
Healthy(x) == [on |-> x, when |-> "healthy"]
Completed(x) == [on |-> x, when |-> "completed"]

HealthyDb(c) == IF Decl[c].db THEN {Healthy(RunOf("mysql"))} ELSE {}

\* Slip: keystone_svc is not waited for.
InitNeedsNoKeystone(c) ==
  HealthyDb(c)
    \union {Completed(PostInitOf(d)) : d \in {e \in Decl[c].depend : Decl[e].postInit}}

InitNeeds(c) ==
  HealthyDb(c)
    \union (IF Decl[c].keystone THEN {Completed(PostInitOf("keystone"))} ELSE {})
    \union {Completed(PostInitOf(d)) : d \in {e \in Decl[c].depend : Decl[e].postInit}}

\* Slips: the service waits until its init has started; the service waits for
\* its post-init as well.
RunNeedsStarted(c) ==
  (IF Decl[c].init THEN {Started(InitOf(c))} ELSE {})
    \union (IF Decl[c].db THEN {Started(RunOf("mysql"))} ELSE {})
    \union {Healthy(RunOf(d)) : d \in Decl[c].healthy}
    \union {Completed(PostInitOf(d)) : d \in Decl[c].registered}
RunNeedsPostInit(c) ==
  (IF Decl[c].init THEN {Completed(InitOf(c))} ELSE {})
    \union (IF Decl[c].postInit THEN {Completed(PostInitOf(c))} ELSE {})

RunNeeds(c) ==
  (IF Decl[c].init THEN {Completed(InitOf(c))} ELSE {})
    \union (IF Decl[c].db THEN {Started(RunOf("mysql"))} ELSE {})
    \union {Healthy(RunOf(d)) : d \in Decl[c].healthy}
    \union {Completed(PostInitOf(d)) : d \in Decl[c].registered}

PostInitNeeds(c) == HealthyDb(c) \union {Healthy(RunOf(c))}

Needs(x) == IF x[2] = "init" THEN InitNeeds(x[1])
            ELSE IF x[2] = "run" THEN RunNeeds(x[1])
            ELSE PostInitNeeds(x[1])

\* An init has no restart policy, a post-init has one.
Restarts(x) == IF x[2] = "run" THEN Decl[x[1]].restart ELSE x[2] = "post-init"

-----------------------------------------------------------------------------
(* docker compose up.                                                        *)

Met(n) ==
  /\ n.on \in visited
  /\ \/ n.when = "started"
     \/ status[n.on] = n.when

\* The wait for n ends in an error.
Lost(n) ==
  /\ n.on \in visited
  /\ \/ n.when = "healthy" /\ status[n.on] \in {"unhealthy", "failed"}
     \/ n.when = "completed" /\ status[n.on] = "failed"

Init ==
  /\ status = [x \in Containers |-> "created"]
  /\ effects = {}
  /\ up = "idle"
  /\ visited = {}
  /\ faults = 0

Up ==
  /\ up # "starting"
  /\ up' = "starting"
  /\ visited' = {}
  /\ UNCHANGED <<status, effects, faults>>

CanVisit(x) ==
  /\ up = "starting"
  /\ x \in Containers \ visited
  /\ \A n \in Needs(x) : Met(n)

Visit(x) ==
  /\ CanVisit(x)
  /\ visited' = visited \union {x}
  /\ status' = IF Alive(x) THEN status ELSE [status EXCEPT ![x] = "running"]
  /\ UNCHANGED <<effects, up, faults>>

UpFails ==
  /\ up = "starting"
  /\ \E x \in Containers \ visited : \E n \in Needs(x) : Lost(n)
  /\ up' = "failed"
  /\ UNCHANGED <<status, effects, visited, faults>>

UpDone ==
  /\ up = "starting"
  /\ visited = Containers
  /\ up' = "done"
  /\ UNCHANGED <<status, effects, visited, faults>>

-----------------------------------------------------------------------------
(* Containers.                                                               *)

SetStatus(x, s) == status' = [status EXCEPT ![x] = s]

CanComplete(x) == x \in OneShots /\ status[x] = "running"

\* Slip: the service is taken for its one-shot.
CompleteService(x) ==
  /\ CanComplete(x)
  /\ SetStatus(x, "completed")
  /\ effects' = effects \union {RunOf(x[1])}
  /\ UNCHANGED <<up, visited, faults>>

Complete(x) ==
  /\ CanComplete(x)
  /\ SetStatus(x, "completed")
  /\ effects' = effects \union {x}
  /\ UNCHANGED <<up, visited, faults>>

CanTurnHealthy(x) ==
  /\ x \in Runs /\ Decl[x[1]].probed
  /\ status[x] \in {"running", "unhealthy"}

TurnHealthy(x) ==
  /\ CanTurnHealthy(x)
  /\ SetStatus(x, "healthy")
  /\ UNCHANGED <<effects, up, visited, faults>>

TurnUnhealthy(x) ==
  /\ faults < MaxFaults
  /\ x \in Runs /\ Decl[x[1]].probed
  /\ status[x] \in {"running", "healthy"}
  /\ SetStatus(x, "unhealthy")
  /\ faults' = faults + 1
  /\ UNCHANGED <<effects, up, visited>>

Crash(x) ==
  /\ faults < MaxFaults
  /\ Alive(x)
  /\ SetStatus(x, IF Restarts(x) THEN "running" ELSE "failed")
  /\ faults' = faults + 1
  /\ UNCHANGED <<effects, up, visited>>

Next ==
  \/ Up
  \/ UpFails
  \/ UpDone
  \/ \E x \in Containers : \/ Visit(x)
                           \/ Complete(x)
                           \/ TurnHealthy(x)
                           \/ TurnUnhealthy(x)
                           \/ Crash(x)

Spec == Init /\ [][Next]_vars

(* docker compose does what it can do, containers get on with their work,   *)
(* and an administrator whose `up` failed runs it again.  Faults are not    *)
(* fair, and there are at most MaxFaults of them.                           *)
Fairness ==
  /\ WF_vars(up = "failed" /\ Up)
  /\ WF_vars(UpFails \/ UpDone)
  /\ \A x \in Containers : /\ WF_vars(Visit(x))
                            /\ WF_vars(Complete(x) \/ TurnHealthy(x))

FairSpec == Spec /\ Fairness

-----------------------------------------------------------------------------

TypeOK ==
  /\ status \in [Containers -> Statuses]
  /\ effects \subseteq OneShots
  /\ up \in {"idle", "starting", "failed", "done"}
  /\ visited \subseteq Containers
  /\ faults \in 0 .. MaxFaults

HasStarted(x) == status[x] # "created"

\* A one-shot that completed, or that the component does not have.
Through(x) == x \in Containers => x \in effects

\* A service never comes up, be it after a crash or in a second `up`, before
\* its own configuration was written, and before keystone, and the component it
\* is declared to depend on, were registered, although only its init waits for
\* those.
DependenciesFirst ==
  \A c \in Components :
    HasStarted(RunOf(c)) =>
      /\ Through(InitOf(c))
      /\ Decl[c].init =>
           /\ Decl[c].keystone => PostInitOf("keystone") \in effects
           /\ \A d \in Decl[c].depend : Through(PostInitOf(d))

\* Nothing but the database, the key-value store, the DHCP relay and keystone
\* starts before keystone is registered, however long the chain of conditions
\* between the two.  web's init, which only writes files, is not a service.
KeystoneFirst ==
  \A c \in Components \ (Base \union {"keystone"}) :
    HasStarted(RunOf(c)) => PostInitOf("keystone") \in effects

\* The conditions of all containers can be put in an order, and each is one that
\* can come true: a one-shot can complete, a service with a healthcheck can
\* become healthy.
Ranked(rank) ==
  \A x \in Containers : \A n \in Needs(x) :
    /\ n.on \in Containers /\ rank[n.on] < rank[x]
    /\ n.when = "completed" => n.on \in OneShots
    /\ n.when = "healthy" => n.on \in Runs /\ Decl[n.on[1]].probed

\* An `up` in progress is never stuck: it is through, or it ends over a condition
\* that was lost, or some container can be visited or can get on, whatever has
\* crashed before.
GoesOn ==
  up = "starting" =>
    \/ visited = Containers
    \/ \E x \in Containers \ visited : \E n \in Needs(x) : Lost(n)
    \/ \E x \in Containers : CanVisit(x) \/ CanComplete(x) \/ CanTurnHealthy(x)

\* No condition is impossible, be it circular or a wait for the health of a
\* service without a healthcheck: an `up` that is repeated when it fails comes
\* to an end with every container started.
UpSucceeds == up = "starting" ~> up = "done"

=============================================================================
