-------------------------- MODULE ComposeStartProofs --------------------------
(***************************************************************************)
(* Proofs about ComposeStart, for every manifest whose components all have  *)
(* keystone somewhere in front of them (ChainAssumption).                  *)
(*                                                                         *)
(* A condition is met at one moment and may be untrue at the next: a       *)
(* one-shot is run again, a healthy service crashes.  What remains true is  *)
(* what the invariant records: the one-shots a container waited for have   *)
(* had their effect, the services it waited for have been started.         *)
(***************************************************************************)
EXTENDS ComposeStart, WellFoundedInduction, TLAPS

\* A started container has what it waited for behind it.
NeedsRecorded ==
  \A x \in Containers : HasStarted(x) =>
    \A n \in Needs(x) : IF n.when = "completed" THEN n.on \in effects
                                                ELSE HasStarted(n.on)
CompletedRecorded == \A x \in Containers : status[x] = "completed" => x \in effects
EffectsStarted == \A x \in effects : HasStarted(x)
VisitedStarted == \A x \in visited : HasStarted(x)

IInv ==
  /\ TypeOK
  /\ NeedsRecorded
  /\ CompletedRecorded
  /\ EffectsStarted
  /\ VisitedStarted

-----------------------------------------------------------------------------
(* What the conditions of a container are.                                   *)

LEMMA NeedShape ==
  ASSUME NEW x \in Containers, NEW n \in Needs(x)
  PROVE  /\ n = [on |-> n.on, when |-> n.when]
         /\ n.when \in {"started", "healthy", "completed"}
         /\ n.when # "completed" => n.on \in Runs
<1>1. x[1] \in Components
  BY DEF Containers, OneShots, Inits, PostInits, Runs, InitOf, RunOf, PostInitOf
<1>2. Decl[x[1]] \in Declaration /\ "mysql" \in Components
  BY <1>1, ManifestAssumption
<1>3. Decl[x[1]].healthy \subseteq Components
  BY <1>2 DEF Declaration
<1>4. \/ \E y : n = Completed(y)
      \/ \E c \in Components : n = Healthy(RunOf(c)) \/ n = Started(RunOf(c))
  BY <1>1, <1>2, <1>3
     DEF Needs, InitNeeds, RunNeeds, PostInitNeeds, HealthyDb
<1> QED
  BY <1>4 DEF Completed, Healthy, Started, Runs

LEMMA RunNeedsInit ==
  ASSUME NEW c \in Components, Decl[c].init
  PROVE  /\ InitOf(c) \in Containers /\ RunOf(c) \in Containers
         /\ Completed(InitOf(c)) \in Needs(RunOf(c))
BY DEF Containers, OneShots, Inits, Runs, InitOf, RunOf, Needs, RunNeeds

LEMMA InitNeedsPostInits ==
  ASSUME NEW c \in Components, Decl[c].init
  PROVE  /\ Decl[c].keystone =>
              Completed(PostInitOf("keystone")) \in Needs(InitOf(c))
         /\ \A d \in Decl[c].depend :
              Decl[d].postInit => Completed(PostInitOf(d)) \in Needs(InitOf(c))
BY DEF InitOf, Needs, InitNeeds

LEMMA RunNeedsRegistered ==
  ASSUME NEW c \in Components, NEW d \in Decl[c].registered
  PROVE  Completed(PostInitOf(d)) \in Needs(RunOf(c))
BY DEF RunOf, Needs, RunNeeds

LEMMA PostInitNeedsRun ==
  ASSUME NEW c \in Components
  PROVE  Healthy(RunOf(c)) \in Needs(PostInitOf(c))
BY DEF PostInitOf, Needs, PostInitNeeds

-----------------------------------------------------------------------------
(* The invariant.                                                            *)

LEMMA InitIInv == Init => IInv
BY ManifestAssumption
   DEF Init, IInv, TypeOK, Statuses, NeedsRecorded, CompletedRecorded,
       EffectsStarted, VisitedStarted, HasStarted

\* A step that forgets no effect and turns no started container into a created
\* one keeps what was recorded of the containers that had started before.
LEMMA RecordKept ==
  ASSUME NeedsRecorded, effects \subseteq effects',
         \A y : HasStarted(y) => HasStarted(y)',
         NEW x \in Containers, HasStarted(x)
  PROVE  \A n \in Needs(x) : IF n.when = "completed" THEN n.on \in effects'
                                                     ELSE HasStarted(n.on)'
BY DEF NeedsRecorded

LEMMA NextIInv == IInv /\ [Next]_vars => IInv'
<1> SUFFICES ASSUME IInv, [Next]_vars PROVE IInv'
  OBVIOUS
<1> USE ManifestAssumption DEF IInv, TypeOK
<1>1. CASE Up
  BY <1>1 DEF Up, NeedsRecorded, CompletedRecorded, EffectsStarted,
              VisitedStarted, HasStarted
<1>2. CASE UpFails \/ UpDone
  BY <1>2 DEF UpFails, UpDone, NeedsRecorded, CompletedRecorded, EffectsStarted,
              VisitedStarted, HasStarted
<1>3. ASSUME NEW x \in Containers, Visit(x) PROVE IInv'
  <2>1. /\ x \in Containers \ visited /\ up = "starting"
        /\ \A n \in Needs(x) : Met(n)
        /\ visited' = visited \union {x}
        /\ UNCHANGED <<effects, up, faults>>
    BY <1>3 DEF Visit, CanVisit
  <2>2. \/ Alive(x) /\ status' = status
        \/ ~Alive(x) /\ status' = [status EXCEPT ![x] = "running"]
    BY <1>3 DEF Visit
  <2>3. TypeOK'
    BY <2>1, <2>2 DEF Statuses
  <2>4. HasStarted(x)' /\ \A y \in Containers : HasStarted(y) => HasStarted(y)'
    BY <2>2 DEF HasStarted, Alive
  <2>5. \A n \in Needs(x) : IF n.when = "completed" THEN n.on \in effects
                                                    ELSE HasStarted(n.on)
    <3> SUFFICES ASSUME NEW n \in Needs(x)
                 PROVE  IF n.when = "completed" THEN n.on \in effects
                                                ELSE HasStarted(n.on)
      OBVIOUS
    <3>1. Met(n) /\ n.on \in visited
      BY <2>1 DEF Met
    <3> QED
      BY <3>1 DEF Met, CompletedRecorded, VisitedStarted
  <2>6. NeedsRecorded'
    <3> SUFFICES ASSUME NEW y \in Containers, HasStarted(y)', NEW n \in Needs(y)
                 PROVE  IF n.when = "completed" THEN n.on \in effects'
                                                ELSE HasStarted(n.on)'
      BY DEF NeedsRecorded
    <3>1. IF n.when = "completed" THEN n.on \in effects ELSE HasStarted(n.on)
      <4>1. CASE y = x
        BY <2>5, <4>1
      <4>2. CASE y # x
        BY <2>2, <4>2 DEF NeedsRecorded, HasStarted
      <4> QED
        BY <4>1, <4>2
    <3>2. n.when # "completed" => n.on \in Containers
      BY NeedShape DEF Containers
    <3> QED
      BY <2>1, <2>4, <3>1, <3>2
  <2>7. CompletedRecorded' /\ EffectsStarted' /\ VisitedStarted'
    BY <2>1, <2>2, <2>4, <2>3
       DEF CompletedRecorded, EffectsStarted, VisitedStarted, Containers
  <2> QED
    BY <2>3, <2>6, <2>7
<1>4. ASSUME NEW x \in Containers, NEW s \in Statuses \ {"created", "completed"},
             status' = [status EXCEPT ![x] = s], HasStarted(x),
             faults' \in 0 .. MaxFaults, UNCHANGED <<effects, up, visited>>
      PROVE  IInv'
  <2>1. \A y \in Containers : HasStarted(y) <=> HasStarted(y)'
    BY <1>4 DEF HasStarted
  <2>2. NeedsRecorded'
    BY <1>4, <2>1, NeedShape DEF NeedsRecorded, Containers
  <2> QED
    BY <1>4, <2>1, <2>2
       DEF CompletedRecorded, EffectsStarted, VisitedStarted, Containers, Statuses
<1>5. ASSUME NEW x \in Containers, Complete(x) PROVE IInv'
  <2>1. /\ x \in OneShots /\ status[x] = "running"
        /\ status' = [status EXCEPT ![x] = "completed"]
        /\ effects' = effects \union {x}
        /\ UNCHANGED <<up, visited, faults>>
    BY <1>5 DEF Complete, CanComplete, SetStatus
  <2>2. \A y \in Containers : HasStarted(y) <=> HasStarted(y)'
    BY <2>1 DEF HasStarted
  <2>3. NeedsRecorded'
    BY <2>1, <2>2, NeedShape DEF NeedsRecorded, Containers
  <2>4. TypeOK' /\ CompletedRecorded'
    BY <2>1 DEF CompletedRecorded, Statuses
  <2> QED
    BY <2>1, <2>2, <2>3, <2>4
       DEF EffectsStarted, VisitedStarted, HasStarted, Containers
<1>6. ASSUME NEW x \in Containers,
             TurnHealthy(x) \/ TurnUnhealthy(x) \/ Crash(x)
      PROVE  IInv'
  <2>1. CASE TurnHealthy(x)
    BY <1>4, <2>1 DEF TurnHealthy, CanTurnHealthy, SetStatus, Statuses, HasStarted
  <2>2. CASE TurnUnhealthy(x)
    <3>1. /\ status' = [status EXCEPT ![x] = "unhealthy"]
          /\ UNCHANGED <<effects, up, visited>>
          /\ HasStarted(x)
      BY <2>2 DEF TurnUnhealthy, SetStatus, HasStarted
    <3>2. faults' \in 0 .. MaxFaults
      BY <2>2 DEF TurnUnhealthy
    <3> QED
      BY <1>4, <3>1, <3>2 DEF Statuses
  <2>3. CASE Crash(x)
    <3>1. /\ \/ status' = [status EXCEPT ![x] = "running"]
             \/ status' = [status EXCEPT ![x] = "failed"]
          /\ UNCHANGED <<effects, up, visited>>
          /\ HasStarted(x)
      BY <2>3 DEF Crash, SetStatus, Alive, HasStarted
    <3>2. faults' \in 0 .. MaxFaults
      BY <2>3 DEF Crash
    <3> QED
      BY <1>4, <3>1, <3>2 DEF Statuses
  <2> QED
    BY <1>6, <2>1, <2>2, <2>3
<1>7. CASE UNCHANGED vars
  BY <1>7 DEF vars, NeedsRecorded, CompletedRecorded, EffectsStarted,
              VisitedStarted, HasStarted
<1> QED
  BY <1>1, <1>2, <1>3, <1>5, <1>6, <1>7 DEF Next

-----------------------------------------------------------------------------
(* What follows from it.                                                     *)

\* The one-shots a started container waited for have had their effect.
LEMMA WaitedFor ==
  ASSUME IInv, NEW x \in Containers, HasStarted(x), NEW y,
         Completed(y) \in Needs(x)
  PROVE  y \in effects
BY DEF IInv, NeedsRecorded, Completed

\* Types, for every manifest.
THEOREM ComposeTypeCorrect == Spec => []TypeOK
<1>1. IInv => TypeOK
  BY DEF IInv
<1> QED
  BY InitIInv, NextIInv, <1>1, PTL DEF Spec

LEMMA InvDependenciesFirst == IInv => DependenciesFirst
<1> SUFFICES ASSUME IInv, NEW c \in Components, HasStarted(RunOf(c))
             PROVE  /\ Through(InitOf(c))
                    /\ Decl[c].init =>
                         /\ Decl[c].keystone => PostInitOf("keystone") \in effects
                         /\ \A d \in Decl[c].depend : Through(PostInitOf(d))
  BY DEF DependenciesFirst
<1>1. CASE ~Decl[c].init
  <2>1. InitOf(c) \notin Containers
    BY <1>1 DEF Containers, OneShots, Inits, PostInits, Runs, InitOf, RunOf, PostInitOf
  <2> QED
    BY <1>1, <2>1 DEF Through
<1>2. CASE Decl[c].init
  <2>1. InitOf(c) \in effects
    BY <1>2, RunNeedsInit, WaitedFor
  <2>2. HasStarted(InitOf(c))
    BY <2>1 DEF IInv, EffectsStarted
  <2>3. Decl[c].keystone => PostInitOf("keystone") \in effects
    BY <1>2, <2>2, RunNeedsInit, InitNeedsPostInits, WaitedFor
  <2>4. ASSUME NEW d \in Decl[c].depend PROVE Through(PostInitOf(d))
    <3>1. PostInitOf(d) \in Containers => Decl[d].postInit
      BY DEF Containers, OneShots, Inits, PostInits, Runs, InitOf, RunOf, PostInitOf
    <3> QED
      BY <1>2, <2>2, <3>1, RunNeedsInit, InitNeedsPostInits, WaitedFor DEF Through
  <2> QED
    BY <2>1, <2>3, <2>4 DEF Through
<1> QED
  BY <1>1, <1>2

\* In every manifest, and however often `up` is repeated after crashes, no
\* service comes up before its own configuration and what its init waited for.
THEOREM DependenciesComeFirst == Spec => []DependenciesFirst
BY InitIInv, NextIInv, InvDependenciesFirst, PTL DEF Spec

\* KeystoneFirst is kept because the post-init of a component waited for its
\* service in turn.
LEMMA RegisteredBehind ==
  ASSUME IInv, KeystoneFirst, NEW d \in Components \ Base,
         PostInitOf(d) \in effects
  PROVE  PostInitOf("keystone") \in effects
<1>1. CASE d = "keystone"
  BY <1>1
<1>2. CASE d # "keystone"
  <2>1. PostInitOf(d) \in Containers /\ HasStarted(PostInitOf(d))
    BY DEF IInv, TypeOK, EffectsStarted, Containers
  <2>2. HasStarted(RunOf(d))
    BY <2>1, PostInitNeedsRun DEF IInv, NeedsRecorded, Healthy
  <2> QED
    BY <1>2, <2>2 DEF KeystoneFirst
<1> QED
  BY <1>1, <1>2

LEMMA ChainHolds ==
  ASSUME IInv, KeystoneFirst, NEW c \in Components \ (Base \union {"keystone"}),
         \A n \in Needs(RunOf(c)) : n.when = "completed" => n.on \in effects
  PROVE  PostInitOf("keystone") \in effects
<1>1. Decl[c].depend \subseteq Components /\ Decl[c].registered \subseteq Components
  BY ManifestAssumption DEF Declaration
<1>2. CASE \E d \in Decl[c].registered \ Base : Decl[d].postInit
  <2>1. PICK d \in Decl[c].registered \ Base : Decl[d].postInit
    BY <1>2
  <2>2. PostInitOf(d) \in effects
    BY <2>1, RunNeedsRegistered DEF Completed
  <2> QED
    BY <1>1, <2>1, <2>2, RegisteredBehind
<1>3. CASE Decl[c].init
  <2>1. InitOf(c) \in effects
    BY <1>3, RunNeedsInit DEF Completed
  <2>2. HasStarted(InitOf(c))
    BY <2>1 DEF IInv, EffectsStarted
  <2>3. CASE Decl[c].keystone
    BY <1>3, <2>2, <2>3, RunNeedsInit, InitNeedsPostInits, WaitedFor
  <2>4. CASE \E d \in Decl[c].depend \ Base : Decl[d].postInit
    <3>1. PICK d \in Decl[c].depend \ Base : Decl[d].postInit
      BY <2>4
    <3>2. PostInitOf(d) \in effects
      BY <1>3, <2>2, <3>1, RunNeedsInit, InitNeedsPostInits, WaitedFor
    <3> QED
      BY <1>1, <3>1, <3>2, RegisteredBehind
  <2> QED
    BY <1>2, <2>3, <2>4, ChainAssumption
<1> QED
  BY <1>2, <1>3, ChainAssumption

LEMMA NextKeystoneFirst ==
  IInv /\ KeystoneFirst /\ [Next]_vars => KeystoneFirst'
<1> SUFFICES ASSUME IInv, KeystoneFirst, [Next]_vars,
                    NEW c \in Components \ (Base \union {"keystone"}),
                    HasStarted(RunOf(c))'
             PROVE  PostInitOf("keystone") \in effects'
  BY DEF KeystoneFirst
<1>1. effects \subseteq effects'
  BY DEF Next, vars, Up, UpFails, UpDone, Visit, Complete, TurnHealthy,
         TurnUnhealthy, Crash
<1>2. CASE HasStarted(RunOf(c))
  BY <1>1, <1>2 DEF KeystoneFirst
<1>3. CASE ~HasStarted(RunOf(c))
  <2>1. RunOf(c) \in Containers
    BY DEF Containers, Runs
  <2>2. Visit(RunOf(c))
    <3>1. ASSUME NEW x \in Containers, NEW s, HasStarted(x),
                 status' = [status EXCEPT ![x] = s]
          PROVE  FALSE
      BY <1>3, <2>1, <3>1 DEF IInv, TypeOK, HasStarted
    <3>2. ~UNCHANGED status
      BY <1>3 DEF HasStarted
    <3>3. ASSUME NEW x \in Containers,
                 Complete(x) \/ TurnHealthy(x) \/ TurnUnhealthy(x) \/ Crash(x)
          PROVE  FALSE
      BY <3>1, <3>3 DEF Complete, CanComplete, TurnHealthy, CanTurnHealthy,
           TurnUnhealthy, Crash, Alive, SetStatus, HasStarted
    <3>4. PICK x \in Containers : Visit(x)
      BY <3>2, <3>3 DEF Next, vars, Up, UpFails, UpDone
    <3>5. x = RunOf(c)
      BY <1>3, <2>1, <3>4 DEF Visit, IInv, TypeOK, HasStarted
    <3> QED
      BY <3>4, <3>5
  <2>3. \A n \in Needs(RunOf(c)) : n.when = "completed" => n.on \in effects
    BY <2>2, NeedShape DEF Visit, CanVisit, Met, IInv, TypeOK, CompletedRecorded
  <2> QED
    BY <1>1, <2>3, ChainHolds
<1> QED
  BY <1>2, <1>3

\* In every manifest in which each component has keystone, or one that has,
\* in front of it, no such component starts before keystone is registered.
THEOREM KeystoneComesFirst == Spec => []KeystoneFirst
<1>1. Init => KeystoneFirst
  BY DEF Init, KeystoneFirst, HasStarted, Containers, Runs
<1> QED
  BY InitIInv, NextIInv, NextKeystoneFirst, <1>1, PTL DEF Spec

-----------------------------------------------------------------------------

\* Within one `up`, only a crash or a failing probe takes back a condition that is
\* met: containers may be visited, and get on with their work, in any order.
MetStays ==
  up = "starting" /\ faults' = faults
    => \A x \in Containers : \A n \in Needs(x) : Met(n) => Met(n)'

LEMMA NextMetStays == TypeOK /\ [Next]_vars => [MetStays]_vars
<1> SUFFICES ASSUME TypeOK, Next, up = "starting", faults' = faults,
                    NEW x \in Containers, NEW n \in Needs(x), Met(n)
             PROVE  Met(n)'
  BY DEF MetStays
<1>1. /\ n.on \in visited /\ visited \subseteq Containers
      /\ n.when \in {"started", "healthy", "completed"}
      /\ n.when = "started" \/ status[n.on] = n.when
  BY NeedShape DEF Met, TypeOK
<1>2. status \in [Containers -> Statuses] /\ faults \in Nat
  BY ManifestAssumption DEF TypeOK
<1> SUFFICES /\ n.on \in visited'
             /\ n.when = "started" \/ status'[n.on] = status[n.on]
  BY <1>1 DEF Met
<1>3. CASE Up \/ UpFails \/ UpDone
  BY <1>1, <1>3 DEF Up, UpFails, UpDone
<1>4. ASSUME NEW y \in Containers, Visit(y)
      PROVE  n.on \in visited' /\ status'[n.on] = status[n.on]
  BY <1>1, <1>2, <1>4 DEF Visit, CanVisit
<1>5. ASSUME NEW y \in Containers, Complete(y) \/ TurnHealthy(y)
      PROVE  n.on \in visited' /\ (n.when = "started" \/ status'[n.on] = status[n.on])
  <2>1. /\ visited' = visited /\ status[y] \in {"running", "unhealthy"}
        /\ \E s \in Statuses : status' = [status EXCEPT ![y] = s]
    BY <1>5 DEF Complete, CanComplete, TurnHealthy, CanTurnHealthy, SetStatus, Statuses
  <2>2. n.when = "started" \/ n.on # y
    BY <1>1, <2>1
  <2> QED
    BY <1>1, <1>2, <2>1, <2>2
<1>6. ASSUME NEW y \in Containers, TurnUnhealthy(y) \/ Crash(y)
      PROVE  FALSE
  <2>1. faults' = faults + 1
    BY <1>6 DEF TurnUnhealthy, Crash
  <2> QED
    BY <1>2, <2>1
<1> QED
  BY <1>3, <1>4, <1>5, <1>6 DEF Next

\* What an `up` has reached it keeps unless there is a fault, in every manifest:
\* why the order in which it goes on cannot decide whether it comes to its end.
THEOREM MetConditionsStay == Spec => [][MetStays]_vars
<1>1. IInv => TypeOK
  BY DEF IInv
<1> QED
  BY <1>1, InitIInv, NextIInv, NextMetStays, PTL DEF Spec

-----------------------------------------------------------------------------
(* No `up` is ever stuck.                                                    *)

\* Services do not complete, and only services have a health.
ByKind ==
  \A x \in Containers :
    /\ x \in Runs => status[x] # "completed"
    /\ x \in OneShots => status[x] \notin {"healthy", "unhealthy"}

LEMMA ServicesAreNoOneShots == Runs \cap OneShots = {}
BY DEF Runs, OneShots, Inits, PostInits, RunOf, InitOf, PostInitOf

LEMMA InitByKind == Init => ByKind
BY DEF Init, ByKind

LEMMA NextByKind == TypeOK /\ ByKind /\ [Next]_vars => ByKind'
<1> SUFFICES ASSUME TypeOK, ByKind, [Next]_vars PROVE ByKind'
  OBVIOUS
<1> USE DEF TypeOK, ByKind
<1>1. CASE UNCHANGED status
  BY <1>1
<1>2. ASSUME NEW x \in Containers, NEW s, status' = [status EXCEPT ![x] = s],
             x \in Runs => s # "completed",
             x \in OneShots => s \notin {"healthy", "unhealthy"}
      PROVE  ByKind'
  BY <1>2
<1>3. ASSUME NEW x \in Containers, Visit(x) PROVE ByKind'
  BY <1>1, <1>2, <1>3 DEF Visit
<1>4. ASSUME NEW x \in Containers, Complete(x) PROVE ByKind'
  BY <1>2, <1>4, ServicesAreNoOneShots DEF Complete, CanComplete, SetStatus
<1>5. ASSUME NEW x \in Containers, TurnHealthy(x) \/ TurnUnhealthy(x) PROVE ByKind'
  BY <1>2, <1>5, ServicesAreNoOneShots
     DEF TurnHealthy, CanTurnHealthy, TurnUnhealthy, SetStatus
<1>6. ASSUME NEW x \in Containers, Crash(x) PROVE ByKind'
  BY <1>2, <1>6 DEF Crash, SetStatus
<1>7. CASE Up \/ UpFails \/ UpDone
  BY <1>1, <1>7 DEF Up, UpFails, UpDone
<1>8. CASE UNCHANGED vars
  BY <1>1, <1>8 DEF vars
<1> QED
  BY <1>3, <1>4, <1>5, <1>6, <1>7, <1>8 DEF Next

\* Of some containers, one that is no later in the order than any other.
LEMMA Foremost ==
  ASSUME NEW rank \in [Containers -> Nat], NEW S \in SUBSET Containers, S # {}
  PROVE  \E x \in S : \A y \in S : ~(rank[y] < rank[x])
<1> DEFINE R == {rank[x] : x \in S}
<1>1. R \in SUBSET Nat /\ R # {}
  OBVIOUS
<1>2. PICK j \in R : \A k \in R : ~(<<k, j>> \in OpToRel(<, Nat))
  BY <1>1, WFMin, NatLessThanWellFounded
<1>3. \A k \in R : ~(k < j)
  BY <1>1, <1>2 DEF OpToRel
<1> QED
  BY <1>3

\* The foremost container that was not visited waits for none that was not: its
\* conditions are met, or one of them is lost, or what it waits for can get on.
LEMMA RankedGoesOn ==
  ASSUME NEW rank \in [Containers -> Nat], Ranked(rank), IInv, ByKind
  PROVE  GoesOn
<1> SUFFICES ASSUME up = "starting", visited # Containers,
                    ~\E x \in Containers \ visited : \E n \in Needs(x) : Lost(n),
                    ~\E x \in Containers : CanVisit(x)
             PROVE  \E x \in Containers : CanComplete(x) \/ CanTurnHealthy(x)
  BY DEF GoesOn
<1>1. status \in [Containers -> Statuses] /\ visited \subseteq Containers
  BY DEF IInv, TypeOK
<1>2. PICK x \in Containers \ visited :
        \A y \in Containers \ visited : ~(rank[y] < rank[x])
  BY <1>1, Foremost
<1>3. PICK n \in Needs(x) : ~Met(n)
  BY <1>2 DEF CanVisit
<1>4. /\ n.on \in Containers /\ rank[n.on] < rank[x]
      /\ n.when = "completed" => n.on \in OneShots
      /\ n.when = "healthy" => n.on \in Runs /\ Decl[n.on[1]].probed
  BY <1>3 DEF Ranked
<1>5. n.on \in visited
  BY <1>2, <1>4
<1>6. status[n.on] \in Statuses \ {"created"}
  BY <1>1, <1>4, <1>5 DEF IInv, VisitedStarted, HasStarted
<1>7. n.when \in {"healthy", "completed"} /\ status[n.on] # n.when
  BY <1>3, <1>5, NeedShape DEF Met
<1>8. ~Lost(n)
  BY <1>2, <1>3
<1>9. CASE n.when = "healthy"
  <2>1. status[n.on] = "running"
    BY <1>4, <1>5, <1>6, <1>7, <1>8, <1>9 DEF Lost, Statuses, ByKind
  <2> QED
    BY <1>4, <1>9, <2>1 DEF CanTurnHealthy
<1>10. CASE n.when = "completed"
  <2>1. status[n.on] = "running"
    BY <1>4, <1>5, <1>6, <1>7, <1>8, <1>10 DEF Lost, Statuses, ByKind
  <2> QED
    BY <1>4, <1>10, <2>1 DEF CanComplete
<1> QED
  BY <1>7, <1>9, <1>10

\* In every manifest whose conditions can be put in an order, an `up` never waits
\* for what cannot come, whatever has crashed before and however often it was
\* run.  That both manifests of lib/compose can is NoImpossibleCondition.
THEOREM UpGoesOn ==
  ASSUME NEW rank \in [Containers -> Nat], Ranked(rank)
  PROVE  Spec => []GoesOn
<1>1. Ranked(rank)
  OBVIOUS
<1>2. IInv /\ ByKind => GoesOn
  BY <1>1, RankedGoesOn
<1>3. IInv => TypeOK
  BY DEF IInv
<1> QED
  BY <1>2, <1>3, InitIInv, NextIInv, InitByKind, NextByKind, PTL DEF Spec

=============================================================================
