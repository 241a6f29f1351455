---------------------- MODULE ContainerLifecycleProofs ----------------------
(***************************************************************************)
(* ContainerLifecycle holds one container per session, knows every         *)
(* container that was never lost and serves every container it knows, for  *)
(* any sets of sessions and names, any estimates, budget and bounds.       *)
(*                                                                         *)
(* One held container per session does not follow from one action's        *)
(* guards: a wake only looks at the host's maps.  The argument is that     *)
(* these maps are complete but for what was lost (EveryContainerIsTracked) *)
(* and that a session is in at most one of activeContainers, wakePromises  *)
(* before the watcher is attached and recoveryPromises before the entry is *)
(* set (Exclusive).  That the module implements SessionWriter says the     *)
(* same of every step.                                                     *)
(*                                                                         *)
(* Being lost is no way out for the rest: LosingIsAFault says that only a  *)
(* failing command of the runtime loses a container, or an earlier lost    *)
(* one that a restart adopts in its place.                                 *)
(***************************************************************************)
EXTENDS ContainerLifecycle, TLAPS

\* A session with an entry is not waking; a recovery under way has no wake,
\* and has its entry from the moment its container is started.
Exclusive ==
  \A s \in Sessions :
    /\ isContainerRunning(s) => ~waking(s)
    /\ recovery[s] # "none" => ~waking(s)
    /\ recovery[s] = "setup" => ~isContainerRunning(s)
    /\ recovery[s] \in {"running", "ok", "failed", "stopFailed"}
         => isContainerRunning(s) /\ active[s].recovering

\* A recovery whose client is about to report an exit has no container left.
EndedRecoveryIsGone ==
  \A s \in Sessions : recovery[s] \in {"ok", "failed"} => container[active[s].name] = Gone

\* A spawn past its setup has its server.
SpawnIsServed ==
  \A s \in Sessions : wake[s].stage \in {"launching", "created"} => s \in server

\* Nothing of the host is left while it is down.
DownIsEmpty ==
  ~hostUp => \A s \in Sessions : ~isContainerRunning(s) /\ ~waking(s) /\ recovery[s] = "none"

\* The inductive invariant.
IInv == /\ TypeOK /\ SingleWriter /\ EveryContainerIsTracked /\ TrackedContainerIsServed
        /\ Exclusive /\ EndedRecoveryIsGone /\ SpawnIsServed /\ DownIsEmpty

-----------------------------------------------------------------------------
\* Initially nothing runs and nothing is in flight.
LEMMA InitIInv == Init => IInv
<1> SUFFICES ASSUME Init PROVE IInv
  OBVIOUS
<1>1. TypeOK
  <2>1. [stage |-> "idle"] \in Settled
    BY DEF Settled
  <2> QED
    BY <2>1 DEF Init, TypeOK, RecoveryStage
<1>2. SingleWriter /\ EveryContainerIsTracked /\ TrackedContainerIsServed
  <2>1. \A n \in Names : container[n] = Gone
    BY DEF Init
  <2>2. \A s \in Sessions : ~isContainerRunning(s)
    BY DEF Init, isContainerRunning
  <2>3. SingleWriter
    BY <2>1 DEF SingleWriter, held, runs
  <2>4. EveryContainerIsTracked
    BY <2>1 DEF EveryContainerIsTracked
  <2> QED
    BY <2>2, <2>3, <2>4 DEF TrackedContainerIsServed
<1>3. Exclusive /\ EndedRecoveryIsGone /\ SpawnIsServed /\ DownIsEmpty
  BY DEF Init, Exclusive, EndedRecoveryIsGone, SpawnIsServed, DownIsEmpty, isContainerRunning, waking
<1> QED
  BY <1>1, <1>2, <1>3 DEF IInv

\* A record of activeContainers is not the absence of one.
LEMMA EntryIsEntry ==
  \A n \in Names : /\ [name |-> n, recovering |-> TRUE] # NoEntry
                    /\ [name |-> n, recovering |-> FALSE] # NoEntry
<1> SUFFICES ASSUME NEW n \in Names
             PROVE  /\ [name |-> n, recovering |-> TRUE] \in [name: Names, recovering: BOOLEAN]
                    /\ [name |-> n, recovering |-> FALSE] \in [name: Names, recovering: BOOLEAN]
  BY NullAssumption
<1> QED
  OBVIOUS

\* A restart serves sessions only.
LEMMA RestartServes ==
  ASSUME TypeOK, HostStarts
  PROVE  server' \in SUBSET Sessions /\ faults' \in Nat
<1>1. PICK upgraded \in BOOLEAN, adopted \in SUBSET Names :
        /\ OneEach(adopted, adoptable(upgraded)) \/ adopted = {}
        /\ server' = {container[n].session : n \in adopted}
  BY Zenon DEF HostStarts
<1>2. \A n \in adopted : container[n].session \in Sessions
  BY <1>1 DEF OneEach, adoptable, TypeOK, Container
<1>3. faults' \in Nat
  BY DEF HostStarts, fault, TypeOK
<1> QED
  BY <1>1, <1>2, <1>3

\* What a new container is.
LEMMA NewContainer ==
  ASSUME NEW s \in Sessions, NEW k \in {"agent", "recovery"}
  PROVE  /\ newContainer(s, k) \in Container /\ newContainer(s, k) # Gone
         /\ newContainer(s, k).session = s /\ newContainer(s, k).kind = k
         /\ ~newContainer(s, k).lost
<1>1. newContainer(s, k) \in [session: Sessions, kind: {"agent", "recovery"}, current: BOOLEAN, lost: BOOLEAN]
  BY DEF newContainer
<1> QED
  BY <1>1, NullAssumption DEF newContainer, Container

\* Losing sight of a container changes only what is said of it.
LEMMA LostContainer ==
  ASSUME NEW c \in Container, NEW upgraded \in BOOLEAN
  PROVE  /\ [c EXCEPT !.lost = TRUE, !.current = @ /\ ~upgraded] \in Container
         /\ [c EXCEPT !.lost = TRUE, !.current = @ /\ ~upgraded].lost
         /\ [c EXCEPT !.lost = TRUE] \in Container
         /\ [c EXCEPT !.lost = TRUE].lost
BY DEF Container

-----------------------------------------------------------------------------
(* What a step may do to the containers that are held. *)

\* What is held after the step was held before, unchanged.
Fewer == \A n \in Names : container'[n] # Gone /\ ~container'[n].lost => container'[n] = container[n]

\* A session of which nothing is held is given one, of kind k under the name n.
Begin(s, n, k) ==
  /\ container[n] = Gone
  /\ \A m \in Names : container[m] # Gone /\ ~container[m].lost => container[m].session # s
  /\ container' = [container EXCEPT ![n] = newContainer(s, k)]

\* No step does anything else.
FewerOrOneBegins == Fewer \/ \E s \in Sessions, n \in Names, k \in {"agent", "recovery"} : Begin(s, n, k)

LEMMA OneEnds ==
  ASSUME TypeOK, NEW n, container' = [container EXCEPT ![n] = Gone] \/ UNCHANGED container
  PROVE  Fewer
BY DEF Fewer, TypeOK

\* The maps of a live host show every container it holds.
LEMMA UnknownHasNone ==
  ASSUME TypeOK, EveryContainerIsTracked, hostUp, NEW s \in Sessions,
         ~isContainerRunning(s), wake[s].stage # "created"
  PROVE  \A m \in Names : container[m] # Gone /\ ~container[m].lost => container[m].session # s
BY DEF EveryContainerIsTracked

\* The reconciliation of a restart starts nothing, and marks what it leaves.
LEMMA ReconciledKeeps ==
  ASSUME TypeOK, NEW upgraded \in BOOLEAN, NEW adopted \in SUBSET Names, NEW left \in SUBSET Names,
         \A n \in left : container[n] # Gone, Reconciled(adopted, left, upgraded)
  PROVE  /\ Fewer /\ container' \in [Names -> Container \cup {Gone}]
         /\ \A n \in Names : container'[n] # Gone /\ ~container'[n].lost => n \in adopted
<1>1. \A n \in left : container[n] \in Container
  BY DEF TypeOK
<1>2. ASSUME NEW n \in Names
      PROVE  /\ container'[n] \in Container \cup {Gone}
             /\ container'[n] # Gone /\ ~container'[n].lost => n \in adopted /\ container'[n] = container[n]
  <2>1. CASE n \in adopted
    BY <2>1 DEF Reconciled, TypeOK
  <2>2. CASE n \in left \ adopted
    <3>1. container'[n] = [container[n] EXCEPT !.lost = TRUE, !.current = @ /\ ~upgraded]
      BY <2>2 DEF Reconciled
    <3>2. container'[n] \in Container /\ container'[n].lost
      BY <1>1, <2>2, <3>1, LostContainer
    <3> QED
      BY <3>2
  <2>3. CASE n \notin left \cup adopted
    BY <2>3 DEF Reconciled
  <2> QED
    BY <2>1, <2>2, <2>3
<1>3. container' = [n \in Names |-> container'[n]]
  BY DEF Reconciled
<1> QED
  BY <1>2, <1>3 DEF Fewer

\* What a restart adopts and leaves.
LEMMA RestartAdopts ==
  ASSUME TypeOK, HostStarts
  PROVE  \E upgraded \in BOOLEAN, adopted \in SUBSET Names, left \in SUBSET Names :
           /\ \A n \in adopted \cup left : container[n] # Gone
           /\ \A n, m \in adopted : container[n].session = container[m].session => n = m
           /\ Reconciled(adopted, left, upgraded)
           /\ \A n \in adopted : \E m \in adopted :
                /\ container[m].session = container[n].session
                /\ active'[container[n].session] = [name |-> m, recovering |-> FALSE]
<1>1. PICK upgraded \in BOOLEAN, adopted \in SUBSET Names, left \in SUBSET Names :
        /\ \/ /\ OneEach(adopted, adoptable(upgraded))
              /\ left \subseteq adoptable(upgraded) \cup orphans(upgraded)
           \/ adopted = {} /\ left = adoptable(upgraded) \cup orphans(upgraded)
        /\ Reconciled(adopted, left, upgraded)
        /\ \A s \in {container[n].session : n \in adopted} \cap Sessions :
             \E n \in adopted : container[n].session = s /\ active'[s] = [name |-> n, recovering |-> FALSE]
  BY Zenon DEF HostStarts
<1>2. \A n \in adoptable(upgraded) \cup orphans(upgraded) : n \in Names /\ container[n] # Gone
  BY DEF adoptable, orphans
<1>3. /\ \A n \in adopted \cup left : container[n] # Gone
      /\ \A n, m \in adopted : container[n].session = container[m].session => n = m
  BY <1>1, <1>2 DEF OneEach
<1>4. \A n \in adopted : container[n].session \in Sessions
  BY <1>3 DEF TypeOK, Container
<1>5. \A n \in adopted : \E m \in adopted :
        /\ container[m].session = container[n].session
        /\ active'[container[n].session] = [name |-> m, recovering |-> FALSE]
  BY <1>1, <1>4
<1> QED
  BY <1>1, <1>3, <1>5

\* What a restart does not mark as lost has its entry.
LEMMA RestartTracks ==
  ASSUME TypeOK, HostStarts, NEW n \in Names, container'[n] # Gone, ~container'[n].lost
  PROVE  active'[container'[n].session] # NoEntry /\ active'[container'[n].session].name = n
<1>1. PICK upgraded \in BOOLEAN, adopted \in SUBSET Names, left \in SUBSET Names :
         /\ \A m \in adopted \cup left : container[m] # Gone
         /\ \A k, m \in adopted : container[k].session = container[m].session => k = m
         /\ Reconciled(adopted, left, upgraded)
         /\ \A k \in adopted : \E m \in adopted :
              /\ container[m].session = container[k].session
              /\ active'[container[k].session] = [name |-> m, recovering |-> FALSE]
  BY RestartAdopts
<1>2. \A m \in left : container[m] # Gone
  BY <1>1
<1>3. n \in adopted /\ container'[n] = container[n]
  BY <1>1, <1>2, ReconciledKeeps DEF Fewer
<1>4. active'[container'[n].session] = [name |-> n, recovering |-> FALSE]
  BY <1>1, <1>3
<1> QED
  BY <1>4, EntryIsEntry

\* A failing watcher loses the container of its entry, and no other.
LEMMA WatcherLoses ==
  ASSUME TypeOK, NEW s \in Sessions, WatcherFails(s)
  PROVE  /\ Fewer /\ container' \in [Names -> Container \cup {Gone}]
         /\ container'[active[s].name].lost
<1>1. /\ container' = [container EXCEPT ![active[s].name].lost = TRUE]
      /\ active[s].name \in Names /\ container[active[s].name] \in Container
  BY DEF WatcherFails, isContainerRunning, TypeOK, Entry
<1> QED
  BY <1>1, LostContainer DEF Fewer, TypeOK

\* Every action keeps the types.
LEMMA TypeStep ==
  ASSUME TypeOK, [Next]_vars
  PROVE  TypeOK'
<1> USE EstAssumption, LimitAssumption DEF TypeOK, Container, Entry, Settled, Evicting, Spawning, RecoveryStage, fault, runtimeVars, diskVars, hostVars
<1>1. ASSUME NEW s \in Sessions, Wake(s) PROVE TypeOK'
  BY <1>1 DEF Wake, AdmitRound, AdmitUpTo, killContainer, Stopped
<1>2. ASSUME NEW s \in Sessions, EvictionWaited(s) PROVE TypeOK'
  BY <1>2 DEF EvictionWaited, AdmitRound, AdmitUpTo, killContainer, Stopped
<1>3. ASSUME NEW s \in Sessions, SpawnSetup(s) PROVE TypeOK'
  BY <1>3 DEF SpawnSetup
<1>4. ASSUME NEW s \in Sessions, SpawnThrows(s) PROVE TypeOK'
  BY <1>4 DEF SpawnThrows, StopServer
<1>5. ASSUME NEW s \in Sessions, DockerRunCreates(s) PROVE TypeOK'
  BY <1>5 DEF DockerRunCreates, NewName, Fresh, newContainer
<1>6. ASSUME NEW s \in Sessions, DockerRunFails(s) PROVE TypeOK'
  BY <1>6 DEF DockerRunFails, StopServer
<1>7. ASSUME NEW s \in Sessions, AttachWatcher(s) PROVE TypeOK'
  BY <1>7 DEF AttachWatcher
<1>8. ASSUME NEW s \in Sessions, WatcherClosed(s) PROVE TypeOK'
  BY <1>8 DEF WatcherClosed, StopServer
<1>9. ASSUME NEW s \in Sessions, RecoverStopped(s) PROVE TypeOK'
  BY <1>9 DEF RecoverStopped
<1>10. ASSUME NEW s \in Sessions, RecoverySpawn(s) PROVE TypeOK'
  <2>1. PICK n \in Names :
           /\ active' = [active EXCEPT ![s] = [name |-> n, recovering |-> TRUE]]
           /\ \/ container' = [container EXCEPT ![n] = newContainer(s, "recovery")]
              \/ UNCHANGED container
           /\ recovery' = [recovery EXCEPT ![s] = "running"] \/ recovery' = [recovery EXCEPT ![s] = "failed"]
    BY <1>10 DEF RecoverySpawn
  <2>2. container' \in [Names -> Container \cup {Gone}]
    BY <2>1, NewContainer
  <2> HIDE DEF Container
  <2> QED
    BY <1>10, <2>1, <2>2 DEF RecoverySpawn
<1>11. ASSUME NEW s \in Sessions, RecoveryThrows(s) PROVE TypeOK'
  BY <1>11 DEF RecoveryThrows
<1>12. ASSUME NEW s \in Sessions, RecoveryTimeout(s) PROVE TypeOK'
  BY <1>12 DEF RecoveryTimeout, Stopped
<1>13. ASSUME NEW s \in Sessions, RecoveryClosed(s) PROVE TypeOK'
  BY <1>13 DEF RecoveryClosed, StopServer
<1>14. ASSUME NEW s \in Sessions, KillStuck(s) PROVE TypeOK'
  BY <1>14 DEF KillStuck, StopAttempt, Stopped
<1>15. ASSUME NEW s \in Sessions, Restart(s) PROVE TypeOK'
  BY <1>15 DEF Restart, StopAttempt, Stopped
<1>16. ASSUME NEW s \in Sessions, RemoveSession(s) PROVE TypeOK'
  BY <1>16 DEF RemoveSession, killContainer, Stopped
<1>17. ASSUME NEW s \in Sessions, Inbound(s) PROVE TypeOK'
  BY <1>17 DEF Inbound
<1>18. ASSUME NEW s \in Sessions, GracePasses(s) PROVE TypeOK'
  BY <1>18 DEF GracePasses
<1>19. ASSUME NEW n \in Names, RunnerWorks(n) PROVE TypeOK'
  BY <1>19 DEF RunnerWorks
<1>20. ASSUME NEW n \in Names, RecoveryWorks(n) PROVE TypeOK'
  BY <1>20 DEF RecoveryWorks, recovers
<1>21. ASSUME NEW n \in Names, ContainerExits(n) PROVE TypeOK'
  BY <1>21 DEF ContainerExits, recovers
<1>22. CASE HostStops
  <2>1. [stage |-> "idle"] \in Settled
    OBVIOUS
  <2>2. wake' \in [Sessions -> Settled \cup Evicting \cup Spawning]
    BY <1>22, <2>1 DEF HostStops
  <2>3. active' \in [Sessions -> Entry \cup {NoEntry}] /\ recovery' \in [Sessions -> RecoveryStage]
    BY <1>22 DEF HostStops
  <2>4. faults' \in Nat
    BY <1>22 DEF HostStops
  <2>5. server' = {} /\ quiet' = Sessions /\ hostUp' = FALSE
    BY <1>22 DEF HostStops
  <2>6. UNCHANGED <<container, live, status, work, arrivals>>
    BY <1>22 DEF HostStops
  <2> HIDE DEF Container, Settled, Evicting, Spawning, Entry, RecoveryStage
  <2> QED
    BY <2>2, <2>3, <2>4, <2>5, <2>6
<1>23. CASE HostStarts
  <2>1. container' \in [Names -> Container \cup {Gone}]
    BY <1>23, RestartAdopts, ReconciledKeeps
  <2>2. faults' \in Nat /\ server' \in SUBSET Sessions
    BY <1>23, RestartServes
  <2> HIDE DEF Container
  <2> QED
    BY <1>23, <2>1, <2>2 DEF HostStarts
<1>24. CASE UNCHANGED vars
  BY <1>24 DEF vars, runtimeVars, diskVars, hostVars
<1>25. ASSUME NEW s \in Sessions, WatcherFails(s) PROVE TypeOK'
  <2>1. container' \in [Names -> Container \cup {Gone}]
    BY <1>25, WatcherLoses
  <2> HIDE DEF Container
  <2> QED
    BY <1>25, <2>1 DEF WatcherFails, StopServer
<1> QED
  BY <1>1, <1>2, <1>3, <1>4, <1>5, <1>6, <1>7, <1>8, <1>9, <1>10, <1>11, <1>12, <1>13, <1>14, <1>15, <1>16, <1>17, <1>18, <1>19, <1>20, <1>21, <1>22, <1>23, <1>24, <1>25 DEF Next, HostStep

\* The host's three maps stay exclusive, and agree with what has ended.
LEMMA MapsStep ==
  ASSUME TypeOK, TypeOK', EveryContainerIsTracked, Exclusive, EndedRecoveryIsGone, DownIsEmpty, [Next]_vars
  PROVE  (Exclusive /\ EndedRecoveryIsGone /\ DownIsEmpty)'
<1> USE NullAssumption DEF TypeOK, Container, Entry, Settled, Evicting, Spawning, RecoveryStage, runtimeVars, diskVars, hostVars, isContainerRunning, waking, EveryContainerIsTracked, Exclusive, EndedRecoveryIsGone, DownIsEmpty
<1>1. ASSUME NEW s \in Sessions, Wake(s) PROVE (Exclusive /\ EndedRecoveryIsGone /\ DownIsEmpty)'
  BY <1>1 DEF Wake, AdmitRound, AdmitUpTo, killContainer, Stopped
<1>2. ASSUME NEW s \in Sessions, EvictionWaited(s) PROVE (Exclusive /\ EndedRecoveryIsGone /\ DownIsEmpty)'
  BY <1>2 DEF EvictionWaited, AdmitRound, AdmitUpTo, killContainer, Stopped
<1>3. ASSUME NEW s \in Sessions, SpawnSetup(s) PROVE (Exclusive /\ EndedRecoveryIsGone /\ DownIsEmpty)'
  BY <1>3 DEF SpawnSetup
<1>4. ASSUME NEW s \in Sessions, SpawnThrows(s) PROVE (Exclusive /\ EndedRecoveryIsGone /\ DownIsEmpty)'
  BY <1>4 DEF SpawnThrows, StopServer
<1>5. ASSUME NEW s \in Sessions, DockerRunCreates(s) PROVE (Exclusive /\ EndedRecoveryIsGone /\ DownIsEmpty)'
  <2>1. PICK n \in Names :
           /\ Fresh(n)
           /\ container' = [container EXCEPT ![n] = newContainer(s, "agent")]
           /\ wake' = [wake EXCEPT ![s] = [stage |-> "created", name |-> n]]
    BY <1>5 DEF DockerRunCreates, NewName
  <2>2. UNCHANGED <<active, recovery, hostUp>> /\ wake[s].stage = "launching"
    BY <1>5 DEF DockerRunCreates
  <2>3. wake'[s] = [stage |-> "created", name |-> n] /\ wake'[s].stage = "created"
    BY <2>1
  <2>4. \A t \in Sessions \ {s} : wake'[t] = wake[t]
    BY <2>1
  <2>5. Exclusive'
    BY <2>2, <2>3, <2>4
  <2>6. \A t \in Sessions : isContainerRunning(t) => active[t].name # n
    BY <2>1 DEF Fresh
  <2>7. \A m \in Names \ {n} : container'[m] = container[m]
    BY <2>1
  <2>8. ASSUME NEW t \in Sessions, recovery'[t] \in {"ok", "failed"}
        PROVE  container'[active'[t].name] = Gone
    <3>1. isContainerRunning(t) /\ container[active[t].name] = Gone
      BY <2>2, <2>8
    <3>2. active[t].name \in Names \ {n}
      BY <2>6, <3>1
    <3> QED
      BY <2>2, <2>7, <3>1, <3>2
  <2>9. DownIsEmpty'
    BY <2>2, <2>3, <2>4
  <2> QED
    BY <2>5, <2>8, <2>9
<1>6. ASSUME NEW s \in Sessions, DockerRunFails(s) PROVE (Exclusive /\ EndedRecoveryIsGone /\ DownIsEmpty)'
  BY <1>6 DEF DockerRunFails, StopServer
<1>7. ASSUME NEW s \in Sessions, AttachWatcher(s) PROVE (Exclusive /\ EndedRecoveryIsGone /\ DownIsEmpty)'
  BY <1>7 DEF AttachWatcher
<1>8. ASSUME NEW s \in Sessions, WatcherClosed(s) PROVE (Exclusive /\ EndedRecoveryIsGone /\ DownIsEmpty)'
  BY <1>8 DEF WatcherClosed, StopServer
<1>9. ASSUME NEW s \in Sessions, RecoverStopped(s) PROVE (Exclusive /\ EndedRecoveryIsGone /\ DownIsEmpty)'
  BY <1>9 DEF RecoverStopped
<1>10. ASSUME NEW s \in Sessions, RecoverySpawn(s) PROVE (Exclusive /\ EndedRecoveryIsGone /\ DownIsEmpty)'
  <2>1. PICK n \in Names :
           /\ Fresh(n)
           /\ active' = [active EXCEPT ![s] = [name |-> n, recovering |-> TRUE]]
           /\ \/ /\ container' = [container EXCEPT ![n] = newContainer(s, "recovery")]
                 /\ recovery' = [recovery EXCEPT ![s] = "running"]
              \/ /\ recovery' = [recovery EXCEPT ![s] = "failed"]
                 /\ UNCHANGED container
    BY <1>10 DEF RecoverySpawn, NewName
  <2>2. active'[s] = [name |-> n, recovering |-> TRUE] /\ active'[s] # NoEntry
    BY <2>1, EntryIsEntry
  <2>3. \A t \in Sessions \ {s} : active'[t] = active[t] /\ recovery'[t] = recovery[t]
    BY <2>1
  <2>4. UNCHANGED <<wake, hostUp>> /\ recovery[s] = "setup" /\ recovery'[s] \in {"running", "failed"}
    BY <1>10, <2>1 DEF RecoverySpawn
  <2>5. Exclusive'
    BY <2>2, <2>3, <2>4
  <2>6. EndedRecoveryIsGone'
    BY <2>1, <2>2, <2>3 DEF Fresh
  <2>7. DownIsEmpty'
    BY <2>4
  <2> QED
    BY <2>5, <2>6, <2>7
<1>11. ASSUME NEW s \in Sessions, RecoveryThrows(s) PROVE (Exclusive /\ EndedRecoveryIsGone /\ DownIsEmpty)'
  BY <1>11 DEF RecoveryThrows
<1>12. ASSUME NEW s \in Sessions, RecoveryTimeout(s) PROVE (Exclusive /\ EndedRecoveryIsGone /\ DownIsEmpty)'
  BY <1>12 DEF RecoveryTimeout, Stopped
<1>13. ASSUME NEW s \in Sessions, RecoveryClosed(s) PROVE (Exclusive /\ EndedRecoveryIsGone /\ DownIsEmpty)'
  BY <1>13 DEF RecoveryClosed, StopServer
<1>14. ASSUME NEW s \in Sessions, KillStuck(s) PROVE (Exclusive /\ EndedRecoveryIsGone /\ DownIsEmpty)'
  BY <1>14 DEF KillStuck, StopAttempt, Stopped
<1>15. ASSUME NEW s \in Sessions, Restart(s) PROVE (Exclusive /\ EndedRecoveryIsGone /\ DownIsEmpty)'
  BY <1>15 DEF Restart, StopAttempt, Stopped
<1>16. ASSUME NEW s \in Sessions, RemoveSession(s) PROVE (Exclusive /\ EndedRecoveryIsGone /\ DownIsEmpty)'
  BY <1>16 DEF RemoveSession, killContainer, Stopped
<1>17. ASSUME NEW s \in Sessions, Inbound(s) PROVE (Exclusive /\ EndedRecoveryIsGone /\ DownIsEmpty)'
  BY <1>17 DEF Inbound
<1>18. ASSUME NEW s \in Sessions, GracePasses(s) PROVE (Exclusive /\ EndedRecoveryIsGone /\ DownIsEmpty)'
  BY <1>18 DEF GracePasses
<1>19. ASSUME NEW n \in Names, RunnerWorks(n) PROVE (Exclusive /\ EndedRecoveryIsGone /\ DownIsEmpty)'
  BY <1>19 DEF RunnerWorks
<1>20. ASSUME NEW n \in Names, RecoveryWorks(n) PROVE (Exclusive /\ EndedRecoveryIsGone /\ DownIsEmpty)'
  BY <1>20 DEF RecoveryWorks, recovers
<1>21. ASSUME NEW n \in Names, ContainerExits(n) PROVE (Exclusive /\ EndedRecoveryIsGone /\ DownIsEmpty)'
  BY <1>21 DEF ContainerExits, recovers
<1>22. CASE HostStops
  BY <1>22 DEF HostStops
<1>23. CASE HostStarts
  BY <1>23 DEF HostStarts
<1>24. CASE UNCHANGED vars
  BY <1>24 DEF vars, runtimeVars, diskVars, hostVars
<1>25. ASSUME NEW s \in Sessions, WatcherFails(s) PROVE (Exclusive /\ EndedRecoveryIsGone /\ DownIsEmpty)'
  BY <1>25 DEF WatcherFails, StopServer
<1> QED
  BY <1>1, <1>2, <1>3, <1>4, <1>5, <1>6, <1>7, <1>8, <1>9, <1>10, <1>11, <1>12, <1>13, <1>14, <1>15, <1>16, <1>17, <1>18, <1>19, <1>20, <1>21, <1>22, <1>23, <1>24, <1>25 DEF Next, HostStep

\* No action starts, adopts or forgets a container behind the host's back.
LEMMA TrackedStep ==
  ASSUME TypeOK, TypeOK', SingleWriter, EveryContainerIsTracked, Exclusive, EndedRecoveryIsGone, DownIsEmpty, [Next]_vars
  PROVE  EveryContainerIsTracked'
<1> USE NullAssumption DEF TypeOK, Container, Entry, Settled, Evicting, Spawning, RecoveryStage, runtimeVars, diskVars, hostVars, isContainerRunning, waking, EveryContainerIsTracked, Exclusive, DownIsEmpty
<1>1. ASSUME NEW s \in Sessions, Wake(s) PROVE EveryContainerIsTracked'
  BY <1>1 DEF Wake, AdmitRound, AdmitUpTo, killContainer, Stopped
<1>2. ASSUME NEW s \in Sessions, EvictionWaited(s) PROVE EveryContainerIsTracked'
  BY <1>2 DEF EvictionWaited, AdmitRound, AdmitUpTo, killContainer, Stopped
<1>3. ASSUME NEW s \in Sessions, SpawnSetup(s) PROVE EveryContainerIsTracked'
  BY <1>3 DEF SpawnSetup
<1>4. ASSUME NEW s \in Sessions, SpawnThrows(s) PROVE EveryContainerIsTracked'
  BY <1>4 DEF SpawnThrows, StopServer
<1>5. ASSUME NEW s \in Sessions, DockerRunCreates(s) PROVE EveryContainerIsTracked'
  <2>1. PICK m \in Names :
           /\ Fresh(m)
           /\ container' = [container EXCEPT ![m] = newContainer(s, "agent")]
           /\ wake' = [wake EXCEPT ![s] = [stage |-> "created", name |-> m]]
    BY <1>5 DEF DockerRunCreates, NewName
  <2>2. UNCHANGED <<active, hostUp>> /\ wake[s].stage = "launching"
    BY <1>5 DEF DockerRunCreates
  <2>3. container'[m].session = s /\ wake'[s].stage = "created" /\ wake'[s].name = m
    BY <2>1, NewContainer
  <2>4. \A n \in Names \ {m} : container'[n] = container[n]
    BY <2>1
  <2>5. \A n \in Names \ {m} : wake[container[n].session].stage = "created" => wake'[container[n].session] = wake[container[n].session]
    BY <2>1, <2>2
  <2> QED
    BY <2>2, <2>3, <2>4, <2>5
<1>6. ASSUME NEW s \in Sessions, DockerRunFails(s) PROVE EveryContainerIsTracked'
  BY <1>6 DEF DockerRunFails, StopServer
<1>7. ASSUME NEW s \in Sessions, AttachWatcher(s) PROVE EveryContainerIsTracked'
  <2> SUFFICES ASSUME NEW n \in Names, container'[n] # Gone, ~container'[n].lost
               PROVE  \/ active'[container'[n].session] # NoEntry /\ active'[container'[n].session].name = n
                      \/ wake'[container'[n].session].stage = "created" /\ wake'[container'[n].session].name = n
    OBVIOUS
  <2> DEFINE t == container[n].session
  <2>1. UNCHANGED container /\ t \in Sessions
    BY <1>7 DEF AttachWatcher
  <2>2. hostUp
    BY <1>7 DEF AttachWatcher
  <2>3. active'[s] = [name |-> wake[s].name, recovering |-> FALSE] /\ active'[s] # NoEntry
    BY <1>7, EntryIsEntry, wake[s].name \in Names DEF AttachWatcher
  <2>4. CASE t = s
    BY <1>7, <2>1, <2>2, <2>3, <2>4 DEF AttachWatcher
  <2>5. CASE t # s
    BY <1>7, <2>1, <2>2, <2>5 DEF AttachWatcher
  <2> QED
    BY <2>4, <2>5
<1>8. ASSUME NEW s \in Sessions, WatcherClosed(s) PROVE EveryContainerIsTracked'
  BY <1>8 DEF WatcherClosed, StopServer
<1>9. ASSUME NEW s \in Sessions, RecoverStopped(s) PROVE EveryContainerIsTracked'
  BY <1>9 DEF RecoverStopped
<1>10. ASSUME NEW s \in Sessions, RecoverySpawn(s) PROVE EveryContainerIsTracked'
  <2>1. PICK m \in Names :
           /\ Fresh(m)
           /\ active' = [active EXCEPT ![s] = [name |-> m, recovering |-> TRUE]]
           /\ \/ container' = [container EXCEPT ![m] = newContainer(s, "recovery")]
              \/ UNCHANGED container
    BY <1>10 DEF RecoverySpawn, NewName
  <2>2. active'[s] = [name |-> m, recovering |-> TRUE] /\ active'[s] # NoEntry
    BY <2>1, EntryIsEntry
  <2>3. hostUp /\ UNCHANGED wake /\ ~isContainerRunning(s) /\ ~waking(s)
    BY <1>10 DEF RecoverySpawn
  <2>4. \A n \in Names \ {m} : container'[n] # Gone /\ ~container'[n].lost => container[n] # Gone /\ container'[n] = container[n] /\ container[n].session # s
    BY <2>1, <2>3
  <2>5. container'[m] # Gone => container'[m].session = s
    BY <2>1, NewContainer DEF Fresh
  <2>6. \A n \in Names \ {m} : container'[n] # Gone /\ ~container'[n].lost => active'[container[n].session] = active[container[n].session]
    BY <2>1, <2>4
  <2> QED
    BY <2>2, <2>3, <2>4, <2>5, <2>6
<1>11. ASSUME NEW s \in Sessions, RecoveryThrows(s) PROVE EveryContainerIsTracked'
  BY <1>11 DEF RecoveryThrows
<1>12. ASSUME NEW s \in Sessions, RecoveryTimeout(s) PROVE EveryContainerIsTracked'
  BY <1>12 DEF RecoveryTimeout, Stopped
<1>13. ASSUME NEW s \in Sessions, RecoveryClosed(s) PROVE EveryContainerIsTracked'
  BY <1>13 DEF RecoveryClosed, StopServer, EndedRecoveryIsGone
<1>14. ASSUME NEW s \in Sessions, KillStuck(s) PROVE EveryContainerIsTracked'
  BY <1>14 DEF KillStuck, StopAttempt, Stopped
<1>15. ASSUME NEW s \in Sessions, Restart(s) PROVE EveryContainerIsTracked'
  BY <1>15 DEF Restart, StopAttempt, Stopped
<1>16. ASSUME NEW s \in Sessions, RemoveSession(s) PROVE EveryContainerIsTracked'
  BY <1>16 DEF RemoveSession, killContainer, Stopped
<1>17. ASSUME NEW s \in Sessions, Inbound(s) PROVE EveryContainerIsTracked'
  BY <1>17 DEF Inbound
<1>18. ASSUME NEW s \in Sessions, GracePasses(s) PROVE EveryContainerIsTracked'
  BY <1>18 DEF GracePasses
<1>19. ASSUME NEW n \in Names, RunnerWorks(n) PROVE EveryContainerIsTracked'
  BY <1>19 DEF RunnerWorks
<1>20. ASSUME NEW n \in Names, RecoveryWorks(n) PROVE EveryContainerIsTracked'
  BY <1>20 DEF RecoveryWorks, recovers
<1>21. ASSUME NEW n \in Names, ContainerExits(n) PROVE EveryContainerIsTracked'
  BY <1>21 DEF ContainerExits, recovers
<1>22. CASE HostStops
  BY <1>22 DEF HostStops
<1>23. CASE HostStarts
  <2> SUFFICES ASSUME NEW n \in Names, container'[n] # Gone, ~container'[n].lost
               PROVE  active'[container'[n].session] # NoEntry /\ active'[container'[n].session].name = n
    OBVIOUS
  <2> HIDE DEF TypeOK, Container, Entry, Settled, Evicting, Spawning, RecoveryStage, Exclusive, DownIsEmpty
  <2> QED
    BY <1>23, RestartTracks
<1>24. CASE UNCHANGED vars
  BY <1>24 DEF vars, runtimeVars, diskVars, hostVars
<1>25. ASSUME NEW s \in Sessions, WatcherFails(s) PROVE EveryContainerIsTracked'
  <2>1. Fewer /\ container'[active[s].name].lost
    BY <1>25, WatcherLoses
  <2>2. UNCHANGED <<wake, hostUp>> /\ ~waking(s) /\ \A t \in Sessions \ {s} : active'[t] = active[t]
    BY <1>25 DEF WatcherFails
  <2> QED
    BY <2>1, <2>2 DEF Fewer
<1> QED
  BY <1>1, <1>2, <1>3, <1>4, <1>5, <1>6, <1>7, <1>8, <1>9, <1>10, <1>11, <1>12, <1>13, <1>14, <1>15, <1>16, <1>17, <1>18, <1>19, <1>20, <1>21, <1>22, <1>23, <1>24, <1>25 DEF Next, HostStep

\* No server is taken from under a tracked container or a spawn.
LEMMA ServedStep ==
  ASSUME TypeOK, TypeOK', TrackedContainerIsServed, SpawnIsServed, Exclusive, DownIsEmpty, [Next]_vars
  PROVE  (TrackedContainerIsServed /\ SpawnIsServed)'
<1> USE NullAssumption DEF TypeOK, Container, Entry, Settled, Evicting, Spawning, RecoveryStage, runtimeVars, diskVars, hostVars, isContainerRunning, waking, TrackedContainerIsServed, SpawnIsServed, Exclusive, DownIsEmpty
<1>1. ASSUME NEW s \in Sessions, Wake(s) PROVE (TrackedContainerIsServed /\ SpawnIsServed)'
  BY <1>1 DEF Wake, AdmitRound, AdmitUpTo, killContainer, Stopped
<1>2. ASSUME NEW s \in Sessions, EvictionWaited(s) PROVE (TrackedContainerIsServed /\ SpawnIsServed)'
  BY <1>2 DEF EvictionWaited, AdmitRound, AdmitUpTo, killContainer, Stopped
<1>3. ASSUME NEW s \in Sessions, SpawnSetup(s) PROVE (TrackedContainerIsServed /\ SpawnIsServed)'
  BY <1>3 DEF SpawnSetup
<1>4. ASSUME NEW s \in Sessions, SpawnThrows(s) PROVE (TrackedContainerIsServed /\ SpawnIsServed)'
  BY <1>4 DEF SpawnThrows, StopServer
<1>5. ASSUME NEW s \in Sessions, DockerRunCreates(s) PROVE (TrackedContainerIsServed /\ SpawnIsServed)'
  BY <1>5 DEF DockerRunCreates, NewName, Fresh, newContainer
<1>6. ASSUME NEW s \in Sessions, DockerRunFails(s) PROVE (TrackedContainerIsServed /\ SpawnIsServed)'
  BY <1>6 DEF DockerRunFails, StopServer
<1>7. ASSUME NEW s \in Sessions, AttachWatcher(s) PROVE (TrackedContainerIsServed /\ SpawnIsServed)'
  BY <1>7 DEF AttachWatcher
<1>8. ASSUME NEW s \in Sessions, WatcherClosed(s) PROVE (TrackedContainerIsServed /\ SpawnIsServed)'
  BY <1>8 DEF WatcherClosed, StopServer
<1>9. ASSUME NEW s \in Sessions, RecoverStopped(s) PROVE (TrackedContainerIsServed /\ SpawnIsServed)'
  BY <1>9 DEF RecoverStopped
<1>10. ASSUME NEW s \in Sessions, RecoverySpawn(s) PROVE (TrackedContainerIsServed /\ SpawnIsServed)'
  BY <1>10 DEF RecoverySpawn, NewName, Fresh, newContainer
<1>11. ASSUME NEW s \in Sessions, RecoveryThrows(s) PROVE (TrackedContainerIsServed /\ SpawnIsServed)'
  BY <1>11 DEF RecoveryThrows
<1>12. ASSUME NEW s \in Sessions, RecoveryTimeout(s) PROVE (TrackedContainerIsServed /\ SpawnIsServed)'
  BY <1>12 DEF RecoveryTimeout, Stopped
<1>13. ASSUME NEW s \in Sessions, RecoveryClosed(s) PROVE (TrackedContainerIsServed /\ SpawnIsServed)'
  BY <1>13 DEF RecoveryClosed, StopServer
<1>14. ASSUME NEW s \in Sessions, KillStuck(s) PROVE (TrackedContainerIsServed /\ SpawnIsServed)'
  BY <1>14 DEF KillStuck, StopAttempt, Stopped
<1>15. ASSUME NEW s \in Sessions, Restart(s) PROVE (TrackedContainerIsServed /\ SpawnIsServed)'
  BY <1>15 DEF Restart, StopAttempt, Stopped
<1>16. ASSUME NEW s \in Sessions, RemoveSession(s) PROVE (TrackedContainerIsServed /\ SpawnIsServed)'
  BY <1>16 DEF RemoveSession, killContainer, Stopped
<1>17. ASSUME NEW s \in Sessions, Inbound(s) PROVE (TrackedContainerIsServed /\ SpawnIsServed)'
  BY <1>17 DEF Inbound
<1>18. ASSUME NEW s \in Sessions, GracePasses(s) PROVE (TrackedContainerIsServed /\ SpawnIsServed)'
  BY <1>18 DEF GracePasses
<1>19. ASSUME NEW n \in Names, RunnerWorks(n) PROVE (TrackedContainerIsServed /\ SpawnIsServed)'
  BY <1>19 DEF RunnerWorks
<1>20. ASSUME NEW n \in Names, RecoveryWorks(n) PROVE (TrackedContainerIsServed /\ SpawnIsServed)'
  BY <1>20 DEF RecoveryWorks, recovers
<1>21. ASSUME NEW n \in Names, ContainerExits(n) PROVE (TrackedContainerIsServed /\ SpawnIsServed)'
  BY <1>21 DEF ContainerExits, recovers
<1>22. CASE HostStops
  BY <1>22 DEF HostStops
<1>23. CASE HostStarts
  BY <1>23 DEF HostStarts
<1>24. CASE UNCHANGED vars
  BY <1>24 DEF vars, runtimeVars, diskVars, hostVars
<1>25. ASSUME NEW s \in Sessions, WatcherFails(s) PROVE (TrackedContainerIsServed /\ SpawnIsServed)'
  BY <1>25 DEF WatcherFails, StopServer
<1> QED
  BY <1>1, <1>2, <1>3, <1>4, <1>5, <1>6, <1>7, <1>8, <1>9, <1>10, <1>11, <1>12, <1>13, <1>14, <1>15, <1>16, <1>17, <1>18, <1>19, <1>20, <1>21, <1>22, <1>23, <1>24, <1>25 DEF Next, HostStep

LEMMA ContainerStep ==
  ASSUME TypeOK, EveryContainerIsTracked, Exclusive, DownIsEmpty, [Next]_vars
  PROVE  FewerOrOneBegins
<1>1. ASSUME NEW s \in Sessions, Wake(s) \/ EvictionWaited(s) PROVE Fewer
  <2>1. UNCHANGED container \/ \E v \in Sessions : container' = [container EXCEPT ![active[v].name] = Gone]
    BY <1>1 DEF Wake, EvictionWaited, AdmitRound, AdmitUpTo, killContainer, Stopped
  <2> QED
    BY <2>1, OneEnds
<1>2. ASSUME NEW s \in Sessions, KillStuck(s) \/ Restart(s) \/ RemoveSession(s) \/ RecoveryTimeout(s)
      PROVE  Fewer
  <2>1. UNCHANGED container \/ container' = [container EXCEPT ![active[s].name] = Gone]
    BY <1>2 DEF KillStuck, Restart, RemoveSession, RecoveryTimeout, StopAttempt, killContainer, Stopped
  <2> QED
    BY <2>1, OneEnds
<1>3. ASSUME NEW n \in Names, RecoveryWorks(n) \/ ContainerExits(n) PROVE Fewer
  BY <1>3, OneEnds DEF RecoveryWorks, ContainerExits
<1>4. ASSUME NEW s \in Sessions, DockerRunCreates(s) PROVE \E n \in Names : Begin(s, n, "agent")
  <2>1. PICK n \in Names : Fresh(n) /\ container' = [container EXCEPT ![n] = newContainer(s, "agent")]
    BY <1>4 DEF DockerRunCreates, NewName
  <2>2. wake[s].stage = "launching" /\ waking(s)
    BY <1>4 DEF DockerRunCreates, waking
  <2>3. hostUp /\ ~isContainerRunning(s)
    BY <2>2 DEF DownIsEmpty, Exclusive
  <2> QED
    BY <2>1, <2>2, <2>3, UnknownHasNone DEF Begin, Fresh
<1>5. ASSUME NEW s \in Sessions, RecoverySpawn(s) PROVE Fewer \/ \E n \in Names : Begin(s, n, "recovery")
  <2>1. PICK n \in Names :
          /\ Fresh(n)
          /\ \/ container' = [container EXCEPT ![n] = newContainer(s, "recovery")]
             \/ UNCHANGED container
    BY <1>5 DEF RecoverySpawn, NewName
  <2>2. recovery[s] = "setup"
    BY <1>5 DEF RecoverySpawn
  <2>3. hostUp /\ ~isContainerRunning(s) /\ wake[s].stage # "created"
    BY <2>2 DEF DownIsEmpty, Exclusive, waking
  <2> QED
    BY <2>1, <2>3, UnknownHasNone, OneEnds DEF Begin, Fresh
<1>6. ASSUME HostStarts PROVE Fewer
  <2>1. PICK upgraded \in BOOLEAN, adopted \in SUBSET Names, left \in SUBSET Names :
           /\ \A n \in adopted \cup left : container[n] # Gone
           /\ Reconciled(adopted, left, upgraded)
    BY <1>6, RestartAdopts
  <2> QED
    BY <2>1, ReconciledKeeps
<1>7. ASSUME NEW s \in Sessions, WatcherFails(s) PROVE Fewer
  BY <1>7, WatcherLoses
<1>8. ASSUME NEW s \in Sessions,
             \/ SpawnSetup(s) \/ SpawnThrows(s) \/ DockerRunFails(s) \/ AttachWatcher(s)
             \/ WatcherClosed(s) \/ RecoverStopped(s) \/ RecoveryThrows(s) \/ RecoveryClosed(s)
             \/ Inbound(s) \/ GracePasses(s)
      PROVE  UNCHANGED container
  BY <1>8 DEF SpawnSetup, SpawnThrows, DockerRunFails, AttachWatcher, WatcherClosed,
       RecoverStopped, RecoveryThrows, RecoveryClosed, Inbound, GracePasses, runtimeVars
<1>9. CASE HostStops \/ (\E n \in Names : RunnerWorks(n)) \/ UNCHANGED vars
  BY <1>9, OneEnds DEF HostStops, RunnerWorks, vars, runtimeVars, FewerOrOneBegins
<1>10. UNCHANGED container => Fewer
  BY OneEnds
<1> QED
  BY <1>1, <1>2, <1>3, <1>4, <1>5, <1>6, <1>7, <1>8, <1>9, <1>10 DEF Next, HostStep, FewerOrOneBegins

\* A container starts only where the maps, which know every container held, show none.
LEMMA WriterStep ==
  ASSUME TypeOK, SingleWriter, EveryContainerIsTracked, Exclusive, DownIsEmpty, [Next]_vars
  PROVE  SingleWriter'
<1>1. CASE Fewer
  <2>1. ASSUME NEW n \in Names, container'[n] # Gone /\ ~container'[n].lost
        PROVE  container'[n] = container[n]
    BY <1>1, <2>1 DEF Fewer
  <2> QED
    BY <2>1 DEF SingleWriter, held, runs
<1>2. ASSUME NEW s \in Sessions, NEW n \in Names, NEW k \in {"agent", "recovery"}, Begin(s, n, k)
      PROVE  SingleWriter'
  <2>1. container'[n] = newContainer(s, k) /\ newContainer(s, k).session = s
    BY <1>2, NewContainer DEF Begin, TypeOK
  <2>2. \A m \in Names \ {n} : container'[m] = container[m]
    BY <1>2 DEF Begin, TypeOK
  <2> QED
    BY <1>2, <2>1, <2>2 DEF Begin, SingleWriter, held, runs
<1> QED
  BY <1>1, <1>2, ContainerStep DEF FewerOrOneBegins

-----------------------------------------------------------------------------
\* The inductive invariant holds in every reachable state.
THEOREM IInvAlways == Spec => []IInv
<1>1. Init => IInv
  BY InitIInv
<1>2. IInv /\ [Next]_vars => IInv'
  <2> SUFFICES ASSUME IInv, [Next]_vars PROVE IInv'
    OBVIOUS
  <2>1. TypeOK'
    BY TypeStep DEF IInv
  <2>2. (Exclusive /\ EndedRecoveryIsGone /\ DownIsEmpty)'
    BY <2>1, MapsStep DEF IInv
  <2>3. EveryContainerIsTracked'
    BY <2>1, TrackedStep DEF IInv
  <2>4. (TrackedContainerIsServed /\ SpawnIsServed)'
    BY <2>1, ServedStep DEF IInv
  <2>5. SingleWriter'
    BY <2>1, WriterStep DEF IInv
  <2> QED
    BY <2>1, <2>2, <2>3, <2>4, <2>5 DEF IInv
<1> QED
  BY <1>1, <1>2, PTL DEF Spec

\* Every variable keeps its type.
THEOREM TypeOKAlways == Spec => []TypeOK
<1>1. IInv => TypeOK
  BY DEF IInv
<1> QED
  BY <1>1, IInvAlways, PTL

\* wakeContainer, recoverStoppedSession, the exit handlers and adoption never
\* start a container of a session while another that was not lost runs.
THEOREM SingleWriterAlways == Spec => []SingleWriter
<1>1. IInv => SingleWriter
  BY DEF IInv
<1> QED
  BY <1>1, IInvAlways, PTL

\* No container that was not lost escapes activeContainers, except while its
\* watcher is being attached, also across host restarts.
THEOREM EveryContainerIsTrackedAlways == Spec => []EveryContainerIsTracked
<1>1. IInv => EveryContainerIsTracked
  BY DEF IInv
<1> QED
  BY <1>1, IInvAlways, PTL

\* The link server of a tracked container is never stopped by the cleanup of
\* an earlier one.
THEOREM TrackedContainerIsServedAlways == Spec => []TrackedContainerIsServed
<1>1. IInv => TrackedContainerIsServed
  BY DEF IInv
<1> QED
  BY <1>1, IInvAlways, PTL

\* A container is lost by a command of the runtime that fails, never by the
\* host's own steps: SingleWriter and EveryContainerIsTracked speak of all others.
THEOREM LosingIsAFault == Spec => LostOnlyByFault
<1> DEFINE Loses(n) == /\ container[n] # Gone /\ ~container[n].lost
                       /\ container'[n] # Gone /\ container'[n].lost
           Replaced(n) == \E m \in Names \ {n} : /\ container[m] # Gone /\ container[m].lost
                                                /\ container[m].session = container[n].session
<1>1. IInv /\ [Next]_vars =>
        [\A n \in Names :
           /\ container[n] # Gone /\ ~container[n].lost
           /\ container'[n] # Gone /\ container'[n].lost
           => \/ faults' = faults + 1
              \/ \E m \in Names \ {n} : /\ container[m] # Gone /\ container[m].lost
                                       /\ container[m].session = container[n].session]_vars
  <2> SUFFICES ASSUME IInv, Next, NEW n \in Names, Loses(n), faults' # faults + 1 PROVE Replaced(n)
    OBVIOUS
  <2>1. TypeOK /\ SingleWriter
    BY DEF IInv
  <2>2. ASSUME NEW s \in Sessions, WatcherFails(s) PROVE FALSE
    BY <2>2 DEF WatcherFails, fault
  <2>3. ASSUME HostStarts PROVE Replaced(n)
    <3>1. PICK upgraded \in BOOLEAN, adopted \in SUBSET Names, left \in SUBSET Names :
            /\ OneEach(adopted, adoptable(upgraded)) /\ left = adoptable(upgraded) \ adopted
            /\ Reconciled(adopted, left, upgraded)
      BY <2>3 DEF HostStarts, fault
    <3>2. n \in left
      BY <3>1 DEF Reconciled
    <3>3. PICK m \in adopted : container[m].session = container[n].session
      BY <3>1, <3>2 DEF OneEach
    <3>4. m \in Names \ {n} /\ container[m] # Gone
      BY <3>1, <3>2, <3>3 DEF OneEach, adoptable
    <3>5. container[n].session \in Sessions
      BY <2>1 DEF TypeOK, Container
    <3>6. container[m].lost
      BY <2>1, <3>3, <3>4, <3>5 DEF SingleWriter, held, runs
    <3> QED
      BY <3>3, <3>4, <3>6
  <2>4. ASSUME NEW s \in Sessions, NEW k \in {"agent", "recovery"}, NEW m \in Names,
               container' = [container EXCEPT ![m] = newContainer(s, k)]
        PROVE  FALSE
    BY <2>1, <2>4, NewContainer DEF TypeOK
  <2>5. ASSUME NEW s \in Sessions, DockerRunCreates(s) \/ RecoverySpawn(s) PROVE FALSE
    <3>1. \/ UNCHANGED container
          \/ \E m \in Names, k \in {"agent", "recovery"} : container' = [container EXCEPT ![m] = newContainer(s, k)]
      BY <2>5 DEF DockerRunCreates, RecoverySpawn
    <3> QED
      BY <2>4, <3>1
  <2>6. ASSUME NEW x, container' = [container EXCEPT ![x] = Gone] \/ UNCHANGED container PROVE FALSE
    BY <2>1, <2>6 DEF TypeOK
  <2>7. ASSUME NEW s \in Sessions, Wake(s) \/ EvictionWaited(s) PROVE FALSE
    <3>1. UNCHANGED container \/ \E v \in Sessions : container' = [container EXCEPT ![active[v].name] = Gone]
      BY <2>7 DEF Wake, EvictionWaited, AdmitRound, AdmitUpTo, killContainer, Stopped
    <3> QED
      BY <2>6, <3>1
  <2>8. ASSUME NEW s \in Sessions,
               \/ KillStuck(s) \/ Restart(s) \/ RemoveSession(s) \/ RecoveryTimeout(s)
               \/ SpawnSetup(s) \/ SpawnThrows(s) \/ DockerRunFails(s) \/ AttachWatcher(s)
               \/ WatcherClosed(s) \/ RecoverStopped(s) \/ RecoveryThrows(s) \/ RecoveryClosed(s)
               \/ Inbound(s) \/ GracePasses(s)
        PROVE  FALSE
    <3>1. UNCHANGED container \/ container' = [container EXCEPT ![active[s].name] = Gone]
      BY <2>8 DEF KillStuck, Restart, RemoveSession, RecoveryTimeout, StopAttempt, killContainer, Stopped,
           SpawnSetup, SpawnThrows, DockerRunFails, AttachWatcher, WatcherClosed,
           RecoverStopped, RecoveryThrows, RecoveryClosed, Inbound, GracePasses, runtimeVars
    <3> QED
      BY <2>6, <3>1
  <2>9. ASSUME HostStops \/ \E m \in Names : RunnerWorks(m) \/ RecoveryWorks(m) \/ ContainerExits(m)
        PROVE  FALSE
    <3>1. UNCHANGED container \/ \E m \in Names : container' = [container EXCEPT ![m] = Gone]
      BY <2>9 DEF HostStops, RunnerWorks, RecoveryWorks, ContainerExits, runtimeVars
    <3> QED
      BY <2>6, <3>1
  <2> QED
    BY <2>2, <2>3, <2>5, <2>7, <2>8, <2>9 DEF Next, HostStep
<1> QED
  BY <1>1, IInvAlways, PTL DEF Spec, LostOnlyByFault

-----------------------------------------------------------------------------
(* Refinement: the containers of a session take turns. *)

LEMMA FewerStops ==
  ASSUME TypeOK, SingleWriter, Fewer
  PROVE  \E S \in SUBSET Sessions : Writer!Stop(S)
<1> DEFINE S == {s \in Sessions : \A n \in Names : ~held(s, n)'}
<1>1. ASSUME NEW s \in S PROVE Running'[s] = {}
  BY <1>1 DEF Running
<1>2. ASSUME NEW s \in Sessions \ S PROVE Running'[s] = Running[s]
  <2>1. \A n \in Names : held(s, n)' => held(s, n) /\ container'[n] = container[n]
    BY DEF Fewer, held, runs
  <2>2. \A n, m \in Names : held(s, n) /\ held(s, m) => n = m
    BY DEF SingleWriter
  <2>3. \A n \in Names : held(s, n)' <=> held(s, n)
    BY <1>2, <2>1, <2>2
  <2>4. \A n \in Names : held(s, n) => container'[n] = container[n]
    BY <2>1, <2>3
  <2> QED
    BY <2>3, <2>4 DEF Running
<1>3. Running' = [s \in Sessions |-> IF s \in S THEN {} ELSE Running[s]]
  <2>1. \A s \in Sessions : Running'[s] = IF s \in S THEN {} ELSE Running[s]
    BY <1>1, <1>2
  <2> HIDE DEF S
  <2>2. Running' = [s \in Sessions |-> Running'[s]]
    BY DEF Running
  <2> QED
    BY <2>1, <2>2
<1>4. Writer!Stop(S)
  BY <1>3 DEF Writer!Stop
<1> QED
  BY <1>4

LEMMA OneBeginStarts ==
  ASSUME TypeOK, NEW s \in Sessions, NEW n \in Names, NEW k \in {"agent", "recovery"}, Begin(s, n, k)
  PROVE  Writer!Start(s, [name |-> n, kind |-> k])
<1> DEFINE c == newContainer(s, k)
<1>1. container'[n] = c /\ c # Gone /\ c.session = s /\ c.kind = k /\ ~c.lost
  BY NewContainer DEF Begin, TypeOK
<1>2. \A m \in Names \ {n} : container'[m] = container[m]
  BY DEF Begin, TypeOK
<1>3. \A m \in Names : ~held(s, m)
  BY DEF Begin, held, runs
<1>4. Running[s] = {}
  BY <1>3 DEF Running
<1>5. \A m \in Names : held(s, m)' <=> m = n
  BY <1>1, <1>2, <1>3 DEF held, runs
<1>6. Running'[s] = {[name |-> n, kind |-> k]}
  <2> HIDE DEF c
  <2>1. {m \in Names : held(s, m)'} = {n}
    BY <1>5
  <2>2. Running'[s] = {[name |-> m, kind |-> container'[m].kind] : m \in {m \in Names : held(s, m)'}}
    BY DEF Running
  <2> QED
    BY <1>1, <2>1, <2>2
<1>7. ASSUME NEW t \in Sessions \ {s} PROVE Running'[t] = Running[t]
  <2>1. \A m \in Names : held(t, m)' <=> held(t, m)
    BY <1>1, <1>2 DEF held, runs, Begin
  <2>2. \A m \in Names : held(t, m) => container'[m] = container[m]
    BY <1>2 DEF held, runs, Begin
  <2> QED
    BY <2>1, <2>2 DEF Running
<1>8. Running' = [Running EXCEPT ![s] = {[name |-> n, kind |-> k]}]
  <2>1. /\ Running' = [t \in Sessions |-> Running'[t]]
        /\ DOMAIN Running = Sessions
    BY DEF Running
  <2> QED
    BY <1>6, <1>7, <2>1
<1> QED
  BY <1>4, <1>8 DEF Writer!Start

\* The containers of a session take turns: SessionWriter is what remains of
\* wakes, evictions, kills, recoveries, exits and host restarts when only the
\* containers that are held are watched.
THEOREM TakingTurns == Spec => ContainersTakeTurns
<1>1. Init => Writer!Init
  <2> SUFFICES ASSUME Init PROVE Running = [s \in Sessions |-> {}]
    BY DEF Writer!Init
  <2>1. \A s \in Sessions, n \in Names : ~held(s, n)
    BY DEF Init, held, runs
  <2> QED
    BY <2>1 DEF Running
<1>2. IInv /\ [Next]_vars => [Writer!Next]_Running
  <2> SUFFICES ASSUME IInv, [Next]_vars PROVE Writer!Next
    OBVIOUS
  <2>1. TypeOK /\ SingleWriter /\ EveryContainerIsTracked /\ Exclusive /\ DownIsEmpty
    BY DEF IInv
  <2>2. FewerOrOneBegins
    BY <2>1, ContainerStep
  <2>3. CASE Fewer
    BY <2>1, <2>3, FewerStops DEF Writer!Next
  <2>4. ASSUME NEW s \in Sessions, NEW n \in Names, NEW k \in {"agent", "recovery"}, Begin(s, n, k)
        PROVE  Writer!Next
    <3>1. Writer!Start(s, [name |-> n, kind |-> k])
      BY <2>1, <2>4, OneBeginStarts
    <3>2. [name |-> n, kind |-> k] \in [name: Names, kind: {"agent", "recovery"}]
      OBVIOUS
    <3> QED
      BY <3>1, <3>2 DEF Writer!Next
  <2> QED
    BY <2>2, <2>3, <2>4 DEF FewerOrOneBegins
<1> QED
  BY <1>1, <1>2, IInvAlways, PTL DEF Spec, ContainersTakeTurns, Writer!Spec
=============================================================================
