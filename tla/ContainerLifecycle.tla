------------------------- MODULE ContainerLifecycle -------------------------
(***************************************************************************)
(* Which container may run for a session: wake, admission, eviction,       *)
(* recovery, exit, kill and adoption in src/container-runner.ts, with the  *)
(* memory budget of src/container-admission.ts, the startup reconciliation *)
(* of src/container-runtime.ts and the calls src/host-sweep.ts makes.      *)
(*                                                                         *)
(* The host is one event loop: an action is the code between two awaits or *)
(* callbacks, and any number of calls for different sessions are in flight *)
(* at once.  Containers belong to the container runtime and outlive it.    *)
(*                                                                         *)
(* Simplifications:                                                        *)
(*  - a container name is drawn from Names and may be used again once its  *)
(*    container is gone (the code makes each unique with a timestamp);     *)
(*  - Wake is offered in every state: the router, the UI, the exit         *)
(*    callbacks and the sweep all call it and its own guards decide;       *)
(*  - the sessions' tables are reduced to "work": nothing due, a due       *)
(*    message, or a message the runner claimed and has not answered;       *)
(*  - a container that outlived its session keeps its own estimate (the    *)
(*    code charges the dearest configuration);                             *)
(*  - a `docker run` client ends with its container and fails only without *)
(*    one; one in flight when the host stops has created its container by  *)
(*    then or never will;                                                  *)
(*  - "lost" is history: it marks what a host once left running without a  *)
(*    record of it, and nothing in the code reads it.                      *)
(***************************************************************************)
EXTENDS Naturals, FiniteSets
LOCAL INSTANCE FiniteSetsExt

CONSTANTS
  Sessions,       \* sessions
  Names,          \* container names
  Gone,           \* value of a name without a container
  NoEntry,        \* a session missing from activeContainers
  Est,            \* estimateAgentGroupMb of each session's group
  Budget,         \* memoryBudgetMb(); 0 turns admission off
  MaxEvictRounds, \* MAX_EVICT_ROUNDS
  MaxArrivals,    \* bound on inbound messages
  MaxFaults       \* bound on crashes, failed commands, hangs and restarts

ASSUME NullAssumption ==
  /\ Gone \notin [session: Sessions, kind: {"agent", "recovery"}, current: BOOLEAN, lost: BOOLEAN]
  /\ NoEntry \notin [name: Names, recovering: BOOLEAN]
ASSUME EstAssumption == Est \in [Sessions -> Nat \ {0}] /\ Budget \in Nat
ASSUME LimitAssumption == MaxEvictRounds \in Nat /\ MaxArrivals \in Nat /\ MaxFaults \in Nat

VARIABLES
  container,  \* the runtime: what runs under each name
  live,       \* central DB: sessions that exist and are active
  status,     \* central DB: sessions.container_status
  work,       \* session DBs: "none", "due" or "claimed"
  hostUp,     \* the host process runs
  active,     \* activeContainers
  wake,       \* wakePromises, with the await each call is in
  recovery,   \* recoveryPromises, with the await each call is in
  server,     \* sessions whose session-link server listens
  quiet,      \* sessions without a signal within IDLE_EVICT_GRACE_MS
  arrivals, faults

runtimeVars == <<container>>
diskVars == <<live, status, work>>
hostVars == <<hostUp, active, wake, recovery, server, quiet>>
vars == <<runtimeVars, diskVars, hostVars, arrivals, faults>>

-----------------------------------------------------------------------------
\* "current": its label names this host's SESSION_LINK_VERSION.
Container == [session: Sessions, kind: {"agent", "recovery"}, current: BOOLEAN, lost: BOOLEAN]
newContainer(s, k) == [session |-> s, kind |-> k, current |-> TRUE, lost |-> FALSE]
Entry == [name: Names, recovering: BOOLEAN]

\* A settled wake is "idle" again, whatever its promise resolved to.
Settled == [stage: {"idle"}]
Evicting == [stage: {"evicting"}, victim: Sessions, round: 0 .. MaxEvictRounds]
Spawning == [stage: {"setup", "launching"}] \cup [stage: {"created"}, name: Names]
RecoveryStage == {"none", "setup", "running", "ok", "failed", "stopFailed"}

TypeOK ==
  /\ container \in [Names -> Container \cup {Gone}]
  /\ live \in SUBSET Sessions
  /\ status \in [Sessions -> {"running", "stopped"}]
  /\ work \in [Sessions -> {"none", "due", "claimed"}]
  /\ hostUp \in BOOLEAN
  /\ active \in [Sessions -> Entry \cup {NoEntry}]
  /\ wake \in [Sessions -> Settled \cup Evicting \cup Spawning]
  /\ recovery \in [Sessions -> RecoveryStage]
  /\ server \in SUBSET Sessions
  /\ quiet \in SUBSET Sessions
  /\ arrivals \in Nat /\ faults \in Nat

Init ==
  /\ container = [n \in Names |-> Gone]
  /\ live = Sessions
  /\ status = [s \in Sessions |-> "stopped"]
  /\ work = [s \in Sessions |-> "none"]
  /\ hostUp = TRUE
  /\ active = [s \in Sessions |-> NoEntry]
  /\ wake = [s \in Sessions |-> [stage |-> "idle"]]
  /\ recovery = [s \in Sessions |-> "none"]
  /\ server = {}
  /\ quiet = Sessions
  /\ arrivals = 0 /\ faults = 0

-----------------------------------------------------------------------------
isContainerRunning(s) == active[s] # NoEntry
waking(s) == wake[s].stage # "idle"
runs(s, n) == container[n] # Gone /\ container[n].session = s
held(s, n) == runs(s, n) /\ ~container[n].lost
recovers(s, n) == recovery[s] = "running" /\ active[s].name = n
fault == faults < MaxFaults /\ faults' = faults + 1

\* A name no container has and no host record still refers to.
Fresh(n) ==
  /\ container[n] = Gone
  /\ \A s \in Sessions : /\ isContainerRunning(s) => active[s].name # n
                         /\ wake[s].stage = "created" => wake[s].name # n

\* The name of a new container: any fresh one is as good as another.
NewName(n) == Fresh(n) /\ n = CHOOSE m \in Names : Fresh(m)

needsStoppedRunnerRecovery(s) == status[s] = "running" \/ work[s] = "claimed"

\* stopSessionSignalServer(s, clearState = true): without state there is no
\* last signal, which admission reads as quiet.
StopServer(s) == server' = server \ {s} /\ quiet' = quiet \cup {s}

\* killContainer: `docker stop`, then `docker kill` when it throws; both may fail.
Stopped(s) ==
  /\ container' = [container EXCEPT ![active[s].name] = Gone]
  /\ recovery' = [recovery EXCEPT ![s] = IF @ = "running" THEN "failed" ELSE @]
StopAttempt(s) == Stopped(s) \/ UNCHANGED <<container, recovery>>
killContainer(s) ==
  \/ Stopped(s) /\ UNCHANGED faults
  \/ container[active[s].name] # Gone /\ fault /\ UNCHANGED <<container, recovery>>

-----------------------------------------------------------------------------
(* Admission. *)

tracked(s) == {v \in Sessions \ {s} : isContainerRunning(v)}
usedMb(s) == MapThenSumSet(LAMBDA v : Est[v], tracked(s))
\* Mutant of idle: the grace period is compared the wrong way round.
IdleWithinGrace(s) == {v \in tracked(s) : v \in live /\ v \notin quiet /\ work[v] = "none"}
idle(s) == {v \in tracked(s) : v \in live /\ v \in quiet /\ work[v] = "none"}

\* decideAdmission: exactly one of the three holds in every state.
admits(s) == Budget = 0 \/ usedMb(s) + Est[s] <= Budget \/ tracked(s) = {}
evicts(s, v) == ~admits(s) /\ v \in idle(s)
rejects(s) == ~admits(s) /\ idle(s) = {}

\* One turn of admitThenSpawn's loop; past the last round it spawns anyway.
\* Which idle container is the least recently active one is left open.
AdmitUpTo(s, round, last) ==
  \/ /\ round > last \/ admits(s)
     /\ wake' = [wake EXCEPT ![s] = [stage |-> "setup"]]
     /\ UNCHANGED <<container, recovery, faults>>
  \/ \E v \in Sessions :
       /\ round <= last /\ evicts(s, v)
       /\ IF active[v].recovering
          THEN /\ wake' = [wake EXCEPT ![s] = [stage |-> "idle"]]
               /\ UNCHANGED <<container, recovery, faults>>
          ELSE /\ wake' = [wake EXCEPT ![s] = [stage |-> "evicting", victim |-> v, round |-> round]]
               /\ killContainer(v)
  \/ /\ round <= last /\ rejects(s)
     /\ wake' = [wake EXCEPT ![s] = [stage |-> "idle"]]
     /\ UNCHANGED <<container, recovery, faults>>

\* Mutant of AdmitRound: the loop runs once more.
AdmitRoundOnceMore(s, round) == AdmitUpTo(s, round, MaxEvictRounds + 1)
AdmitRound(s, round) == AdmitUpTo(s, round, MaxEvictRounds)

\* Mutant of Wake: the wake in flight is not joined.
WakeWithoutJoin(s) ==
  /\ hostUp /\ s \in live
  /\ recovery[s] = "none" /\ ~isContainerRunning(s)
  /\ AdmitRound(s, 0)
  /\ UNCHANGED <<diskVars, hostUp, active, server, quiet, arrivals>>

\* wakeContainer.  A call that finds a recovery, an entry or another wake
\* joins it and changes nothing.
Wake(s) ==
  /\ hostUp /\ s \in live
  /\ recovery[s] = "none" /\ ~isContainerRunning(s) /\ ~waking(s)
  /\ AdmitRound(s, 0)
  /\ UNCHANGED <<diskVars, hostUp, active, server, quiet, arrivals>>

\* The wait for the victim's exit ends, by the exit or after 8 seconds.
EvictionWaited(s) ==
  /\ wake[s].stage = "evicting"
  /\ AdmitRound(s, wake[s].round + 1)
  /\ UNCHANGED <<diskVars, hostUp, active, server, quiet, arrivals>>

-----------------------------------------------------------------------------
(* Spawning. *)

\* spawnContainer up to the start of `docker run -d`.
SpawnSetup(s) ==
  /\ wake[s].stage = "setup"
  /\ wake' = [wake EXCEPT ![s] = [stage |-> "launching"]]
  /\ server' = server \cup {s}
  /\ UNCHANGED <<runtimeVars, diskVars, hostUp, active, recovery, quiet, arrivals, faults>>

\* An await of spawnContainer throws; wakeContainer catches.
SpawnThrows(s) ==
  /\ wake[s].stage \in {"setup", "launching"}
  /\ fault
  /\ wake' = [wake EXCEPT ![s] = [stage |-> "idle"]]
  /\ StopServer(s)
  /\ UNCHANGED <<runtimeVars, diskVars, hostUp, active, recovery, arrivals>>

\* The runtime creates the container.
DockerRunCreates(s) ==
  /\ wake[s].stage = "launching"
  /\ \E n \in Names :
       /\ NewName(n)
       /\ container' = [container EXCEPT ![n] = newContainer(s, "agent")]
       /\ wake' = [wake EXCEPT ![s] = [stage |-> "created", name |-> n]]
  /\ UNCHANGED <<diskVars, hostUp, active, recovery, server, quiet, arrivals, faults>>

\* `docker run` exits non-zero: spawnContainer cleans up and returns.
DockerRunFails(s) ==
  /\ wake[s].stage = "launching"
  /\ fault
  /\ wake' = [wake EXCEPT ![s] = [stage |-> "idle"]]
  /\ status' = [status EXCEPT ![s] = "stopped"]
  /\ StopServer(s)
  /\ UNCHANGED <<runtimeVars, live, work, hostUp, active, recovery, arrivals>>

\* `docker run` exits zero: attachContainerWatcher.
AttachWatcher(s) ==
  /\ wake[s].stage = "created"
  /\ active' = [active EXCEPT ![s] = [name |-> wake[s].name, recovering |-> FALSE]]
  /\ status' = [status EXCEPT ![s] = "running"]
  /\ wake' = [wake EXCEPT ![s] = [stage |-> "idle"]]
  /\ UNCHANGED <<runtimeVars, live, work, hostUp, recovery, server, quiet, arrivals, faults>>

\* The watcher's 'close' event, its container gone.
WatcherClosed(s) ==
  /\ isContainerRunning(s) /\ ~active[s].recovering
  /\ container[active[s].name] = Gone
  /\ active' = [active EXCEPT ![s] = NoEntry]
  /\ status' = [status EXCEPT ![s] = "stopped"]
  /\ StopServer(s)
  /\ UNCHANGED <<runtimeVars, live, work, hostUp, wake, recovery, arrivals, faults>>

\* `docker wait` cannot be started, or ends without its container: the entry
\* goes ('error', or 'close' with another code than 0) and the container stays.
WatcherFails(s) ==
  /\ isContainerRunning(s) /\ ~active[s].recovering
  /\ container[active[s].name] # Gone
  /\ fault
  /\ container' = [container EXCEPT ![active[s].name].lost = TRUE]
  /\ active' = [active EXCEPT ![s] = NoEntry]
  /\ status' = [status EXCEPT ![s] = "stopped"]
  /\ StopServer(s)
  /\ UNCHANGED <<live, work, hostUp, wake, recovery, arrivals>>

-----------------------------------------------------------------------------
(* Recovery of a stopped runner's journal. *)

\* sweepSession finds no container and something to recover.
RecoverStopped(s) ==
  /\ hostUp /\ s \in live
  /\ needsStoppedRunnerRecovery(s)
  /\ recovery[s] = "none" /\ ~isContainerRunning(s) /\ ~waking(s)
  /\ recovery' = [recovery EXCEPT ![s] = "setup"]
  /\ UNCHANGED <<runtimeVars, diskVars, hostUp, active, wake, server, quiet, arrivals, faults>>

\* The link server listens; `docker run -i` is started and the entry set.
\* The runtime may still refuse to create the container.
RecoverySpawn(s) ==
  /\ recovery[s] = "setup"
  /\ server' = server \cup {s}
  /\ \E n \in Names :
       /\ NewName(n)
       /\ active' = [active EXCEPT ![s] = [name |-> n, recovering |-> TRUE]]
       /\ \/ /\ container' = [container EXCEPT ![n] = newContainer(s, "recovery")]
             /\ recovery' = [recovery EXCEPT ![s] = "running"]
             /\ UNCHANGED faults
          \/ /\ fault
             /\ recovery' = [recovery EXCEPT ![s] = "failed"]
             /\ UNCHANGED container
  /\ UNCHANGED <<diskVars, hostUp, wake, quiet, arrivals>>

\* startSessionSignalServer or buildContainerArgs throws; a server that came
\* up before the throw is left listening.
RecoveryThrows(s) ==
  /\ recovery[s] = "setup"
  /\ fault
  /\ recovery' = [recovery EXCEPT ![s] = "none"]
  /\ server' \in {server, server \cup {s}}
  /\ UNCHANGED <<runtimeVars, diskVars, hostUp, active, wake, quiet, arrivals>>

\* The 45 s timer.  A container that just exited cannot be stopped either:
\* `docker stop` throws for an unknown name.
RecoveryTimeout(s) ==
  /\ recovery[s] \in {"running", "ok", "failed"}
  /\ IF container[active[s].name] = Gone
     THEN recovery' = [recovery EXCEPT ![s] = "stopFailed"] /\ UNCHANGED <<container, faults>>
     ELSE /\ fault
          /\ \/ Stopped(s)
             \/ recovery' = [recovery EXCEPT ![s] = "stopFailed"] /\ UNCHANGED container
  /\ UNCHANGED <<diskVars, hostUp, active, wake, server, quiet, arrivals>>

\* Mutant of RecoveryClosed: the finally block stops the server in every case.
RecoveryClosedStopsServer(s) ==
  /\ recovery[s] \in {"ok", "failed", "stopFailed"}
  /\ recovery' = [recovery EXCEPT ![s] = "none"]
  /\ IF recovery[s] = "stopFailed"
     THEN UNCHANGED <<active, status>>
     ELSE /\ active' = [active EXCEPT ![s] = NoEntry]
          /\ status' = [status EXCEPT ![s] = "stopped"]
  /\ StopServer(s)
  /\ UNCHANGED <<runtimeVars, live, work, hostUp, wake, arrivals, faults>>

\* The `docker run -i` client ends.  When the stop failed the entry stays, and
\* with it the session is locked, whether or not the container is gone.
RecoveryClosed(s) ==
  /\ recovery[s] \in {"ok", "failed", "stopFailed"}
  /\ recovery' = [recovery EXCEPT ![s] = "none"]
  /\ IF recovery[s] = "stopFailed"
     THEN UNCHANGED <<active, status, server, quiet>>
     ELSE /\ active' = [active EXCEPT ![s] = NoEntry]
          /\ status' = [status EXCEPT ![s] = "stopped"]
          /\ StopServer(s)
  /\ UNCHANGED <<runtimeVars, live, work, hostUp, wake, arrivals, faults>>

-----------------------------------------------------------------------------
(* Stops. *)

\* enforceRunningContainerSla: a silent container is killed and its claims reset.
KillStuck(s) ==
  /\ hostUp /\ s \in live /\ isContainerRunning(s)
  /\ s \in quiet /\ work[s] = "claimed"
  /\ fault
  /\ StopAttempt(s)
  /\ work' = [work EXCEPT ![s] = "due"]
  /\ UNCHANGED <<live, status, hostUp, active, wake, server, quiet, arrivals>>

\* restartAgentGroupContainers: kill now; Wake is the exit callback.
Restart(s) ==
  /\ hostUp /\ s \in live /\ isContainerRunning(s)
  /\ fault
  /\ StopAttempt(s)
  /\ UNCHANGED <<diskVars, hostUp, active, wake, server, quiet, arrivals>>

\* archiveAgentGroup, or a deleted thread: kill what runs, drop the session.
RemoveSession(s) ==
  /\ hostUp /\ s \in live
  /\ IF isContainerRunning(s) THEN killContainer(s) ELSE UNCHANGED <<container, recovery, faults>>
  /\ live' = live \ {s}
  /\ UNCHANGED <<status, work, hostUp, active, wake, server, quiet, arrivals>>

-----------------------------------------------------------------------------
(* The containers, the inbound messages and time. *)

Inbound(s) ==
  /\ hostUp /\ s \in live
  /\ work[s] = "none"
  /\ arrivals < MaxArrivals
  /\ work' = [work EXCEPT ![s] = "due"]
  /\ arrivals' = arrivals + 1
  /\ UNCHANGED <<runtimeVars, live, status, hostVars, faults>>

\* An agent's runner claims the due message and answers it, over the link,
\* which refuses the frames of another version.
RunnerWorks(n) ==
  /\ container[n] # Gone /\ container[n].kind = "agent" /\ container[n].current
  /\ LET s == container[n].session IN
       /\ s \in server
       /\ work[s] # "none"
       /\ work' = [work EXCEPT ![s] = IF @ = "due" THEN "claimed" ELSE "none"]
       /\ quiet' = quiet \ {s}
  /\ UNCHANGED <<runtimeVars, live, status, hostUp, active, wake, recovery, server, arrivals, faults>>

\* recover-main delivers the journal, ends the interrupted turns and exits.
RecoveryWorks(n) ==
  /\ container[n] # Gone /\ container[n].kind = "recovery" /\ container[n].current
  /\ LET s == container[n].session IN
       /\ s \in server
       /\ work' = [work EXCEPT ![s] = IF @ = "claimed" THEN "due" ELSE @]
       /\ recovery' = [recovery EXCEPT ![s] = IF recovers(s, n) THEN "ok" ELSE @]
  /\ container' = [container EXCEPT ![n] = Gone]
  /\ UNCHANGED <<live, status, hostUp, active, wake, server, quiet, arrivals, faults>>

\* A container ends by itself: a crash, an exit for a deferred restart.
ContainerExits(n) ==
  /\ container[n] # Gone
  /\ fault
  /\ container' = [container EXCEPT ![n] = Gone]
  /\ LET s == container[n].session
     IN  recovery' = [recovery EXCEPT ![s] = IF recovers(s, n) THEN "failed" ELSE @]
  /\ UNCHANGED <<diskVars, hostUp, active, wake, server, quiet, arrivals>>

GracePasses(s) ==
  /\ hostUp /\ s \notin quiet
  /\ quiet' = quiet \cup {s}
  /\ UNCHANGED <<runtimeVars, diskVars, hostUp, active, wake, recovery, server, arrivals, faults>>

\* A crash, or shutdown(): the containers go on without a host.
HostStops ==
  /\ hostUp
  /\ fault
  /\ hostUp' = FALSE
  /\ active' = [s \in Sessions |-> NoEntry]
  /\ wake' = [s \in Sessions |-> [stage |-> "idle"]]
  /\ recovery' = [s \in Sessions |-> "none"]
  /\ server' = {}
  /\ quiet' = Sessions
  /\ UNCHANGED <<runtimeVars, diskVars, arrivals>>

\* cleanupOrphans: what runs of this link version for a live session is kept;
\* every other container is stopped, and goes on when its stop throws.  When
\* `docker ps` throws, nothing is kept or stopped.  An upgrade of the host makes
\* every container one of another version.
adoptable(upgraded) ==
  {n \in Names : /\ container[n] # Gone /\ container[n].current
                 /\ ~upgraded /\ container[n].session \in live}
orphans(upgraded) == {n \in Names : container[n] # Gone} \ adoptable(upgraded)

\* The containers after the reconciliation: those in "adopted" are held (or
\* found again), those in "left" run without a record, the others are gone.
Reconciled(adopted, left, upgraded) ==
  container' = [n \in Names |->
    IF n \in adopted THEN container[n]
    ELSE IF n \in left THEN [container[n] EXCEPT !.lost = TRUE, !.current = @ /\ ~upgraded]
    ELSE Gone]

\* adoptRunningContainers takes one container a session; a second is skipped.
OneEach(adopted, kept) ==
  /\ adopted \subseteq kept
  /\ \A n \in kept : \E m \in adopted : container[m].session = container[n].session
  /\ \A n, m \in adopted : container[n].session = container[m].session => n = m

\* Mutant of HostStarts: what cleanupOrphans keeps is not adopted.
HostStartsWithoutAdoption ==
  /\ ~hostUp
  /\ hostUp' = TRUE
  /\ Reconciled(adoptable(FALSE), {}, FALSE)
  /\ UNCHANGED <<live, status, work, active, wake, recovery, server, quiet, arrivals, faults>>

\* main(): cleanupOrphans, then adoptRunningContainers, before anything that
\* could wake a session.
HostStarts ==
  /\ ~hostUp
  /\ hostUp' = TRUE
  /\ \E upgraded \in BOOLEAN, adopted \in SUBSET Names, left \in SUBSET Names :
       LET kept == adoptable(upgraded)
           found == {container[n].session : n \in adopted}
       IN
       /\ \/ /\ OneEach(adopted, kept) /\ left = kept \ adopted
             /\ UNCHANGED faults
          \/ /\ OneEach(adopted, kept) /\ kept \ adopted \subseteq left
             /\ left \ kept # {} /\ left \ kept \subseteq orphans(upgraded)
             /\ left \cap adopted = {}
             /\ fault
          \/ /\ adopted = {} /\ left = kept \cup orphans(upgraded) /\ left # {}
             /\ fault
       /\ Reconciled(adopted, left, upgraded)
       /\ active' \in {a \in [Sessions -> Entry \cup {NoEntry}] : \A s \in Sessions :
                         IF s \in found THEN \E n \in adopted : /\ container[n].session = s
                                                               /\ a[s] = [name |-> n, recovering |-> FALSE]
                                        ELSE a[s] = NoEntry}
       /\ status' = [s \in Sessions |-> IF s \in found THEN "running" ELSE status[s]]
       /\ server' = found
  /\ UNCHANGED <<live, work, wake, recovery, quiet, arrivals>>

-----------------------------------------------------------------------------
HostStep(s) ==
  \/ EvictionWaited(s) \/ SpawnSetup(s) \/ DockerRunCreates(s) \/ AttachWatcher(s)
  \/ WatcherClosed(s) \/ RecoverStopped(s) \/ RecoverySpawn(s) \/ RecoveryClosed(s)

Next ==
  \/ \E s \in Sessions :
       \/ Wake(s) \/ HostStep(s)
       \/ SpawnThrows(s) \/ DockerRunFails(s) \/ WatcherFails(s) \/ RecoveryThrows(s) \/ RecoveryTimeout(s)
       \/ KillStuck(s) \/ Restart(s) \/ RemoveSession(s)
       \/ Inbound(s) \/ GracePasses(s)
  \/ \E n \in Names : RunnerWorks(n) \/ RecoveryWorks(n) \/ ContainerExits(n)
  \/ HostStops \/ HostStarts

Spec == Init /\ [][Next]_vars

\* Fairness: the event loop, the runtime and the 60 s sweep make progress, a
\* connected runner works off its claims and the host is restarted.
\* Nothing makes a fault, a kill, an arrival or an early timer happen.
\* The sweep wakes a session once there is nothing to recover first.
SweepWakes(s) == work[s] = "due" /\ ~needsStoppedRunnerRecovery(s) /\ Wake(s)

FairSpec ==
  /\ Spec
  /\ \A s \in Sessions : /\ WF_vars(SweepWakes(s))
                         /\ WF_vars(HostStep(s))
                         /\ WF_vars(GracePasses(s))
  /\ \A n \in Names : WF_vars(RunnerWorks(n)) /\ WF_vars(RecoveryWorks(n))
  /\ WF_vars(HostStarts)

-----------------------------------------------------------------------------
(* What must hold. *)

\* Of the containers of a session at most one was never lost, agent or
\* recovery, whatever wakes, recoveries, kills and host restarts overlap.
SingleWriter ==
  \A s \in Sessions : \A n, m \in Names : held(s, n) /\ held(s, m) => n = m

\* docs/db.md: "Every SQLite file has exactly one writer."  At most one container
\* of a session runs, since each writes the session's runner state.
OneContainerPerSession ==
  \A n, m \in Names :
    container[n] # Gone /\ container[m] # Gone /\ container[n].session = container[m].session
      => n = m

\* The containers held for each session
Running == [s \in Sessions |->
              {[name |-> n, kind |-> container[n].kind] : n \in {m \in Names : held(s, m)}}]

Writer == INSTANCE SessionWriter WITH
            writers <- Running, Containers <- [name: Names, kind: {"agent", "recovery"}]

\* The containers of a session take turns: a spawn or a recovery gives it one
\* only when the one before is gone or was lost to a failing command of the
\* runtime, however wakes, evictions, failed kills, exits and the reconciliation
\* of a restart overlap.
ContainersTakeTurns == Writer!Spec

\* A live host knows every container there is, but for those a failing
\* command made it lose (the stop of an orphan or the listing at startup, a
\* watcher): it is the session's entry in activeContainers or the one its wake
\* is about to attach a watcher to.  What is in neither can be neither killed
\* nor evicted nor noticed when it exits.
EveryContainerIsTracked ==
  hostUp => \A n \in Names : container[n] # Gone /\ ~container[n].lost =>
    LET s == container[n].session IN
      \/ isContainerRunning(s) /\ active[s].name = n
      \/ wake[s].stage = "created" /\ wake[s].name = n

\* Only a failing command loses a container: otherwise it becomes lost when a
\* restart adopts, in its place, one of its session that was lost before.
LostOnlyByFault ==
  [][\A n \in Names :
       /\ container[n] # Gone /\ ~container[n].lost
       /\ container'[n] # Gone /\ container'[n].lost
       => \/ faults' = faults + 1
          \/ \E m \in Names \ {n} : /\ container[m] # Gone /\ container[m].lost
                                   /\ container[m].session = container[n].session]_vars

\* While a live host tracks a session's container, the link server the runner
\* connects to listens, although the exits, failed spawns and recoveries of
\* earlier containers all take a server down.
TrackedContainerIsServed ==
  hostUp => \A s \in Sessions : isContainerRunning(s) => s \in server

\* A recovery whose stop failed keeps the session's entry until the host restarts.
Locked(s) == isContainerRunning(s) /\ active[s].recovering /\ recovery[s] = "none"

\* A container that outlived its session is never idle to admission; a lost one
\* claims again what a recovery has just released, which keeps the recovery's
\* container in the budget.
Loose(n) == container[n] # Gone /\ (container[n].session \notin live \/ container[n].lost)

\* A due message is claimed by a runner, through deferred admissions, failed
\* spawns, crashes and restarts, unless its session is removed or something
\* nobody ends is in the way: a locked session, a container that outlived its
\* session (its stop failed, or it was still being spawned), or a lost one.
DueMessageIsClaimed ==
  \A s \in Sessions :
    work[s] = "due" ~> \/ work[s] = "claimed" \/ s \notin live
                      \/ \E v \in Sessions : Locked(v)
                      \/ \E n \in Names : Loose(n)

\* src/container-admission.ts: "Admission spends a fixed memory budget".  The
\* agents that run fit the budget, unless a single one does not.
BudgetRespected ==
  LET agents == {s \in Sessions : \E n \in Names : held(s, n) /\ container[n].kind = "agent"}
  IN  MapThenSumSet(LAMBDA s : Est[s], agents) <= Budget \/ Cardinality(agents) <= 1
=============================================================================
