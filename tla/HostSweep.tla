----------------------------- MODULE HostSweep -----------------------------
(***************************************************************************)
(* The sweep of one session (src/host-sweep.ts): it recovers the journal   *)
(* of a stopped runner, copies the runner's acknowledgements into the      *)
(* status of the inbound messages, wakes a container for what is due,      *)
(* kills a container whose claim is too old, and gives the messages of a   *)
(* dead claim another try or fails them.                                   *)
(*                                                                         *)
(* A sweep is started by the 60 s timer and by each batch the runner       *)
(* reports; one runs at a time, and a request that arrives meanwhile makes *)
(* it run again. It gives way to other handlers while it waits for the     *)
(* recovery or for the wake, and else only to a host stop.                 *)
(*                                                                         *)
(* Simplifications:                                                        *)
(*  - time: a back-off may end and a claim may become too old at any time; *)
(*  - the runner claims all it may claim at once and ends a batch as one;  *)
(*    it reads the host's rows as they are (a runner that starts applies   *)
(*    every host event before it polls);                                   *)
(*  - the rows one transaction of the runner journals are one event;       *)
(*  - what ContainerLifecycle says of spawns is not repeated: a wake starts *)
(*    a container or does not;                                             *)
(*  - a turn left open also asks for a recovery; here claims alone do.     *)
(***************************************************************************)
EXTENDS Naturals, Sequences

CONSTANTS
  Msgs,             \* inbound messages that wake the agent
  MaxTries,         \* MAX_TRIES
  MaxCrashes,       \* bound on containers that do not start, go silent or exit
  MaxFaults         \* bound on host stops, throws, and commands that fail

ASSUME BoundsAssumption == MaxTries \in Nat /\ MaxCrashes \in Nat /\ MaxFaults \in Nat

VARIABLES
  \* inbound.db
  status,     \* messages_in.status; "none" before the message arrives
  tries,      \* messages_in.tries
  later,      \* messages whose process_after is in the future
  \* outbound.db
  ack,        \* processing_ack.status as the host has it
  old,        \* claims past the tolerance or the ceiling
  bounced,    \* messages with a failure notice in messages_out
  \* the sweep
  pc,         \* where it is; "idle" when none runs
  dirty,      \* dirtySessionSweeps has the session
  \* the container and its disk
  cont,       \* activeContainers and what its container does
  rack,       \* processing_ack as the runner has it
  journal,    \* pending_runner_events the host has not applied
  \* history
  claims,     \* how often a container claimed each message
  hinted,     \* completions whose batch was reported and whose sweep did not fail
  stranded,   \* claims of a container that docker could not kill
  crashes, uncleared, faults

inbound == <<status, tries, later>>
outbound == <<ack, old, bounced>>
sweep == <<pc, dirty>>
runner == <<rack, journal>>
history == <<claims, hinted, stranded, crashes, uncleared, faults>>
vars == <<inbound, outbound, sweep, cont, runner, history>>

Upsert(M, s) == <<[type |-> "upsert", msgs |-> M, status |-> s]>>
Delete(M) == IF M = {} THEN <<>> ELSE <<[type |-> "delete", msgs |-> M, status |-> "none"]>>
Batch == <<[type |-> "batch", msgs |-> {}, status |-> "none"]>>
Event == [type : {"upsert", "delete", "batch"}, msgs : SUBSET Msgs,
          status : {"processing", "completed", "none"}]

Claimed == {m \in Msgs : ack[m] = "processing"}
Due == {m \in Msgs : status[m] = "pending" /\ m \notin later}

\* isContainerRunning
Running == cont # "off"

-----------------------------------------------------------------------------
Init ==
  /\ status = [m \in Msgs |-> "none"]
  /\ tries = [m \in Msgs |-> 0]
  /\ later = {}
  /\ ack = [m \in Msgs |-> "none"]
  /\ old = {} /\ bounced = {}
  /\ pc = "idle" /\ dirty = FALSE
  /\ cont = "off"
  /\ rack = [m \in Msgs |-> "none"]
  /\ journal = <<>>
  /\ claims = [m \in Msgs |-> 0]
  /\ hinted = {} /\ stranded = {}
  /\ crashes = 0 /\ uncleared = 0 /\ faults = 0

Fault == faults < MaxFaults /\ faults' = faults + 1

(***************************************************************************)
(* What happens around the sweep                                           *)
(***************************************************************************)

\* writeSessionMessage
Arrive(m) ==
  /\ status[m] = "none"
  /\ status' = [status EXCEPT ![m] = "pending"]
  /\ UNCHANGED <<tries, later, outbound, sweep, cont, runner, history>>

\* wakeContainer for a new message, by the router and the like. It joins the
\* sweep's wake and waits for a recovery.
WakeElsewhere ==
  /\ cont = "off" /\ pc # "waking"
  /\ Due # {}
  /\ cont' = "booting"
  /\ UNCHANGED <<inbound, outbound, sweep, runner, history>>

BackoffEnds(m) ==
  /\ m \in later
  /\ later' = later \ {m}
  /\ UNCHANGED <<status, tries, outbound, sweep, cont, runner, history>>

ClaimAges(m) ==
  /\ m \in Claimed \ old
  /\ old' = old \cup {m}
  /\ UNCHANGED <<inbound, ack, bounced, sweep, cont, runner, history>>

\* requestSessionSweep: a sweep that runs is asked to run again.
Request == dirty' = (dirty \/ pc # "idle") /\ pc' = IF pc = "idle" THEN "begin" ELSE pc

\* The host applies the next event of the runner's journal. A stopped
\* container's last events may still be read from the socket. A claim gets
\* the time of its arrival; a batch asks for a sweep.
ApplyEvent ==
  /\ cont \in {"booting", "up", "dead", "recovering"}
  /\ journal # <<>>
  /\ journal' = Tail(journal)
  /\ LET e == Head(journal) IN
       /\ ack' = [m \in Msgs |-> IF m \in e.msgs THEN e.status ELSE ack[m]]
       /\ old' = old \ e.msgs
       /\ \/ e.type # "batch" /\ UNCHANGED <<sweep, hinted>>
          \/ /\ e.type = "batch"
             /\ Request
             /\ hinted' = hinted \cup {m \in Msgs : ack[m] = "completed"}
  /\ UNCHANGED <<inbound, bounced, cont, rack, claims, stranded, crashes, uncleared, faults>>

\* The watcher of a container reports that it has exited.
ExitHandled ==
  /\ cont = "dead"
  /\ cont' = "off"
  /\ UNCHANGED <<inbound, outbound, sweep, runner, history>>

(***************************************************************************)
(* The runner                                                              *)
(***************************************************************************)

\* Mutant of Stale: the claims of the runner before stay.
NothingStale == {}

\* Mutant of Stale: every row of processing_ack goes.
AllRows == {m \in Msgs : rack[m] # "none"}

\* What clearStaleProcessingAcks drops: the claims of the runner before
Stale == {m \in Msgs : rack[m] = "processing"}

Boot ==
  /\ cont = "booting"
  /\ cont' = "up"
  /\ rack' = [m \in Msgs |-> IF m \in Stale THEN "none" ELSE rack[m]]
  /\ journal' = journal \o Delete(Stale)
  /\ stranded' = stranded \ Stale
  /\ UNCHANGED <<inbound, outbound, sweep, claims, hinted, crashes, uncleared, faults>>

\* startInputProcessing of what getPendingMessages returns
Claim ==
  /\ cont = "up"
  /\ LET M == {m \in Due : rack[m] = "none"} IN
       /\ M # {}
       /\ rack' = [m \in Msgs |-> IF m \in M THEN "processing" ELSE rack[m]]
       /\ journal' = journal \o Upsert(M, "processing")
       /\ claims' = [m \in Msgs |-> IF m \in M THEN claims[m] + 1 ELSE claims[m]]
  /\ UNCHANGED <<inbound, outbound, sweep, cont, hinted, stranded, crashes, uncleared, faults>>

\* markCompleted of the turn's inputs, then markBatchPersisted
Complete ==
  /\ cont = "up"
  /\ LET M == {m \in Msgs : rack[m] = "processing"} IN
       /\ M # {}
       /\ rack' = [m \in Msgs |-> IF m \in M THEN "completed" ELSE rack[m]]
       /\ journal' = journal \o Upsert(M, "completed") \o Batch
       /\ stranded' = stranded \ M
  /\ UNCHANGED <<inbound, outbound, sweep, cont, claims, hinted, crashes, uncleared, faults>>

\* The container exits: its process dies, or something stops it mid-turn.
Crash ==
  /\ cont \in {"booting", "up"}
  /\ crashes < MaxCrashes /\ crashes' = crashes + 1
  /\ cont' = "dead"
  /\ stranded' = {}
  /\ UNCHANGED <<inbound, outbound, sweep, runner, claims, hinted, uncleared, faults>>

(***************************************************************************)
(* The sweep                                                               *)
(***************************************************************************)

\* The 60 s timer
TimerSweep ==
  /\ pc = "idle"
  /\ pc' = "begin" /\ dirty' = FALSE
  /\ UNCHANGED <<inbound, outbound, cont, runner, history>>

\* Mutant of Unclaimed: the claims stay.
StillClaimed == ack

\* deleteOrphanProcessingClaims
Unclaimed == [m \in Msgs |-> IF ack[m] = "processing" THEN "none" ELSE ack[m]]

\* Mutant of GivenUp: one try too many.
GivenUpLate(m) == tries[m] > MaxTries

\* Whether resetStuckProcessingRows gives up on a message
GivenUp(m) == tries[m] >= MaxTries

\* resetStuckProcessingRows: a claimed message that waits for no retry is
\* given one, or fails; then outbound.db gets the notices and loses the
\* claims, unless it cannot be opened or written, which is only logged, or
\* the host stops in between. st is messages_in.status.
Reset(st) ==
  LET M == {m \in Claimed : st[m] = "pending" /\ m \notin later}
      failed == {m \in M : GivenUp(m)} IN
    /\ status' = [m \in Msgs |-> IF m \in failed THEN "failed" ELSE st[m]]
    /\ tries' = [m \in Msgs |-> IF m \in M \ failed THEN tries[m] + 1 ELSE tries[m]]
    /\ later' = later \cup (M \ failed)
    /\ \/ /\ bounced' = bounced \cup failed
          /\ ack' = Unclaimed
          /\ old' = {m \in old : ack'[m] = "processing"}
          /\ pc' = "end"
          /\ UNCHANGED <<dirty, hinted, uncleared, faults>>
       \/ /\ Claimed # {} /\ Fault
          /\ uncleared' = uncleared + 1
          /\ UNCHANGED outbound
          /\ \/ pc' = "end" /\ UNCHANGED <<dirty, hinted>>
             \/ pc' = "idle" /\ dirty' = FALSE /\ hinted' = {}

\* A claim is too old (decideStuckAction): kill, and reset whatever docker
\* answered. The entry stays until the watcher reports the exit.
KillAndReset(st) ==
  /\ Running
  /\ Claimed \cap old # {}
  /\ Reset(st)
  /\ \/ /\ cont' = "dead"
        /\ stranded' = {}
     \/ /\ cont \in {"booting", "up"} \* docker stop and docker kill fail
        /\ stranded' = stranded \cup {m \in Msgs : rack[m] = "processing"}
        /\ UNCHANGED cont
  /\ UNCHANGED crashes

\* No signal for longer than the ceiling: the same without an old claim
KillSilent(st) ==
  /\ cont \in {"booting", "up"}
  /\ Claimed \cap old = {}
  /\ crashes < MaxCrashes /\ crashes' = crashes + 1
  /\ Reset(st)
  /\ cont' = "dead"
  /\ stranded' = {}

LeaveRunning(st) ==
  /\ Running
  /\ Claimed \cap old = {}
  /\ status' = st
  /\ pc' = "end"
  /\ UNCHANGED <<tries, later, outbound, dirty, cont, hinted, stranded, crashes, uncleared, faults>>

\* Step 4: no container
ResetStopped(st) ==
  /\ ~Running
  /\ Reset(st)
  /\ UNCHANGED <<cont, stranded>>

\* syncProcessingAcks
Synced == [m \in Msgs |-> IF ack[m] = "completed" THEN "completed" ELSE status[m]]

\* Steps 1 to 4 up to the wait for the wake. A pass that wakes a container
\* does not judge it by the claims of the one before.
Pass ==
  LET due == {m \in Msgs : Synced[m] = "pending" /\ m \notin later} IN
    /\ \/ /\ due # {} /\ ~Running
          /\ status' = Synced
          /\ pc' = "waking"
          /\ UNCHANGED <<tries, later, outbound, dirty, cont, hinted, stranded, crashes,
                         uncleared, faults>>
       \/ /\ due = {} \/ Running
          /\ \/ KillAndReset(Synced) \/ KillSilent(Synced)
             \/ LeaveRunning(Synced) \/ (ResetStopped(Synced) /\ UNCHANGED crashes)
    /\ UNCHANGED <<runner, claims>>

\* needsStoppedRunnerRecovery
NeedsRecovery == cont = "off" /\ Claimed # {}

BeginSweep ==
  /\ pc = "begin"
  /\ ~NeedsRecovery
  /\ Pass

BeginRecovery ==
  /\ pc = "begin"
  /\ NeedsRecovery
  /\ pc' = "recovery" /\ cont' = "recovering"
  /\ UNCHANGED <<inbound, outbound, dirty, runner, history>>

\* The recovery runner replays the journal, ends the turns it finds open and
\* reports a batch, which asks for another sweep.
RecoverySucceeds ==
  /\ pc = "recovery" /\ cont = "recovering"
  /\ journal = <<>>
  /\ cont' = "off"
  /\ pc' = "recovered" /\ dirty' = TRUE
  /\ hinted' = hinted \cup {m \in Msgs : ack[m] = "completed"}
  /\ UNCHANGED <<inbound, outbound, runner, claims, stranded, crashes, uncleared, faults>>

\* A failed recovery ends the pass before it looks at anything.
RecoveryFails ==
  /\ pc = "recovery" /\ cont = "recovering"
  /\ Fault
  /\ cont' = "off"
  /\ pc' = "end"
  /\ hinted' = {}
  /\ UNCHANGED <<inbound, outbound, dirty, runner, claims, stranded, crashes, uncleared>>

PassAfterRecovery ==
  /\ pc = "recovered"
  /\ Pass

\* wakeContainer in the sweep starts a container, and the pass is over ...
WakeSpawns ==
  /\ pc = "waking" /\ cont = "off"
  /\ cont' = "booting"
  /\ pc' = "end"
  /\ UNCHANGED <<inbound, outbound, dirty, runner, history>>

\* ... or it does not, and what is claimed is reset.
WakeFails ==
  /\ pc = "waking" /\ cont = "off"
  /\ crashes < MaxCrashes /\ crashes' = crashes + 1
  /\ ResetStopped(status)
  /\ UNCHANGED <<runner, claims>>

\* Mutant of Again: a request made meanwhile is forgotten.
NeverAgain == FALSE

\* The loop of requestSessionSweep
Again == dirty

EndSweep ==
  /\ pc = "end"
  /\ pc' = IF Again THEN "begin" ELSE "idle"
  /\ dirty' = FALSE
  /\ UNCHANGED <<inbound, outbound, cont, runner, history>>

\* A pass throws: the loop ends, a request made meanwhile with it.
SweepThrows ==
  /\ pc \in {"begin", "recovered"}
  /\ Fault
  /\ pc' = "idle"
  /\ hinted' = {}
  /\ UNCHANGED <<inbound, outbound, dirty, cont, runner, claims, stranded, crashes, uncleared>>

\* The host stops and starts again: it adopts a container that runs. Of an
\* adopted recovery only the journal and the exit are left to come.
HostRestart ==
  /\ Fault
  /\ pc' = "idle" /\ dirty' = FALSE
  /\ cont' \in CASE cont = "dead" -> {"off"}
               [] cont = "recovering" -> {"off", "dead"}
               [] OTHER -> {cont}
  /\ hinted' = {}
  /\ UNCHANGED <<inbound, outbound, runner, claims, stranded, crashes, uncleared>>

-----------------------------------------------------------------------------
Sweep ==
  \/ BeginSweep \/ BeginRecovery \/ RecoverySucceeds \/ PassAfterRecovery
  \/ WakeSpawns \/ EndSweep

SweepFault == RecoveryFails \/ WakeFails \/ SweepThrows \/ HostRestart

Around ==
  \/ \E m \in Msgs : Arrive(m) \/ BackoffEnds(m) \/ ClaimAges(m)
  \/ WakeElsewhere \/ ApplyEvent \/ ExitHandled \/ TimerSweep

Runner == Boot \/ Claim \/ Complete \/ Crash

Next == Sweep \/ SweepFault \/ Around \/ Runner

Spec == Init /\ [][Next]_vars

\* The host's handlers run, the timer fires, time passes, a runner that is up
\* claims. Nothing is owed that the agent gets done with a batch: it may hang.
Fairness ==
  /\ WF_vars(Sweep) /\ WF_vars(TimerSweep) /\ WF_vars(ApplyEvent) /\ WF_vars(ExitHandled)
  /\ WF_vars(Boot) /\ WF_vars(Claim)
  /\ \A m \in Msgs : WF_vars(BackoffEnds(m)) /\ WF_vars(ClaimAges(m))

FairSpec == Spec /\ Fairness

-----------------------------------------------------------------------------
\* The type invariant of the sweep, the two databases and the container.
TypeOK ==
  /\ status \in [Msgs -> {"none", "pending", "failed", "completed"}]
  /\ tries \in [Msgs -> 0 .. MaxTries]
  /\ later \subseteq Msgs
  /\ ack \in [Msgs -> {"none", "processing", "completed"}]
  /\ old \subseteq Claimed
  /\ bounced \subseteq Msgs
  /\ pc \in {"idle", "begin", "recovery", "recovered", "waking", "end"}
  /\ dirty \in BOOLEAN
  /\ cont \in {"off", "booting", "up", "dead", "recovering"}
  /\ rack \in [Msgs -> {"none", "processing", "completed"}]
  /\ journal \in Seq(Event)
  /\ claims \in [Msgs -> Nat]
  /\ hinted \subseteq Msgs /\ stranded \subseteq Msgs
  /\ crashes \in Nat /\ uncleared \in Nat /\ faults \in Nat

\* A message is charged a try only for a time a container claimed it: no
\* pass counts a claim twice, and none counts one that was never made; and it
\* is given up only when it was claimed once more than it has tries. Only a
\* claim row that could not be deleted is charged again.
TriesAreEarned ==
  \A m \in Msgs : /\ tries[m] <= claims[m] + uncleared
                  /\ status[m] = "failed" => MaxTries < claims[m] + uncleared

\* A message the user is told to send again had its tries.
NoticeAfterLastTry == \A m \in bounced : tries[m] = MaxTries

\* A batch reported while a sweep runs is not lost: when no sweep runs, what
\* the batch completed is completed in messages_in, unless a pass failed.
HintIsNotLost == pc = "idle" => \A m \in hinted : status[m] = "completed"

\* What the host has as completed stays so: no claim or deletion that was
\* still queued when the runner stopped, or that a later runner journals,
\* reaches the host after the completion of the message, and no reset of a
\* dead claim takes it.
CompletionsStick ==
  [][\A m \in Msgs : ack[m] = "completed" => ack'[m] = "completed"]_vars

\* Every message is completed or failed in the end, even when the agent hangs
\* on it each time, unless docker could not kill its container.
EveryMessageSettles ==
  \A m \in Msgs :
    status[m] = "pending" ~> (status[m] \in {"completed", "failed"} \/ stranded # {})
=============
