------------------------------ MODULE Delivery ------------------------------
(***************************************************************************)
(* Delivery of one session's committed outbound messages through a channel *)
(* adapter (src/delivery.ts): drains started by each durable commit and by *)
(* the 60 s scan, serialized per session, with three attempts a message.   *)
(*                                                                         *)
(* A drain reads what is due and has no receipt, then sends one message at *)
(* a time; between the adapter's answer and the receipt the host may stop. *)
(*                                                                         *)
(* Simplifications:                                                        *)
(*  - Msgs are numbered in timestamp order, the order of a drain;          *)
(*  - what happens before the adapter is called (permission, the question  *)
(*    row, the attachments) is part of the call: it succeeds or throws;    *)
(*  - sends of other kinds (system actions, agent-to-agent) are sends, and *)
(*    so is a message dropped for want of an adapter or of its routing,    *)
(*    which the code records as delivered without a send;                  *)
(*  - Bounced are the messages to somewhere else than the session's        *)
(*    origin, whose failure is written back to the agent.                  *)
(***************************************************************************)
EXTENDS Naturals, FiniteSets

CONSTANTS
  N,              \* bound on messages
  Drains,         \* identities of concurrent drainSession calls
  Bounced,        \* messages whose final failure is bounced back
  MaxAttempts,    \* MAX_DELIVERY_ATTEMPTS
  MaxBounceBacks, \* MAX_BOUNCE_BACKS_PER_SESSION
  MaxFailures,    \* bound on failed sends
  MaxFaults       \* bound on host stops and failed writes of a receipt

Msgs == 1 .. N

ASSUME CountsAssumption == N \in Nat /\ MaxAttempts \in Nat \ {0} /\ MaxBounceBacks \in Nat
ASSUME BoundsAssumption == MaxFailures \in Nat /\ MaxFaults \in Nat
ASSUME BouncedAssumption == Bounced \subseteq Msgs

VARIABLES
  rows,      \* outbound.db messages_out
  due,       \* of these, the ones whose deliver_after has passed
  receipt,   \* inbound.db delivered
  bounced,   \* inbound.db delivery_failed messages written
  hostUp,
  ready,     \* deliveryAdapter is set
  inflight,  \* inflightDeliveries has the session
  dirty,     \* dirtyDeliveries has the session
  drain,     \* the calls of drainSession
  attempts,  \* deliveryAttempts
  bounces,   \* bounceBackCounts of the session
  \* history
  sends,     \* how often the channel accepted each message
  lost,      \* how many of these acceptances left no receipt
  failures,  \* how often the adapter threw for each message
  hinted,    \* messages whose commit reached a ready delivery that did not throw since
  tried,     \* messages a drain took up in this host life
  faults

disk == <<rows, due, receipt, bounced>>
memory == <<ready, inflight, dirty, drain, attempts, bounces>>
history == <<sends, lost, failures, hinted, tried, faults>>
vars == <<disk, hostUp, memory, history>>

NoDrain == [stage |-> "none", queue |-> {}]

TypeOK ==
  /\ rows \in SUBSET Msgs /\ due \in SUBSET rows
  /\ receipt \in [Msgs -> {"none", "delivered", "failed"}]
  /\ bounced \in SUBSET Bounced
  /\ hostUp \in BOOLEAN /\ ready \in BOOLEAN /\ inflight \in BOOLEAN /\ dirty \in BOOLEAN
  /\ drain \in [Drains -> [stage: {"none", "sending", "accepted"}, queue: SUBSET Msgs]]
  /\ attempts \in [Msgs -> Nat]
  /\ bounces \in 0 .. MaxBounceBacks
  /\ sends \in [Msgs -> Nat] /\ lost \in [Msgs -> Nat] /\ failures \in [Msgs -> Nat]
  /\ hinted \in SUBSET Msgs /\ tried \in SUBSET Msgs
  /\ faults \in Nat

Init ==
  /\ rows = {} /\ due = {} /\ bounced = {}
  /\ receipt = [m \in Msgs |-> "none"]
  /\ hostUp = TRUE /\ ready = FALSE /\ inflight = FALSE /\ dirty = FALSE
  /\ drain = [d \in Drains |-> NoDrain]
  /\ attempts = [m \in Msgs |-> 0]
  /\ bounces = 0
  /\ sends = [m \in Msgs |-> 0] /\ lost = [m \in Msgs |-> 0] /\ failures = [m \in Msgs |-> 0]
  /\ hinted = {} /\ tried = {}
  /\ faults = 0

-----------------------------------------------------------------------------
active(d) == drain[d].stage # "none"
head(d) == CHOOSE m \in drain[d].queue : \A n \in drain[d].queue : m <= n

\* The drain d reads what is to be sent and starts with the first, given the
\* rows that are due.
DrainOf(dueNow) ==
  LET undelivered == {m \in dueNow : receipt[m] = "none"}
  IN  [stage |-> "sending", queue |-> undelivered]

\* MUTANT: no serialization of the drains of a session.
DeliverUnserialized(dueNow) ==
  \/ /\ ~ready
     /\ UNCHANGED <<inflight, dirty, drain>>
  \/ /\ ready
     /\ inflight' = TRUE
     /\ dirty' = FALSE
     /\ \E d \in Drains : ~active(d) /\ drain' = [drain EXCEPT ![d] = DrainOf(dueNow)]

\* deliverSessionMessages: one drain at a time; a call during it marks the
\* session dirty.  Nothing is delivered before an adapter is set.
deliverSessionMessages(dueNow) ==
  \/ /\ ~ready
     /\ UNCHANGED <<inflight, dirty, drain>>
  \/ /\ ready /\ inflight
     /\ dirty' = TRUE
     /\ UNCHANGED <<inflight, drain>>
  \/ /\ ready /\ ~inflight
     /\ inflight' = TRUE
     /\ dirty' = FALSE
     /\ \E d \in Drains : ~active(d) /\ drain' = [drain EXCEPT ![d] = DrainOf(dueNow)]

\* A durable commit publishes its effects: the next message is in outbound.db,
\* due now or later, and delivery is called.
Commit(now) ==
  LET m == Cardinality(rows) + 1
      dueNow == IF now THEN due \cup {m} ELSE due
  IN
  /\ hostUp /\ m \in Msgs
  /\ rows' = rows \cup {m}
  /\ due' = dueNow
  /\ deliverSessionMessages(dueNow)
  /\ hinted' = IF ready /\ now THEN hinted \cup {m} ELSE hinted
  /\ UNCHANGED <<receipt, bounced, hostUp, ready, attempts, bounces, sends, lost, failures, tried, faults>>

\* deliver_after passes; nothing calls delivery for it.
BecomesDue(m) ==
  /\ m \in rows \ due
  /\ due' = due \cup {m}
  /\ UNCHANGED <<rows, receipt, bounced, hostUp, memory, history>>

\* MUTANT: the scan visits only sessions marked dirty.
ScanDirty ==
  /\ hostUp /\ ready /\ dirty
  /\ deliverSessionMessages(due)
  /\ UNCHANGED <<disk, hostUp, ready, attempts, bounces, history>>

\* pollSweep, once a minute.
Scan ==
  /\ hostUp /\ ready
  /\ deliverSessionMessages(due)
  /\ UNCHANGED <<disk, hostUp, ready, attempts, bounces, history>>

AdapterReady ==
  /\ hostUp /\ ~ready
  /\ ready' = TRUE
  /\ UNCHANGED <<disk, hostUp, inflight, dirty, drain, attempts, bounces, history>>

-----------------------------------------------------------------------------
sending(d) == drain[d].stage = "sending" /\ drain[d].queue # {}
next(d) == [stage |-> "sending", queue |-> drain[d].queue \ {head(d)}]

\* The channel takes the message; the drain has not been resumed yet.
ChannelAccepts(d) ==
  /\ sending(d)
  /\ drain' = [drain EXCEPT ![d].stage = "accepted"]
  /\ sends' = [sends EXCEPT ![head(d)] = @ + 1]
  /\ tried' = tried \cup {head(d)}
  /\ UNCHANGED <<disk, hostUp, ready, inflight, dirty, attempts, bounces, lost, failures, hinted, faults>>

\* markDelivered.
RecordDelivered(d) ==
  /\ drain[d].stage = "accepted"
  /\ receipt' = [receipt EXCEPT ![head(d)] = IF @ = "none" THEN "delivered" ELSE @]
  /\ attempts' = [attempts EXCEPT ![head(d)] = 0]
  /\ drain' = [drain EXCEPT ![d] = next(d)]
  /\ UNCHANGED <<rows, due, bounced, hostUp, ready, inflight, dirty, bounces, history>>

\* MUTANT: one attempt too few.
CaughtEarly(d) ==
  LET m == head(d) IN
  /\ IF attempts[m] + 2 < MaxAttempts
     THEN /\ attempts' = [attempts EXCEPT ![m] = @ + 1]
          /\ UNCHANGED <<receipt, bounced, bounces>>
     ELSE /\ attempts' = [attempts EXCEPT ![m] = 0]
          /\ receipt' = [receipt EXCEPT ![m] = IF @ = "none" THEN "failed" ELSE @]
          /\ IF m \in Bounced /\ bounces < MaxBounceBacks
             THEN bounced' = bounced \cup {m} /\ bounces' = bounces + 1
             ELSE UNCHANGED <<bounced, bounces>>
  /\ drain' = [drain EXCEPT ![d] = next(d)]

\* MUTANT: one bounce too many.
CaughtOneMoreBounce(d) ==
  LET m == head(d) IN
  /\ IF attempts[m] + 1 < MaxAttempts
     THEN /\ attempts' = [attempts EXCEPT ![m] = @ + 1]
          /\ UNCHANGED <<receipt, bounced, bounces>>
     ELSE /\ attempts' = [attempts EXCEPT ![m] = 0]
          /\ receipt' = [receipt EXCEPT ![m] = IF @ = "none" THEN "failed" ELSE @]
          /\ IF m \in Bounced /\ bounces <= MaxBounceBacks
             THEN bounced' = bounced \cup {m} /\ bounces' = bounces + 1
             ELSE UNCHANGED <<bounced, bounces>>
  /\ drain' = [drain EXCEPT ![d] = next(d)]

\* The catch block: the third failure is final and may be bounced back.
Caught(d) ==
  LET m == head(d) IN
  /\ IF attempts[m] + 1 < MaxAttempts
     THEN /\ attempts' = [attempts EXCEPT ![m] = @ + 1]
          /\ UNCHANGED <<receipt, bounced, bounces>>
     ELSE /\ attempts' = [attempts EXCEPT ![m] = 0]
          /\ receipt' = [receipt EXCEPT ![m] = IF @ = "none" THEN "failed" ELSE @]
          /\ IF m \in Bounced /\ bounces < MaxBounceBacks
             THEN bounced' = bounced \cup {m} /\ bounces' = bounces + 1
             ELSE UNCHANGED <<bounced, bounces>>
  /\ drain' = [drain EXCEPT ![d] = next(d)]

\* deliverMessage throws.
SendFails(d) ==
  /\ sending(d)
  /\ failures[head(d)] < MaxFailures
  /\ Caught(d)
  /\ failures' = [failures EXCEPT ![head(d)] = @ + 1]
  /\ tried' = tried \cup {head(d)}
  /\ UNCHANGED <<rows, due, hostUp, ready, inflight, dirty, sends, lost, hinted, faults>>

\* The channel took the message, and what follows throws: the adapter, the
\* clearing of the outbox or markDelivered.
RecordFails(d) ==
  /\ drain[d].stage = "accepted"
  /\ faults < MaxFaults /\ faults' = faults + 1
  /\ Caught(d)
  /\ lost' = [lost EXCEPT ![head(d)] = @ + 1]
  /\ failures' = [failures EXCEPT ![head(d)] = @ + 1]
  /\ UNCHANGED <<rows, due, hostUp, ready, inflight, dirty, sends, hinted, tried>>

\* markDeliveryFailed throws out of the loop of messages: the drain is over, a
\* call made meanwhile stays marked and is not drained.
DrainThrows(d) ==
  /\ sending(d) \/ drain[d].stage = "accepted"
  /\ faults < MaxFaults /\ faults' = faults + 1
  /\ attempts[head(d)] + 1 >= MaxAttempts
  /\ attempts' = [attempts EXCEPT ![head(d)] = @ + 1]
  /\ lost' = [lost EXCEPT ![head(d)] = IF drain[d].stage = "accepted" THEN @ + 1 ELSE @]
  /\ failures' = [failures EXCEPT ![head(d)] = @ + 1]
  /\ drain' = [drain EXCEPT ![d] = NoDrain]
  /\ inflight' = FALSE
  /\ hinted' = {}
  /\ UNCHANGED <<disk, hostUp, ready, dirty, bounces, sends, tried>>

\* MUTANT: a call made during the drain is forgotten.
DrainEndsClean(d) ==
  /\ drain[d].stage = "sending" /\ drain[d].queue = {}
  /\ drain' = [drain EXCEPT ![d] = NoDrain] /\ inflight' = FALSE
  /\ dirty' = FALSE
  /\ UNCHANGED <<disk, hostUp, ready, attempts, bounces, history>>

\* The drain is through: drain again if dirty, else leave.
DrainEnds(d) ==
  /\ drain[d].stage = "sending" /\ drain[d].queue = {}
  /\ dirty' = FALSE
  /\ IF dirty
     THEN drain' = [drain EXCEPT ![d] = DrainOf(due)] /\ UNCHANGED inflight
     ELSE drain' = [drain EXCEPT ![d] = NoDrain] /\ inflight' = FALSE
  /\ UNCHANGED <<disk, hostUp, ready, attempts, bounces, history>>

-----------------------------------------------------------------------------
\* The host stops; an event it has just committed may lose its effects.
HostStops ==
  LET m == Cardinality(rows) + 1 IN
  /\ hostUp
  /\ faults < MaxFaults /\ faults' = faults + 1
  /\ hostUp' = FALSE
  /\ \/ UNCHANGED <<rows, due>>
     \/ m \in Msgs /\ rows' = rows \cup {m} /\ due' \in {due, due \cup {m}}
  /\ ready' = FALSE /\ inflight' = FALSE /\ dirty' = FALSE
  /\ lost' = [n \in Msgs |-> lost[n] + Cardinality({d \in Drains : drain[d].stage = "accepted" /\ head(d) = n})]
  /\ drain' = [d \in Drains |-> NoDrain]
  /\ attempts' = [n \in Msgs |-> 0] /\ bounces' = 0
  /\ hinted' = {} /\ tried' = {}
  /\ UNCHANGED <<receipt, bounced, sends, failures>>

HostStarts ==
  /\ ~hostUp
  /\ hostUp' = TRUE
  /\ UNCHANGED <<disk, memory, history>>

Next ==
  \/ \E now \in BOOLEAN : Commit(now)
  \/ \E m \in Msgs : BecomesDue(m)
  \/ Scan \/ AdapterReady
  \/ \E d \in Drains : \/ ChannelAccepts(d) \/ RecordDelivered(d) \/ SendFails(d)
                       \/ RecordFails(d) \/ DrainThrows(d) \/ DrainEnds(d)
  \/ HostStops \/ HostStarts

Spec == Init /\ [][Next]_vars

\* Fairness: main() reaches the adapters, the scan comes back, the adapter
\* answers one way or the other, a stopped host is restarted.
FairSpec ==
  /\ Spec
  /\ WF_vars(Scan) /\ WF_vars(AdapterReady) /\ WF_vars(HostStarts)
  /\ \A d \in Drains : /\ WF_vars(ChannelAccepts(d) \/ SendFails(d))
                       /\ WF_vars(RecordDelivered(d) \/ RecordFails(d))
                       /\ WF_vars(DrainEnds(d))

-----------------------------------------------------------------------------
(* What must hold. *)

\* The channel takes a message again only after an acceptance whose receipt
\* was lost to a stop of the host or a failed write: overlapping commits, scans
\* and re-drains never send twice.
NoDuplicateSend == \A m \in Msgs : sends[m] <= 1 + lost[m]

\* A receipt says what happened: "delivered" that the channel took the message,
\* "failed" that the attempts were used up.
ReceiptIsEarned ==
  \A m \in Msgs : /\ receipt[m] = "delivered" => sends[m] > 0
                  /\ receipt[m] = "failed" => failures[m] >= MaxAttempts

\* A commit that finds delivery ready is not lost in a running drain: once no
\* drain runs, the message was taken up, without waiting for the scan.  (Only a
\* stop, or a drain that throws, leaves it to the scan.)
HintIsNotLost == hostUp /\ ~inflight => hinted \subseteq tried

\* The channel has taken m and its drain has not been resumed.
accepted(d) == drain[d].stage = "accepted"
Pending(m) == \E d \in Drains : accepted(d) /\ head(d) = m

\* What has become of each message
Fate == [m \in Msgs |-> IF receipt[m] # "none" THEN receipt[m]
                        ELSE IF Pending(m) THEN "accepted" ELSE "waiting"]

Out == INSTANCE Outbox WITH fate <- Fate

\* Seen through receipts and acceptances, delivery is an outbox: whatever
\* drains, failed writes and stops there were, one message is under way at a
\* time, each acceptance ends in one receipt or is counted as lost, and a
\* message with a receipt is never sent, nor its receipt changed, again
\* (drainSession, markDelivered, markDeliveryFailed).
ImplementsOutbox == Out!Spec

\* Every due message ends with a receipt, although the hint of its commit may
\* be lost, attempts are forgotten and deliver_after has no timer.
DueMessageSettles == \A m \in Msgs : m \in due ~> receipt[m] # "none"
=============================================================================
