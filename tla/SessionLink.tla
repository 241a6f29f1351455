----------------------------- MODULE SessionLink -----------------------------
(***************************************************************************)
(* The durable half of the session link between the host process           *)
(* (src/session-link.ts, src/session-link-durable.ts) and the runner in a  *)
(* container (container/agent-runner/src/session-link.ts): two journals,   *)
(* one per direction, that share a Unix socket.                            *)
(*                                                                         *)
(* Each side stores its events in SQLite before sending them, sends only   *)
(* the head, and deletes it when the peer acknowledges its commit.  The    *)
(* socket may drop, either process may stop between any two steps, and     *)
(* what was sent is then sent again on the next connection.                *)
(*                                                                         *)
(* Simplifications:                                                        *)
(*  - an event's random ID is its AUTOINCREMENT sequence: both tables      *)
(*    allocate the two together and never change either;                   *)
(*  - payloads are drawn from Payloads; those in Rejected stand for events *)
(*    whose validation or SQL throws.  An optional-telemetry event that is *)
(*    skipped is receipted like any other, so it is an ordinary payload;   *)
(*  - live frames (heartbeat, activity, turn state, stop controls) are not *)
(*    here; the only effect they have on the journals is that the host     *)
(*    flushes after each, which HostNotify covers;                         *)
(*  - a Unix-domain connect() completes when it is queued at the listener, *)
(*    so the runner's 'connect' callback belongs to the connecting step.   *)
(***************************************************************************)
EXTENDS Naturals, Sequences, FiniteSets

CONSTANTS
  Conns,       \* socket identities; one is reused only after both ends closed
  NoConn,      \* no socket
  Payloads,    \* event payloads
  Rejected,    \* payloads the receiving side refuses to commit
  Retention,   \* APPLIED_EVENT_RETENTION, the receipts the host keeps
  MaxUp,       \* bound on events journaled by the runner
  MaxDown,     \* bound on events journaled by the host
  MaxFaults    \* bound on crashes and dropped connections

ASSUME NoConnAssumption == NoConn \notin Conns
ASSUME RejectedAssumption == Rejected \subseteq Payloads
ASSUME RetentionAssumption == Retention \in Nat \ {0}
ASSUME BoundsAssumption == MaxUp \in Nat /\ MaxDown \in Nat /\ MaxFaults \in Nat

VARIABLES
  \* runner-state.db, written by the runner only
  upLog,        \* history: payloads of pending_runner_events rows ever inserted
  upJournal,    \* sequences still in pending_runner_events
  rLast,        \* applied_host_events.last_sequence
  downApplied,  \* history: payloads of the host events the runner committed
  \* inbound.db and outbound.db, written by the host only
  downLog,      \* history: payloads of pending_host_events rows ever inserted
  downJournal,  \* sequences still in pending_host_events
  receipts,     \* applied_runner_events rows
  upApplied,    \* history: payloads of the runner events the host committed
  \* SessionSignalClient
  rUp,          \* the runner process is alive
  rSock,        \* this.socket
  sentAt,       \* this.sentAt, the sequences sent and not acknowledged
  hostReady,    \* this.hostReady
  \* SessionSignalServer
  hUp,          \* the host process is alive and listens
  hConn,        \* entry.connection
  hDestroyed,   \* accepted sockets destroyed here whose 'close' has not run
  hEnded,       \* entry.connection.end() was called after a fatal nack
  hInFlight,    \* entry.hostInFlight with the socket its ACK timer captured
  hReadySent,   \* entry.hostReadySent
  \* the socket
  backlog,      \* connections queued at the listener
  toHost,       \* frames the runner wrote and the host has not read
  toRunner,     \* frames the host wrote and the runner has not read
  faults        \* crashes and dropped connections so far

runnerDisk == <<upLog, upJournal, rLast, downApplied>>
hostDisk   == <<downLog, downJournal, receipts, upApplied>>
runnerMem  == <<rUp, rSock, sentAt, hostReady>>
hostMem    == <<hUp, hConn, hDestroyed, hEnded, hInFlight, hReadySent>>
net        == <<backlog, toHost, toRunner>>
vars       == <<runnerDisk, hostDisk, runnerMem, hostMem, net, faults>>

------------------------------------------------------------------------------
(* Frames *)

NoPayload == "none"
NoFlight  == [seq |-> 0, conn |-> NoConn]

Frame(type, seq, payload) == [type |-> type, seq |-> seq, payload |-> payload]

FrameTypes == {"durable", "host.ack", "host.nack",
               "ack", "nack", "host.event", "host.ready"}
Frames == [type : FrameTypes, seq : Nat, payload : Payloads \union {NoPayload}]

FramesIn(queue) == {queue[i] : i \in 1..Len(queue)}

(* The row with the lowest sequence: ORDER BY sequence LIMIT 1. *)
HeadOf(journal) == CHOOSE s \in journal : \A t \in journal : s <= t

------------------------------------------------------------------------------
(* Sockets *)

\* Both ends of c are closed, so its identity can serve a new connection.
Free(c) == c # rSock /\ c # hConn /\ c \notin backlog \union hDestroyed

\* The host end of c still accepts bytes.
HostOpen(c) == c \in backlog \/ (c = hConn /\ c \notin hDestroyed)

\* The host may read from and write to entry.connection.
HostReads  == hUp /\ hConn # NoConn /\ hConn \notin hDestroyed
HostWrites == HostReads /\ ~hEnded

\* No frame is under way on c and the host has seen it: only a timer can act.
Quiet(c) == c \notin backlog /\ toHost[c] = <<>> /\ toRunner[c] = <<>>

\* Bytes written to a socket whose other end is closed are lost.
RunnerWrite(c, frames) ==
  IF HostOpen(c) THEN [toHost EXCEPT ![c] = @ \o frames] ELSE toHost

\* The runner's end is closed and its memory of the connection is gone.
RunnerReset ==
  /\ rSock' = NoConn
  /\ sentAt' = {}
  /\ hostReady' = FALSE
  /\ toRunner' = [c \in Conns |-> IF c = rSock THEN <<>> ELSE toRunner[c]]

------------------------------------------------------------------------------
(* Runner *)

(* A transaction of the runner: the mutation and, by trigger, its event. *)
RunnerJournal(p) ==
  /\ rUp
  /\ Len(upLog) < MaxUp
  /\ upLog' = Append(upLog, p)
  /\ upJournal' = upJournal \union {Len(upLog) + 1}
  /\ UNCHANGED <<rLast, downApplied, hostDisk, runnerMem, hostMem, net, faults>>

\* Mutant of FlushDurable: the query lost its LIMIT 1.
FlushDurableBatch(outstanding, journal) ==
  IF outstanding = {} /\ journal # {}
    THEN [i \in 1..Cardinality(journal) |->
            LET seq == HeadOf(journal) + i - 1 IN Frame("durable", seq, upLog[seq])]
    ELSE <<>>

(* What flushDurable puts on the socket when `outstanding` is sent and not
   acknowledged and `journal` is pending: the head alone, or nothing. *)
FlushDurable(outstanding, journal) ==
  IF outstanding = {} /\ journal # {}
    THEN <<Frame("durable", HeadOf(journal), upLog[HeadOf(journal)])>>
    ELSE <<>>

SentAfterFlush(outstanding, journal) ==
  IF outstanding = {} /\ journal # {} THEN {HeadOf(journal)} ELSE outstanding

(* connect() and its 'connect' callback. *)
RunnerConnect(c) ==
  /\ rUp /\ hUp
  /\ rSock = NoConn
  /\ Free(c)
  /\ rSock' = c
  /\ hostReady' = FALSE
  /\ backlog' = backlog \union {c}
  /\ sentAt' = SentAfterFlush({}, upJournal)
  /\ toHost' = [toHost EXCEPT ![c] = FlushDurable({}, upJournal)]
  /\ toRunner' = [toRunner EXCEPT ![c] = <<>>]
  /\ UNCHANGED <<rUp, runnerDisk, hostDisk, hostMem, faults>>

(* The 50 ms pump timer with nothing outstanding. *)
RunnerFlush ==
  /\ rUp
  /\ rSock # NoConn
  /\ sentAt = {}
  /\ upJournal # {}
  /\ sentAt' = SentAfterFlush(sentAt, upJournal)
  /\ toHost' = RunnerWrite(rSock, FlushDurable(sentAt, upJournal))
  /\ UNCHANGED <<rUp, rSock, hostReady, runnerDisk, hostDisk, hostMem,
                 backlog, toRunner, faults>>

RunnerReads(type) ==
  /\ rUp
  /\ rSock # NoConn
  /\ toRunner[rSock] # <<>>
  /\ Head(toRunner[rSock]).type = type

RunnerConsume == toRunner' = [toRunner EXCEPT ![rSock] = Tail(@)]

(* 'ack': delete the event, then flush the next. *)
RunnerReceiveAck ==
  /\ RunnerReads("ack")
  /\ LET seq == Head(toRunner[rSock]).seq IN
       /\ upJournal' = upJournal \ {seq}
       /\ sentAt' = SentAfterFlush(sentAt \ {seq}, upJournal')
       /\ toHost' = RunnerWrite(rSock, FlushDurable(sentAt \ {seq}, upJournal'))
  /\ RunnerConsume
  /\ UNCHANGED <<rUp, rSock, hostReady, upLog, rLast, downApplied,
                 hostDisk, hostMem, backlog, faults>>

\* Mutant of RunnerReceiveNack: the refused event is forgotten, not retained.
RunnerReceiveNackForgets ==
  /\ RunnerReads("nack")
  /\ upJournal' = upJournal \ {Head(toRunner[rSock]).seq}
  /\ rUp' = TRUE
  /\ RunnerReset
  /\ UNCHANGED <<upLog, rLast, downApplied, hostDisk, hostMem, backlog, toHost, faults>>

(* 'nack': if the event is still journaled, block the journal and exit with
   the head retained (blockDurable); otherwise only drop the socket. *)
RunnerReceiveNack ==
  /\ RunnerReads("nack")
  /\ rUp' = (Head(toRunner[rSock]).seq \notin upJournal)
  /\ RunnerReset
  /\ UNCHANGED <<runnerDisk, hostDisk, hostMem, backlog, toHost, faults>>

\* Mutant of HostEventNext: the last event committed is taken for the next.
HostEventNextOrLast(f) == f.seq \in rLast..(rLast + 1) /\ f.payload \notin Rejected

(* The three outcomes of applyHostEvent for the event at hand. *)
HostEventKnown(f)  == f.seq <= rLast
HostEventNext(f)   == f.seq = rLast + 1 /\ f.payload \notin Rejected
HostEventThrows(f) == ~HostEventKnown(f) /\ ~HostEventNext(f)

CommitHostEvent(f) ==
  IF HostEventNext(f)
    THEN /\ rLast' = f.seq
         /\ downApplied' = Append(downApplied, f.payload)
    ELSE UNCHANGED <<rLast, downApplied>>

(* 'host.event' committed, or known already: acknowledge. *)
RunnerReceiveHostEvent ==
  /\ RunnerReads("host.event")
  /\ LET f == Head(toRunner[rSock]) IN
       /\ ~HostEventThrows(f)
       /\ CommitHostEvent(f)
       /\ toHost' = RunnerWrite(rSock, <<Frame("host.ack", f.seq, NoPayload)>>)
  /\ RunnerConsume
  /\ UNCHANGED <<upLog, upJournal, hostDisk, runnerMem, hostMem, backlog, faults>>

(* 'host.event' that throws: host.nack, then blockHostEvent exits. *)
RunnerRejectHostEvent ==
  /\ RunnerReads("host.event")
  /\ LET f == Head(toRunner[rSock]) IN
       /\ HostEventThrows(f)
       /\ toHost' = RunnerWrite(rSock, <<Frame("host.nack", f.seq, NoPayload)>>)
  /\ rUp' = FALSE
  /\ RunnerReset
  /\ UNCHANGED <<runnerDisk, hostDisk, hostMem, backlog, faults>>

RunnerReceiveReady ==
  /\ RunnerReads("host.ready")
  /\ hostReady' = TRUE
  /\ RunnerConsume
  /\ UNCHANGED <<rUp, rSock, sentAt, runnerDisk, hostDisk, hostMem,
                 backlog, toHost, faults>>

(* disconnect(): the socket is forgotten; connect() is retried later. *)
RunnerDisconnect ==
  /\ RunnerReset
  /\ UNCHANGED <<rUp, runnerDisk, hostDisk, hostMem, backlog, toHost>>

(* 'end' or 'close' on the socket: the host closed its end. *)
RunnerPeerEnded ==
  /\ rUp
  /\ rSock # NoConn
  /\ \/ ~HostOpen(rSock)
     \/ rSock = hConn /\ hEnded /\ toRunner[rSock] = <<>>
  /\ RunnerDisconnect
  /\ UNCHANGED faults

(* runner-ack-timeout and host-ready-timeout: ten seconds without progress. *)
RunnerTimeout ==
  /\ rUp
  /\ rSock # NoConn
  /\ Quiet(rSock)
  /\ sentAt # {} \/ ~hostReady
  /\ RunnerDisconnect
  /\ UNCHANGED faults

(* A transport error, or a timer that fires while an answer is on its way. *)
RunnerDrop ==
  /\ faults < MaxFaults
  /\ rUp
  /\ rSock # NoConn
  /\ RunnerDisconnect
  /\ faults' = faults + 1

RunnerCrash ==
  /\ faults < MaxFaults
  /\ rUp
  /\ rUp' = FALSE
  /\ RunnerReset
  /\ faults' = faults + 1
  /\ UNCHANGED <<runnerDisk, hostDisk, hostMem, backlog, toHost>>

(* The transaction of applyHostEvent commits and the process stops before
   the acknowledgement is written. *)
RunnerCrashAfterCommit ==
  /\ faults < MaxFaults
  /\ RunnerReads("host.event")
  /\ HostEventNext(Head(toRunner[rSock]))
  /\ CommitHostEvent(Head(toRunner[rSock]))
  /\ rUp' = FALSE
  /\ RunnerReset
  /\ faults' = faults + 1
  /\ UNCHANGED <<upLog, upJournal, hostDisk, hostMem, backlog, toHost>>

RunnerStart ==
  /\ ~rUp
  /\ rUp' = TRUE
  /\ UNCHANGED <<rSock, sentAt, hostReady, runnerDisk, hostDisk, hostMem, net, faults>>

------------------------------------------------------------------------------
(* Host *)

(* A host write to inbound.db and, by trigger, its event. *)
HostJournal(p) ==
  /\ hUp
  /\ Len(downLog) < MaxDown
  /\ downLog' = Append(downLog, p)
  /\ downJournal' = downJournal \union {Len(downLog) + 1}
  /\ UNCHANGED <<receipts, upApplied, runnerDisk, runnerMem, hostMem, net, faults>>

\* Mutant of FlushHostEvents: host.ready is sent before the journal is drained.
FlushReadyFirst(flight, readySent, journal) ==
  IF ~readySent THEN <<Frame("host.ready", Len(downLog), NoPayload)>>
  ELSE IF flight = NoFlight /\ journal # {}
    THEN <<Frame("host.event", HeadOf(journal), downLog[HeadOf(journal)])>>
  ELSE <<>>

(* flushHostEvents on connection c, given the in-flight slot and the journal:
   nothing while an event is unacknowledged, host.ready once per connection
   when the journal is empty, otherwise the head.  A host.ready frame carries,
   as history, how many events had been journaled when it was written. *)
FlushHostEvents(flight, readySent, journal) ==
  IF flight # NoFlight THEN <<>>
  ELSE IF journal # {}
    THEN <<Frame("host.event", HeadOf(journal), downLog[HeadOf(journal)])>>
  ELSE IF ~readySent THEN <<Frame("host.ready", Len(downLog), NoPayload)>>
  ELSE <<>>

FlightAfterFlush(c, flight, journal) ==
  IF flight = NoFlight /\ journal # {}
    THEN [seq |-> HeadOf(journal), conn |-> c]
    ELSE flight

ReadyAfterFlush(flight, readySent, journal) ==
  readySent \/ (flight = NoFlight /\ journal = {})

(* `reply` and then the flush, written to c; only a runner still on c can
   read them. *)
HostWrite(c, reply, flight, readySent, journal) ==
  /\ hInFlight' = FlightAfterFlush(c, flight, journal)
  /\ hReadySent' = ReadyAfterFlush(flight, readySent, journal)
  /\ toRunner' = IF rSock = c
                   THEN [toRunner EXCEPT ![c] =
                           @ \o reply \o FlushHostEvents(flight, readySent, journal)]
                   ELSE toRunner

(* handleConnection on a queued connection: it replaces a destroyed one, and
   is itself destroyed while another is alive.  The in-flight slot is left as
   it is: only the 'close' handler of the current connection clears it.  The
   runner waits at least 100 ms before it reconnects, so to find the old
   socket destroyed and its 'close' still to come takes a stalled host: each
   such stall counts as a fault. *)
HostAccept(c) ==
  /\ hUp
  /\ c \in backlog
  /\ \/ hConn = NoConn /\ UNCHANGED faults
     \/ hConn \in hDestroyed /\ faults < MaxFaults /\ faults' = faults + 1
  /\ backlog' = backlog \ {c}
  /\ hConn' = c
  /\ hEnded' = FALSE
  /\ HostWrite(c, <<>>, hInFlight, FALSE, downJournal)
  /\ UNCHANGED <<hUp, hDestroyed, runnerDisk, hostDisk, runnerMem, toHost>>

HostRefuse(c) ==
  /\ hUp
  /\ c \in backlog
  /\ hConn # NoConn /\ hConn \notin hDestroyed
  /\ backlog' = backlog \ {c}
  /\ toHost' = [toHost EXCEPT ![c] = <<>>]
  /\ UNCHANGED <<runnerDisk, hostDisk, runnerMem, hostMem, toRunner, faults>>

(* notifySessionHostState, and the flush that follows every live frame. *)
HostNotify ==
  /\ HostWrites
  /\ FlushHostEvents(hInFlight, hReadySent, downJournal) # <<>>
  /\ HostWrite(hConn, <<>>, hInFlight, hReadySent, downJournal)
  /\ UNCHANGED <<hUp, hConn, hDestroyed, hEnded, runnerDisk, hostDisk, runnerMem,
                 backlog, toHost, faults>>

HostReceives(type) ==
  /\ HostReads
  /\ toHost[hConn] # <<>>
  /\ Head(toHost[hConn]).type = type

HostConsume == toHost' = [toHost EXCEPT ![hConn] = Tail(@)]

(* applyDurableRunnerEvent on frame f. *)
LastSequence ==
  IF receipts = {} THEN 0
  ELSE CHOOSE n \in {r.seq : r \in receipts} : \A r \in receipts : r.seq <= n

Receipted(f) == \E r \in receipts : r.seq = f.seq
Conflicts(f) == \E r \in receipts : r.seq = f.seq /\ r.payload # f.payload
\* Mutant of Replayed: no receipt is looked up, and the order test is strict.
ReplayedStrict(f) == f.seq < LastSequence
Replayed(f)  == ~Conflicts(f) /\ (Receipted(f) \/ f.seq <= LastSequence)
Fresh(f) ==
  /\ ~Receipted(f)
  /\ f.seq = LastSequence + 1
  /\ f.payload \notin Rejected

CommitDurable(f) ==
  IF Fresh(f)
    THEN /\ upApplied' = Append(upApplied, f.payload)
         /\ receipts' = {r \in receipts \union {[seq |-> f.seq, payload |-> f.payload]} :
                           f.seq < r.seq + Retention}
    ELSE UNCHANGED <<upApplied, receipts>>

(* 'durable' committed now, or before: acknowledge, publish, flush. *)
HostReceiveDurable ==
  /\ HostReceives("durable")
  /\ LET f == Head(toHost[hConn]) IN
       /\ Fresh(f) \/ Replayed(f)
       /\ CommitDurable(f)
       /\ HostConsume
       /\ IF hEnded
            THEN UNCHANGED <<hInFlight, hReadySent, toRunner>>
            ELSE HostWrite(hConn, <<Frame("ack", f.seq, NoPayload)>>,
                           hInFlight, hReadySent, downJournal)
  /\ UNCHANGED <<hUp, hConn, hDestroyed, hEnded, downLog, downJournal,
                 runnerDisk, runnerMem, backlog, faults>>

(* 'durable' that throws: a fatal nack is the last thing written. *)
HostRejectDurable ==
  /\ HostReceives("durable")
  /\ LET f == Head(toHost[hConn]) IN
       /\ ~Fresh(f) /\ ~Replayed(f)
       /\ toRunner' = IF rSock = hConn /\ ~hEnded
                        THEN [toRunner EXCEPT ![hConn] =
                                Append(@, Frame("nack", f.seq, NoPayload))]
                        ELSE toRunner
  /\ HostConsume
  /\ hEnded' = TRUE
  /\ UNCHANGED <<hUp, hConn, hDestroyed, hInFlight, hReadySent, runnerDisk,
                 hostDisk, runnerMem, backlog, faults>>

(* connection.destroy(): what was not read is lost, 'close' comes later. *)
HostDestroyConnection ==
  /\ hDestroyed' = hDestroyed \union {hConn}
  /\ toHost' = [toHost EXCEPT ![hConn] = <<>>]
  /\ UNCHANGED <<hUp, hConn, hEnded, hInFlight, hReadySent, runnerDisk,
                 runnerMem, backlog, toRunner>>

\* Mutant of HostReceiveHostAck: the event answered stays in flight.
HostReceiveHostAckKeeps ==
  /\ HostReceives("host.ack")
  /\ hInFlight # NoFlight /\ hInFlight.seq = Head(toHost[hConn]).seq
  /\ downJournal' = downJournal \ {hInFlight.seq}
  /\ HostConsume
  /\ UNCHANGED <<hUp, hConn, hDestroyed, hEnded, hInFlight, hReadySent, downLog, receipts,
                 upApplied, runnerDisk, runnerMem, backlog, toRunner, faults>>

(* 'host.ack' of the event in flight: delete it and flush the next. *)
HostReceiveHostAck ==
  /\ HostReceives("host.ack")
  /\ LET seq == Head(toHost[hConn]).seq IN
       /\ hInFlight # NoFlight /\ hInFlight.seq = seq
       /\ downJournal' = downJournal \ {seq}
       /\ HostConsume
       /\ IF hEnded
            THEN hInFlight' = NoFlight /\ UNCHANGED <<hReadySent, toRunner>>
            ELSE HostWrite(hConn, <<>>, NoFlight, hReadySent, downJournal')
  /\ UNCHANGED <<hUp, hConn, hDestroyed, hEnded, downLog, receipts, upApplied,
                 runnerDisk, runnerMem, backlog, faults>>

(* 'host.nack', or a 'host.ack' that matches nothing in flight. *)
HostRejectConnection ==
  /\ \/ HostReceives("host.nack")
     \/ /\ HostReceives("host.ack")
        /\ hInFlight = NoFlight \/ hInFlight.seq # Head(toHost[hConn]).seq
  /\ HostDestroyConnection
  /\ UNCHANGED <<hostDisk, faults>>

(* hostAckTimer fires before the answer that is under way was read: it
   destroys only the connection it was armed for. *)
HostAckTimeout ==
  /\ faults < MaxFaults
  /\ HostReads
  /\ hInFlight # NoFlight /\ hInFlight.conn = hConn
  /\ HostDestroyConnection
  /\ faults' = faults + 1
  /\ UNCHANGED hostDisk

\* Mutant of HostPeerClosed: there may be no connection at all.
HostPeerClosedUnchecked ==
  /\ hUp /\ hConn \notin hDestroyed
  /\ rSock # hConn
  /\ HostDestroyConnection
  /\ UNCHANGED <<hostDisk, faults>>

(* The runner closed its end: end of file, or a reset. *)
HostPeerClosed ==
  /\ HostReads
  /\ rSock # hConn
  /\ HostDestroyConnection
  /\ UNCHANGED <<hostDisk, faults>>

(* A rate or size limit, a transport error, or the five seconds of a turn stop
   that end before the host has read the answer under way. *)
HostDrop ==
  /\ faults < MaxFaults
  /\ HostReads
  /\ HostDestroyConnection
  /\ faults' = faults + 1
  /\ UNCHANGED hostDisk

\* Mutant of HostClose: the event in flight outlives its connection.
HostCloseKeepsFlight(c) ==
  /\ hUp
  /\ c \in hDestroyed
  /\ hDestroyed' = hDestroyed \ {c}
  /\ IF hConn = c THEN hConn' = NoConn /\ hEnded' = FALSE ELSE UNCHANGED <<hConn, hEnded>>
  /\ UNCHANGED <<hUp, hInFlight, hReadySent, runnerDisk, hostDisk, runnerMem, net, faults>>

(* The 'close' callback: it touches the entry only if c is still current.  A
   timer armed for a replaced c finds it destroyed, so c can be used again
   without it. *)
HostClose(c) ==
  /\ hUp
  /\ c \in hDestroyed
  /\ hDestroyed' = hDestroyed \ {c}
  /\ \/ /\ hConn = c
        /\ hConn' = NoConn /\ hInFlight' = NoFlight /\ hEnded' = FALSE
     \/ /\ hConn # c
        /\ hInFlight' = [hInFlight EXCEPT !.conn = IF @ = c THEN NoConn ELSE @]
        /\ UNCHANGED <<hConn, hEnded>>
  /\ UNCHANGED <<hUp, hReadySent, runnerDisk, hostDisk, runnerMem, net, faults>>

HostReset ==
  /\ hUp' = FALSE
  /\ hConn' = NoConn
  /\ hDestroyed' = {}
  /\ hEnded' = FALSE
  /\ hInFlight' = NoFlight
  /\ hReadySent' = FALSE
  /\ backlog' = {}
  /\ toHost' = [c \in Conns |-> <<>>]

(* The process stops, or stopSessionSignalServer discards the entry. *)
HostCrash ==
  /\ faults < MaxFaults
  /\ hUp
  /\ HostReset
  /\ faults' = faults + 1
  /\ UNCHANGED <<runnerDisk, hostDisk, runnerMem, toRunner>>

(* The transaction commits and the process stops before the 'ack'. *)
HostCrashAfterCommit ==
  /\ faults < MaxFaults
  /\ HostReceives("durable")
  /\ Fresh(Head(toHost[hConn]))
  /\ CommitDurable(Head(toHost[hConn]))
  /\ HostReset
  /\ faults' = faults + 1
  /\ UNCHANGED <<downLog, downJournal, runnerDisk, runnerMem, toRunner>>

(* startSessionSignalServer. *)
HostStart ==
  /\ ~hUp
  /\ hUp' = TRUE
  /\ UNCHANGED <<hConn, hDestroyed, hEnded, hInFlight, hReadySent, runnerDisk,
                 hostDisk, runnerMem, net, faults>>

------------------------------------------------------------------------------
Init ==
  /\ upLog = <<>> /\ upJournal = {} /\ rLast = 0 /\ downApplied = <<>>
  /\ downLog = <<>> /\ downJournal = {} /\ receipts = {} /\ upApplied = <<>>
  /\ rUp = FALSE /\ rSock = NoConn /\ sentAt = {} /\ hostReady = FALSE
  /\ hUp = FALSE /\ hConn = NoConn /\ hDestroyed = {} /\ hEnded = FALSE
  /\ hInFlight = NoFlight /\ hReadySent = FALSE
  /\ backlog = {}
  /\ toHost = [c \in Conns |-> <<>>]
  /\ toRunner = [c \in Conns |-> <<>>]
  /\ faults = 0

RunnerProtocol ==
  \/ \E c \in Conns : RunnerConnect(c)
  \/ RunnerFlush
  \/ RunnerReceiveAck \/ RunnerReceiveNack
  \/ RunnerReceiveHostEvent \/ RunnerRejectHostEvent \/ RunnerReceiveReady
  \/ RunnerPeerEnded \/ RunnerTimeout
  \/ RunnerStart

HostProtocol ==
  \/ \E c \in Conns : HostAccept(c) \/ HostRefuse(c) \/ HostClose(c)
  \/ HostNotify
  \/ HostReceiveDurable \/ HostRejectDurable
  \/ HostReceiveHostAck \/ HostRejectConnection
  \/ HostPeerClosed
  \/ HostStart

Work == \E p \in Payloads : RunnerJournal(p) \/ HostJournal(p)

Fault ==
  \/ RunnerDrop \/ RunnerCrash \/ RunnerCrashAfterCommit
  \/ HostDrop \/ HostAckTimeout \/ HostCrash \/ HostCrashAfterCommit

Next == RunnerProtocol \/ HostProtocol \/ Work \/ Fault

Spec == Init /\ [][Next]_vars

(* Both processes keep running their event loops and are restarted when they
   stop (the host by its service manager, the runner by the next wake), so
   every protocol step that stays enabled is taken.  Work and faults are not
   fair. *)
FairSpec ==
  /\ Spec
  /\ WF_vars(\E c \in Conns : RunnerConnect(c))
  /\ WF_vars(RunnerFlush)
  /\ WF_vars(RunnerReceiveAck)
  /\ WF_vars(RunnerReceiveNack)
  /\ WF_vars(RunnerReceiveHostEvent)
  /\ WF_vars(RunnerReceiveReady)
  /\ WF_vars(RunnerPeerEnded)
  /\ WF_vars(RunnerTimeout)
  /\ WF_vars(RunnerStart)
  /\ \A c \in Conns : WF_vars(HostAccept(c)) /\ WF_vars(HostRefuse(c))
  /\ \A c \in Conns : WF_vars(HostClose(c))
  /\ WF_vars(HostNotify)
  /\ WF_vars(HostReceiveDurable)
  /\ WF_vars(HostReceiveHostAck)
  /\ WF_vars(HostRejectConnection)
  /\ WF_vars(HostPeerClosed)
  /\ WF_vars(HostStart)

------------------------------------------------------------------------------
(* Properties *)

TypeOK ==
  /\ upLog \in Seq(Payloads) /\ upApplied \in Seq(Payloads)
  /\ downLog \in Seq(Payloads) /\ downApplied \in Seq(Payloads)
  /\ upJournal \in SUBSET Nat /\ downJournal \in SUBSET Nat
  /\ rLast \in Nat
  /\ receipts \in SUBSET [seq : Nat, payload : Payloads]
  /\ rUp \in BOOLEAN /\ hostReady \in BOOLEAN
  /\ rSock \in Conns \union {NoConn}
  /\ sentAt \in SUBSET Nat
  /\ hUp \in BOOLEAN /\ hEnded \in BOOLEAN /\ hReadySent \in BOOLEAN
  /\ hConn \in Conns \union {NoConn}
  /\ hDestroyed \in SUBSET Conns
  /\ hInFlight \in [seq : Nat, conn : Conns \union {NoConn}]
  /\ backlog \in SUBSET Conns
  /\ toHost \in [Conns -> Seq(Frames)]
  /\ toRunner \in [Conns -> Seq(Frames)]
  /\ faults \in Nat

IsPrefixOf(s, t) == Len(s) <= Len(t) /\ \A i \in 1..Len(s) : s[i] = t[i]

(* Every event is committed by the peer at most once and in journal order:
   replay after a lost acknowledgement (applyDurableRunnerEvent's receipts,
   applyHostEvent's last_sequence) never commits an event again, and pruning
   the receipts never makes the host forget where the stream stands. *)
ExactlyOnceInOrder ==
  IsPrefixOf(upApplied, upLog) /\ IsPrefixOf(downApplied, downLog)

(* An acknowledgement is written only after the commit, so whatever stops or
   disconnects, an event the peer has not committed is still in its writer's
   journal (acknowledgeRunnerEvent, applyHostAck). *)
NothingLost ==
  /\ (Len(upApplied) + 1)..Len(upLog) \subseteq upJournal
  /\ (Len(downApplied) + 1)..Len(downLog) \subseteq downJournal

(* A fatal nack stops the runner for good, so it must never answer a valid
   event: 'out-of-order' and 'conflicting replay' cannot happen between two
   correct peers, however often the socket drops. *)
OnlyRejectedEventsAreNacked ==
  \A c \in Conns :
    /\ \A f \in FramesIn(toRunner[c]) : f.type = "nack" => upLog[f.seq] \in Rejected
    /\ \A f \in FramesIn(toHost[c]) : f.type = "host.nack" => downLog[f.seq] \in Rejected

(* host.ready reaches a runner that has committed every host event journaled
   before it was written: the provider is constructed from a complete routing
   and message snapshot (flushHostEvents, startSessionSignalClient). *)
ReadyMeansComplete ==
  \A c \in Conns : \A f \in FramesIn(toRunner[c]) :
    f.type = "host.ready" => f.seq <= Len(downApplied)

Places(queue, types) == {i \in 1..Len(queue) : queue[i].type \in types}
AtMostOne(S) == \A i, j \in S : i = j

(* One durable frame at a time on a connection: what is unread, or answered
   and unread, is at most one event (flushDurable). *)
OneDurableAtATime ==
  rSock # NoConn =>
    LET unread   == Places(toHost[rSock], {"durable"})
        answered == Places(toRunner[rSock], {"ack", "nack"})
    IN /\ AtMostOne(unread) /\ AtMostOne(answered)
       /\ unread = {} \/ answered = {}

(* Each direction, seen through its journal, its log and the commits of its
   peer, is an ordered journal. *)
Up == INSTANCE OrderedJournal WITH
        log <- upLog, pending <- upJournal, applied <- upApplied
Down == INSTANCE OrderedJournal WITH
        log <- downLog, pending <- downJournal, applied <- downApplied

UpIsOrderedJournal   == Up!Spec
DownIsOrderedJournal == Down!Spec

(* Nobody waits for nothing: on a connection that both ends hold, with nothing
   under way and an event journaled or host.ready unread, somebody has an event
   to write, or a timer of the runner ends it.  No timer of the host is needed:
   its own event in flight is under way, and one that was in flight on a
   connection since replaced, which hostAckTimer will not end, keeps host.ready
   from the runner, whose timer for it is then armed (flushHostEvents,
   handleConnection, flushDurable). *)
NobodyWaits ==
  /\ HostWrites /\ rUp /\ rSock = hConn /\ Quiet(rSock)
  /\ upJournal # {} \/ downJournal # {} \/ ~hostReady
  => \/ sentAt # {} \/ ~hostReady                                   \* RunnerTimeout
     \/ upJournal # {}                                              \* RunnerFlush
     \/ FlushHostEvents(hInFlight, hReadySent, downJournal) # <<>>  \* HostNotify

NothingRefused ==
  \A log \in {upLog, downLog} : \A i \in DOMAIN log : log[i] \notin Rejected

(* Once faults stop, both journals drain and the runner has been told it is
   up to date, for good: no interleaving of replays, timeouts, refused and
   half-closed connections leaves the two sides waiting on each other. *)
EventuallyDrained ==
  []NothingRefused => <>[](upJournal = {} /\ downJournal = {} /\ hostReady)

(* docs/session-link.md: "A reconnect replays the unacknowledged head."  On
   an accepted connection the host's in-flight event is one it has written to
   that connection. *)
ReconnectReplaysHead ==
  HostReads /\ hInFlight # NoFlight => hInFlight.conn = hConn

------------------------------------------------------------------------------
(* The inductive invariant behind ExactlyOnceInOrder, NothingLost,
   OnlyRejectedEventsAreNacked and ReadyMeansComplete. *)

(* A journal is what follows a point at or before the peer's next event. *)
Contiguous(journal, n, committed) ==
  \E first \in 1..(committed + 1) : journal = first..n

UpInv ==
  /\ IsPrefixOf(upApplied, upLog)
  /\ Contiguous(upJournal, Len(upLog), Len(upApplied))
  /\ \A r \in receipts : r.seq \in 1..Len(upApplied) /\ r.payload = upLog[r.seq]
  /\ upApplied # <<>> => \E r \in receipts : r.seq = Len(upApplied)

DownInv ==
  /\ IsPrefixOf(downApplied, downLog)
  /\ Contiguous(downJournal, Len(downLog), Len(downApplied))
  /\ rLast = Len(downApplied)

(* Frames never run ahead of the journal they come from, and an
   acknowledgement never runs ahead of the commit it stands for. *)
HostFrameOK(f) ==
  /\ f.type = "durable" =>
       /\ f.seq \in 1..Len(upLog) /\ f.payload = upLog[f.seq]
       /\ \A s \in upJournal : f.seq <= s
  /\ f.type = "host.ack" =>
       /\ f.seq <= Len(downApplied)
       /\ \A s \in downJournal : f.seq <= s
  /\ f.type = "host.nack" =>
       f.seq \in 1..Len(downLog) /\ downLog[f.seq] \in Rejected

RunnerFrameOK(f) ==
  /\ f.type = "host.event" =>
       /\ f.seq \in 1..Len(downLog) /\ f.payload = downLog[f.seq]
       /\ \A s \in downJournal : f.seq <= s
  /\ f.type = "ack" =>
       /\ f.seq <= Len(upApplied)
       /\ \A s \in upJournal : f.seq <= s
  /\ f.type = "nack" =>
       f.seq \in 1..Len(upLog) /\ upLog[f.seq] \in Rejected
  /\ f.type = "host.ready" => f.seq <= Len(downApplied)

WireInv ==
  \A c \in Conns :
    /\ \A f \in FramesIn(toHost[c]) : HostFrameOK(f)
    /\ \A f \in FramesIn(toRunner[c]) : RunnerFrameOK(f)

IInv == TypeOK /\ UpInv /\ DownInv /\ WireInv

(* The invariants behind NobodyWaits.  A runner is told host.ready only by a
   connection that has sent it, which none has that still holds the event of
   the one before. *)
ToldReady == hostReady \/ \E f \in FramesIn(toRunner[rSock]) : f.type = "host.ready"

ReadyInv ==
  /\ hConn # NoConn /\ hInFlight # NoFlight /\ hInFlight.conn # hConn => ~hReadySent
  /\ rSock # NoConn /\ rSock = hConn /\ ToldReady => hReadySent
  /\ rSock \in backlog => ~hostReady /\ toRunner[rSock] = <<>>
  /\ hConn # NoConn => hConn \notin backlog

(* The event in flight on the current connection, or its answer, is under way. *)
UnderWay ==
  \/ \E f \in FramesIn(toRunner[rSock]) : f.type = "host.event" /\ f.seq = hInFlight.seq
  \/ \E f \in FramesIn(toHost[rSock]) : f.type = "host.ack" /\ f.seq = hInFlight.seq

FlightInv ==
  /\ HostReads /\ rSock = hConn /\ hInFlight # NoFlight /\ hInFlight.conn = hConn => UnderWay
  /\ hInFlight.conn \in {NoConn, hConn} \union hDestroyed
  /\ backlog \cap hDestroyed = {}
  /\ ~hUp => hConn = NoConn
=============================================================================
