--------------------------- MODULE SessionLinkProofs ---------------------------
(***************************************************************************)
(* SessionLink keeps IInv, hence its safety properties, and implements     *)
(* OrderedJournal in each direction, for every set of sockets and          *)
(* payloads, every retention of receipts and every number of events and    *)
(* faults.                                                                 *)
(***************************************************************************)
EXTENDS SessionLinkLemmas

------------------------------------------------------------------------------
(* A step keeps IInv when it keeps the types and the disks' invariant, what
   it writes is good, and what was good stays so. *)

DiskTypeOK ==
  /\ upLog \in Seq(Payloads) /\ upApplied \in Seq(Payloads)
  /\ downLog \in Seq(Payloads) /\ downApplied \in Seq(Payloads)
  /\ upJournal \in SUBSET Nat /\ downJournal \in SUBSET Nat
  /\ rLast \in Nat
  /\ receipts \in SUBSET [seq : Nat, payload : Payloads]

RunnerTypeOK ==
  /\ rUp \in BOOLEAN /\ hostReady \in BOOLEAN
  /\ rSock \in Conns \union {NoConn}
  /\ sentAt \in SUBSET Nat

HostTypeOK ==
  /\ hUp \in BOOLEAN /\ hEnded \in BOOLEAN /\ hReadySent \in BOOLEAN
  /\ hConn \in Conns \union {NoConn}
  /\ hDestroyed \in SUBSET Conns
  /\ hInFlight \in Flights

NetTypeOK == backlog \in SUBSET Conns /\ faults \in Nat

LEMMA StepKeepsIInv ==
  ASSUME IInv, NEW S, NEW T,
         DiskTypeOK', RunnerTypeOK', HostTypeOK', NetTypeOK',
         DiskInv', FramesStayOK,
         HostQueuesGrowBy(S), RunnerQueuesGrowBy(T),
         \A f \in S : HostFrameOK(f)',
         \A f \in T : RunnerFrameOK(f)'
  PROVE  IInv'
<1>1. TypeOK'
  BY DEF TypeOK, DiskTypeOK, RunnerTypeOK, HostTypeOK, NetTypeOK, Flights,
         HostQueuesGrowBy, RunnerQueuesGrowBy
<1>2. \A c \in Conns : FramesIn(toHost[c]) \subseteq Frames /\ FramesIn(toRunner[c]) \subseteq Frames
  BY DEF IInv, TypeOK, FramesIn
<1>3. WireInv'
  BY <1>2, WireStep DEF IInv, FramesStayOK
<1>4. QED
  BY <1>1, <1>3 DEF IInv, DiskInv

(* The parts of the type invariant. *)
LEMMA TypeParts ==
  ASSUME IInv
  PROVE  TypeOK /\ DiskTypeOK /\ RunnerTypeOK /\ HostTypeOK /\ NetTypeOK /\ DiskInv /\ WireInv
BY DEF IInv, TypeOK, DiskTypeOK, RunnerTypeOK, HostTypeOK, NetTypeOK, DiskInv, Flights

LEMMA DisksSame ==
  ASSUME IInv, UNCHANGED <<runnerDisk, hostDisk>>
  PROVE  DiskTypeOK' /\ DiskInv' /\ FramesStayOK
<1>1. DiskTypeOK'
  BY TypeParts DEF DiskTypeOK, runnerDisk, hostDisk
<1>2. QED
  BY <1>1, TypeParts, DisksUntouched

LEMMA RunnerSame ==
  ASSUME IInv, UNCHANGED runnerMem
  PROVE  RunnerTypeOK'
BY TypeParts DEF RunnerTypeOK, runnerMem

LEMMA HostSame ==
  ASSUME IInv, UNCHANGED hostMem
  PROVE  HostTypeOK'
BY TypeParts DEF HostTypeOK, hostMem

LEMMA RunnerResetTypes ==
  ASSUME IInv, RunnerReset, rUp' \in BOOLEAN
  PROVE  RunnerTypeOK' /\ RunnerQueuesGrowBy({})
<1>1. RunnerTypeOK'
  BY DEF RunnerReset, RunnerTypeOK
<1>2. QED
  BY <1>1, TypeParts, RunnerResetQueues

LEMMA HostResetTypes ==
  ASSUME HostReset
  PROVE  HostTypeOK' /\ backlog' \in SUBSET Conns /\ HostQueuesGrowBy({})
<1>1. NoFlight \in Flights
  BY DEF NoFlight, Flights
<1>2. HostTypeOK' /\ backlog' \in SUBSET Conns
  BY <1>1 DEF HostReset, HostTypeOK
<1>3. QED
  BY <1>2, HostResetQueues

(* The runner's journal is an interval, and a good frame it may send. *)
LEMMA UpJournalShape ==
  ASSUME IInv
  PROVE  \E first \in Nat \ {0} : upJournal = first..Len(upLog)
BY TypeParts DEF DiskInv, UpInv, Contiguous, DiskTypeOK

LEMMA DownJournalShape ==
  ASSUME IInv
  PROVE  Tailing(downJournal, Len(downLog))
BY TypeParts DEF DiskInv, DownInv, Contiguous, DiskTypeOK, Tailing

------------------------------------------------------------------------------
(* Runner steps *)

LEMMA RunnerJournalStep ==
  ASSUME IInv, NEW p \in Payloads, RunnerJournal(p)
  PROVE  IInv'
<1>1. DiskInv' /\ FramesStayOK /\ upLog' \in Seq(Payloads) /\ upJournal' \in SUBSET Nat
  BY TypeParts, RunnerAppends DEF RunnerJournal
<1>2. DiskTypeOK'
  BY <1>1, TypeParts DEF RunnerJournal, DiskTypeOK, hostDisk
<1>3. RunnerTypeOK' /\ HostTypeOK'
  BY RunnerSame, HostSame DEF RunnerJournal
<1>4. NetTypeOK' /\ HostQueuesGrowBy({}) /\ RunnerQueuesGrowBy({})
  BY TypeParts, HostQueuesSame, RunnerQueuesSame DEF RunnerJournal, NetTypeOK, net
<1>5. QED
  BY <1>1, <1>2, <1>3, <1>4, StepKeepsIInv

(* What a flush of the runner's journal adds is good. *)
LEMMA FlushDurableGood ==
  ASSUME IInv, NEW outstanding \in SUBSET Nat
  PROVE  /\ FlushDurable(outstanding, upJournal) \in Seq(Frames)
         /\ \A f \in FramesIn(FlushDurable(outstanding, upJournal)) :
              f \in Frames /\ HostFrameOK(f)
         /\ SentAfterFlush(outstanding, upJournal) \in SUBSET Nat
<1>1. PICK first \in Nat \ {0} : upJournal = first..Len(upLog)
  BY UpJournalShape
<1>2. upLog \in Seq(Payloads)
  BY TypeParts DEF DiskTypeOK
<1>3. QED
  BY <1>1, <1>2, FlushDurableFrames, SentAfterFlushType DEF HostFrameOK, FramesIn

LEMMA RunnerConnectStep ==
  ASSUME IInv, NEW c \in Conns, RunnerConnect(c)
  PROVE  IInv'
<1> DEFINE S == FramesIn(FlushDurable({}, upJournal))
<1>1. DiskTypeOK' /\ DiskInv' /\ FramesStayOK
  BY DisksSame DEF RunnerConnect
<1>2. /\ FlushDurable({}, upJournal) \in Seq(Frames)
      /\ \A f \in S : f \in Frames /\ HostFrameOK(f)
      /\ SentAfterFlush({}, upJournal) \in SUBSET Nat
  BY FlushDurableGood
<1>3. RunnerTypeOK' /\ HostTypeOK' /\ NetTypeOK'
  BY <1>2, TypeParts, HostSame DEF RunnerConnect, RunnerTypeOK, NetTypeOK
<1>4. HostQueuesGrowBy(S)
  <2>1. toHost' = [toHost EXCEPT ![c] = FlushDurable({}, upJournal)]
    BY DEF RunnerConnect
  <2>2. toHost \in [Conns -> Seq(Frames)]
    BY TypeParts DEF TypeOK
  <2>3. \A d \in Conns : toHost'[d] = FlushDurable({}, upJournal) \/ toHost'[d] = toHost[d]
    BY <2>1, <2>2
  <2>4. toHost' \in [Conns -> Seq(Frames)]
    BY <1>2, <2>1, <2>2
  <2>5. QED
    BY <2>3, <2>4 DEF HostQueuesGrowBy
<1>5. RunnerQueuesGrowBy({})
  <2>1. toRunner' = [toRunner EXCEPT ![c] = <<>>] /\ toRunner \in [Conns -> Seq(Frames)]
    BY TypeParts DEF RunnerConnect, TypeOK
  <2>2. \A d \in Conns : toRunner'[d] = <<>> \/ toRunner'[d] = toRunner[d]
    BY <2>1
  <2>3. toRunner' \in [Conns -> Seq(Frames)]
    BY <2>1, FewFrames
  <2>4. QED
    BY <2>2, <2>3, FewFrames DEF RunnerQueuesGrowBy
<1>6. \A f \in S : HostFrameOK(f)'
  BY <1>1, <1>2 DEF FramesStayOK
<1>7. QED
  BY <1>1, <1>3, <1>4, <1>5, <1>6, StepKeepsIInv

LEMMA RunnerFlushStep ==
  ASSUME IInv, RunnerFlush
  PROVE  IInv'
<1> DEFINE flush == FlushDurable(sentAt, upJournal)
<1>0. sentAt \in SUBSET Nat /\ rSock \in Conns
  BY TypeParts DEF RunnerFlush, RunnerTypeOK
<1>1. DiskTypeOK' /\ DiskInv' /\ FramesStayOK
  BY DisksSame DEF RunnerFlush
<1>2. /\ flush \in Seq(Frames)
      /\ \A f \in FramesIn(flush) : f \in Frames /\ HostFrameOK(f)
      /\ SentAfterFlush(sentAt, upJournal) \in SUBSET Nat
  BY <1>0, FlushDurableGood
<1>3. RunnerTypeOK' /\ HostTypeOK' /\ NetTypeOK'
  BY <1>2, TypeParts, HostSame DEF RunnerFlush, RunnerTypeOK, NetTypeOK
<1>4. HostQueuesGrowBy(FramesIn(flush)) /\ RunnerQueuesGrowBy({})
  BY <1>0, <1>2, TypeParts, RunnerWriteQueues, RunnerQueuesSame DEF RunnerFlush
<1>5. \A f \in FramesIn(flush) : HostFrameOK(f)'
  BY <1>1, <1>2 DEF FramesStayOK
<1>6. QED
  BY <1>1, <1>3, <1>4, <1>5, StepKeepsIInv

LEMMA RunnerReceiveAckStep ==
  ASSUME IInv, RunnerReceiveAck
  PROVE  IInv'
<1> DEFINE g == Head(toRunner[rSock])
           rest == sentAt \ {g.seq}
           flush == FlushDurable(rest, upJournal')
<1>1. RunnerReads("ack") /\ RunnerConsume
  BY DEF RunnerReceiveAck
<1>2. /\ rSock \in Conns /\ RunnerQueuesGrowBy({})
      /\ g \in Frames /\ g \in FramesIn(toRunner[rSock]) /\ g.type = "ack"
  BY <1>1, TypeParts, RunnerConsumeQueues
<1>3. RunnerFrameOK(g) /\ g.seq \in Nat
  BY <1>2, TypeParts DEF WireInv, Frames
<1>4. /\ upJournal' = upJournal \ {g.seq}
      /\ sentAt' = SentAfterFlush(rest, upJournal')
      /\ toHost' = RunnerWrite(rSock, flush)
      /\ UNCHANGED <<rUp, rSock, hostReady, upLog, rLast, downApplied,
                     hostDisk, hostMem, backlog, faults>>
  BY DEF RunnerReceiveAck
<1> HIDE DEF g
<1>5. /\ DiskInv' /\ FramesStayOK
  BY <1>2, <1>3, <1>4, TypeParts, RunnerForgets DEF RunnerFrameOK
<1>6. DiskTypeOK' /\ HostTypeOK'
  BY <1>4, TypeParts, HostSame DEF DiskTypeOK, hostDisk
<1>7. PICK first \in Nat \ {0} : upJournal' = first..Len(upLog)
  BY <1>4, <1>5, <1>6 DEF DiskInv, UpInv, Contiguous, DiskTypeOK
<1>8. /\ rest \in SUBSET Nat /\ upLog \in Seq(Payloads)
  BY TypeParts DEF RunnerTypeOK, DiskTypeOK
<1>9. /\ flush \in Seq(Frames)
      /\ \A f \in FramesIn(flush) :
           /\ f.type = "durable"
           /\ f.seq \in 1..Len(upLog) /\ f.payload = upLog[f.seq]
           /\ \A s \in upJournal' : f.seq <= s
      /\ sentAt' \in SUBSET Nat
  BY <1>4, <1>7, <1>8, FlushDurableFrames, SentAfterFlushType
<1>10. \A f \in FramesIn(flush) : HostFrameOK(f)'
  BY <1>4, <1>9 DEF HostFrameOK
<1>11. RunnerTypeOK' /\ NetTypeOK'
  BY <1>4, <1>9, TypeParts DEF RunnerTypeOK, NetTypeOK
<1>12. HostQueuesGrowBy(FramesIn(flush))
  BY <1>2, <1>4, <1>9, TypeParts, RunnerWriteQueues
<1>13. QED
  BY <1>2, <1>5, <1>6, <1>10, <1>11, <1>12, StepKeepsIInv

(* The steps that only forget a connection or a process. *)
LEMMA RunnerDisconnectStep ==
  ASSUME IInv, RunnerReset, rUp' \in BOOLEAN, faults' \in Nat,
         UNCHANGED <<runnerDisk, hostDisk, hostMem, backlog, toHost>>
  PROVE  IInv'
<1>1. DiskTypeOK' /\ DiskInv' /\ FramesStayOK
  BY DisksSame
<1>2. RunnerTypeOK' /\ HostTypeOK' /\ NetTypeOK'
  BY TypeParts, RunnerResetTypes, HostSame DEF NetTypeOK
<1>3. HostQueuesGrowBy({}) /\ RunnerQueuesGrowBy({})
  BY TypeParts, HostQueuesSame, RunnerResetTypes
<1>4. QED
  BY <1>1, <1>2, <1>3, StepKeepsIInv

LEMMA RunnerForgettingSteps ==
  ASSUME IInv,
         \/ RunnerReceiveNack \/ RunnerPeerEnded \/ RunnerTimeout
         \/ RunnerDrop \/ RunnerCrash
  PROVE  IInv'
<1>1. faults \in Nat /\ faults + 1 \in Nat /\ rUp \in BOOLEAN
  BY TypeParts DEF NetTypeOK, RunnerTypeOK
<1>2. CASE RunnerReceiveNack
  BY <1>1, <1>2, RunnerDisconnectStep DEF RunnerReceiveNack
<1>3. CASE RunnerPeerEnded
  BY <1>1, <1>3, RunnerDisconnectStep DEF RunnerPeerEnded, RunnerDisconnect
<1>4. CASE RunnerTimeout
  BY <1>1, <1>4, RunnerDisconnectStep DEF RunnerTimeout, RunnerDisconnect
<1>5. CASE RunnerDrop
  BY <1>1, <1>5, RunnerDisconnectStep DEF RunnerDrop, RunnerDisconnect
<1>6. CASE RunnerCrash
  BY <1>1, <1>6, RunnerDisconnectStep DEF RunnerCrash
<1>7. QED
  BY <1>2, <1>3, <1>4, <1>5, <1>6

(* The acknowledgement the runner writes for f once rLast covers it. *)
LEMMA HostAckGood ==
  ASSUME IInv, NEW f \in Frames, f.type = "host.event", RunnerFrameOK(f),
         f.seq <= Len(downApplied'), UNCHANGED downJournal
  PROVE  LET r == Frame("host.ack", f.seq, NoPayload) IN
           r \in Frames /\ HostFrameOK(r)'
<1> DEFINE r == Frame("host.ack", f.seq, NoPayload)
<1>1. f.seq \in Nat
  BY DEF Frames
<1>2. r \in Frames /\ r.type = "host.ack" /\ r.seq = f.seq
  BY <1>1, FrameType DEF FrameTypes
<1> HIDE DEF r
<1>3. \A s \in downJournal' : f.seq <= s
  BY DEF RunnerFrameOK
<1>4. HostFrameOK(r)'
  BY <1>2, <1>3 DEF HostFrameOK
<1>5. QED
  BY <1>2, <1>4 DEF r

LEMMA CommitHostEventKeeps ==
  ASSUME IInv, NEW f \in Frames, f.type = "host.event", RunnerFrameOK(f),
         CommitHostEvent(f), UNCHANGED <<upLog, upJournal, hostDisk>>
  PROVE  /\ DiskInv' /\ FramesStayOK /\ DiskTypeOK'
         /\ ~HostEventThrows(f) => f.seq <= Len(downApplied')
<1>1. CASE HostEventNext(f)
  <2>1. /\ DiskInv' /\ FramesStayOK
        /\ downApplied' \in Seq(Payloads) /\ rLast' \in Nat
        /\ f.seq <= Len(downApplied')
    BY <1>1, TypeParts, RunnerCommits
  <2>2. DiskTypeOK'
    BY <2>1, TypeParts DEF DiskTypeOK, hostDisk
  <2>3. QED
    BY <2>1, <2>2
<1>2. CASE ~HostEventNext(f)
  <2>1. UNCHANGED <<rLast, downApplied>>
    BY <1>2 DEF CommitHostEvent
  <2>2. DiskTypeOK' /\ DiskInv' /\ FramesStayOK
    BY <2>1, DisksSame DEF runnerDisk
  <2>3. ~HostEventThrows(f) => f.seq <= rLast
    BY <1>2 DEF HostEventThrows, HostEventKnown
  <2>4. QED
    BY <2>1, <2>2, <2>3, TypeParts DEF DiskInv, DownInv
<1>3. QED
  BY <1>1, <1>2

LEMMA RunnerReceiveHostEventStep ==
  ASSUME IInv, RunnerReceiveHostEvent
  PROVE  IInv'
<1>1. RunnerReads("host.event") /\ RunnerConsume
  BY DEF RunnerReceiveHostEvent
<1>2. rSock \in Conns /\ RunnerQueuesGrowBy({})
  BY <1>1, TypeParts, RunnerConsumeQueues
<1>3. PICK g \in Frames :
        /\ g = Head(toRunner[rSock])
        /\ g \in FramesIn(toRunner[rSock]) /\ g.type = "host.event"
  BY <1>1, TypeParts, RunnerConsumeQueues
<1>4. RunnerFrameOK(g)
  BY <1>2, <1>3, TypeParts DEF WireInv
<1>5. /\ ~HostEventThrows(g) /\ CommitHostEvent(g)
      /\ toHost' = RunnerWrite(rSock, <<Frame("host.ack", g.seq, NoPayload)>>)
      /\ UNCHANGED <<upLog, upJournal, hostDisk, runnerMem, hostMem, backlog, faults>>
  BY <1>3 DEF RunnerReceiveHostEvent
<1>6. DiskInv' /\ FramesStayOK /\ DiskTypeOK' /\ g.seq <= Len(downApplied')
  BY <1>3, <1>4, <1>5, CommitHostEventKeeps
<1>7. PICK r \in Frames : r = Frame("host.ack", g.seq, NoPayload) /\ HostFrameOK(r)'
  BY <1>3, <1>4, <1>5, <1>6, HostAckGood DEF hostDisk
<1>8. <<r>> \in Seq(Frames) /\ FramesIn(<<r>>) = {r}
  BY <1>7, FewFrames
<1>9. HostQueuesGrowBy({r})
  BY <1>2, <1>5, <1>7, <1>8, TypeParts, RunnerWriteQueues
<1>10. RunnerTypeOK' /\ HostTypeOK' /\ NetTypeOK'
  BY <1>5, TypeParts, RunnerSame, HostSame DEF NetTypeOK
<1>11. QED
  BY <1>2, <1>6, <1>7, <1>9, <1>10, StepKeepsIInv

(* A host event throws only when its payload is rejected: the frame is never
   past the next one, because the runner's commits cover what the host has
   deleted. *)
LEMMA RunnerRejectHostEventStep ==
  ASSUME IInv, RunnerRejectHostEvent
  PROVE  IInv'
<1>1. RunnerReads("host.event")
  BY DEF RunnerRejectHostEvent
<1>2. rSock \in Conns
  BY <1>1, TypeParts, RunnerReadsHead
<1>3. PICK g \in Frames :
        /\ g = Head(toRunner[rSock])
        /\ g \in FramesIn(toRunner[rSock]) /\ g.type = "host.event"
  BY <1>1, TypeParts, RunnerReadsHead
<1>4. RunnerFrameOK(g) /\ g.seq \in Nat
  BY <1>2, <1>3, TypeParts DEF WireInv, Frames
<1>5. g.seq \in 1..Len(downLog) /\ g.payload = downLog[g.seq]
  BY <1>3, <1>4 DEF RunnerFrameOK
<1>6. /\ HostEventThrows(g) /\ RunnerReset /\ rUp' = FALSE
      /\ toHost' = RunnerWrite(rSock, <<Frame("host.nack", g.seq, NoPayload)>>)
      /\ UNCHANGED <<runnerDisk, hostDisk, hostMem, backlog, faults>>
  BY <1>3 DEF RunnerRejectHostEvent
<1>7. g.seq <= Len(downApplied) + 1
  <2>1. PICK first \in 1..(Len(downApplied) + 1) : downJournal = first..Len(downLog)
    BY TypeParts DEF DiskInv, DownInv, Contiguous
  <2>2. Len(downApplied) \in Nat /\ Len(downLog) \in Nat
    BY TypeParts DEF DiskTypeOK
  <2>3. CASE first <= Len(downLog)
    BY <1>3, <1>4, <2>1, <2>2, <2>3 DEF RunnerFrameOK
  <2>4. CASE first > Len(downLog)
    BY <1>5, <2>1, <2>2, <2>4
  <2>5. QED
    BY <2>1, <2>2, <2>3, <2>4
<1>8. g.payload \in Rejected
  BY <1>4, <1>6, <1>7, TypeParts
     DEF HostEventThrows, HostEventKnown, HostEventNext, DiskInv, DownInv, DiskTypeOK
<1>9. PICK r \in Frames :
        /\ r = Frame("host.nack", g.seq, NoPayload)
        /\ r.type = "host.nack" /\ r.seq = g.seq
  BY <1>4, FrameType DEF FrameTypes
<1>10. HostFrameOK(r)
  BY <1>5, <1>8, <1>9 DEF HostFrameOK
<1>11. DiskTypeOK' /\ DiskInv' /\ FramesStayOK
  BY <1>6, DisksSame
<1>12. <<r>> \in Seq(Frames) /\ FramesIn(<<r>>) = {r}
  BY FewFrames
<1>13. HostQueuesGrowBy({r}) /\ RunnerQueuesGrowBy({})
  BY <1>2, <1>6, <1>9, <1>12, TypeParts, RunnerWriteQueues, RunnerResetQueues
<1>14. RunnerTypeOK' /\ HostTypeOK' /\ NetTypeOK'
  BY <1>6, TypeParts, RunnerResetTypes, HostSame DEF NetTypeOK
<1>15. HostFrameOK(r)'
  BY <1>10, <1>11 DEF FramesStayOK
<1>16. QED
  BY <1>11, <1>13, <1>14, <1>15, StepKeepsIInv

LEMMA RunnerReceiveReadyStep ==
  ASSUME IInv, RunnerReceiveReady
  PROVE  IInv'
<1>1. DiskTypeOK' /\ DiskInv' /\ FramesStayOK
  BY DisksSame DEF RunnerReceiveReady
<1>2. RunnerTypeOK' /\ HostTypeOK' /\ NetTypeOK'
  BY TypeParts, HostSame DEF RunnerReceiveReady, RunnerTypeOK, NetTypeOK
<1>3. HostQueuesGrowBy({}) /\ RunnerQueuesGrowBy({})
  BY TypeParts, HostQueuesSame, RunnerConsumeQueues DEF RunnerReceiveReady
<1>4. QED
  BY <1>1, <1>2, <1>3, StepKeepsIInv

LEMMA RunnerCrashAfterCommitStep ==
  ASSUME IInv, RunnerCrashAfterCommit
  PROVE  IInv'
<1> DEFINE g == Head(toRunner[rSock])
<1>1. /\ g \in Frames /\ g \in FramesIn(toRunner[rSock]) /\ g.type = "host.event"
      /\ rSock \in Conns
  BY TypeParts, RunnerReadsHead DEF RunnerCrashAfterCommit
<1>2. RunnerFrameOK(g)
  BY <1>1, TypeParts DEF WireInv
<1>3. DiskInv' /\ FramesStayOK /\ DiskTypeOK'
  BY <1>1, <1>2, CommitHostEventKeeps DEF RunnerCrashAfterCommit
<1>4. RunnerTypeOK' /\ HostTypeOK' /\ NetTypeOK'
  <2>1. RunnerTypeOK' /\ HostTypeOK'
    BY RunnerResetTypes, HostSame DEF RunnerCrashAfterCommit
  <2>2. NetTypeOK'
    BY TypeParts DEF RunnerCrashAfterCommit, NetTypeOK
  <2>3. QED
    BY <2>1, <2>2
<1>5. HostQueuesGrowBy({}) /\ RunnerQueuesGrowBy({})
  BY TypeParts, HostQueuesSame, RunnerResetQueues DEF RunnerCrashAfterCommit
<1>6. QED
  BY <1>3, <1>4, <1>5, StepKeepsIInv

LEMMA RunnerStartStep ==
  ASSUME IInv, RunnerStart
  PROVE  IInv'
<1>1. DiskTypeOK' /\ DiskInv' /\ FramesStayOK
  BY DisksSame DEF RunnerStart
<1>2. RunnerTypeOK' /\ HostTypeOK' /\ NetTypeOK'
  BY TypeParts, HostSame DEF RunnerStart, RunnerTypeOK, NetTypeOK, net
<1>3. HostQueuesGrowBy({}) /\ RunnerQueuesGrowBy({})
  BY TypeParts, HostQueuesSame, RunnerQueuesSame DEF RunnerStart, net
<1>4. QED
  BY <1>1, <1>2, <1>3, StepKeepsIInv

------------------------------------------------------------------------------
(* Host steps *)

(* What a host write adds, beyond its reply, is good: host.ready is written
   only with an empty journal, when the runner has committed everything. *)
LEMMA HostWriteGood ==
  ASSUME IInv, DownInv', NEW c \in Conns, NEW reply \in Seq(Frames),
         NEW flight \in Flights, NEW readySent, NEW journal,
         Tailing(journal, Len(downLog)), downJournal' = journal,
         UNCHANGED <<downLog, downApplied>>,
         HostWrite(c, reply, flight, readySent, journal)
  PROVE  /\ hInFlight' \in Flights
         /\ hReadySent' \in BOOLEAN
         /\ \E T : /\ RunnerQueuesGrowBy(FramesIn(reply) \union T)
                  /\ \A f \in T : RunnerFrameOK(f)'
<1>0. PICK first \in Nat \ {0} : journal = first..Len(downLog)
  BY DEF Tailing
<1>1. PICK T : T = FramesIn(FlushHostEvents(flight, readySent, journal))
  OBVIOUS
<1>2. TypeOK /\ downLog \in Seq(Payloads) /\ Len(downLog) \in Nat /\ Len(downApplied) \in Nat
  BY TypeParts DEF DiskTypeOK
<1>3. ASSUME NEW f \in T PROVE RunnerFrameOK(f)'
  <2>1. \/ /\ f.type = "host.event"
           /\ f.seq \in 1..Len(downLog) /\ f.payload = downLog[f.seq]
           /\ \A s \in first..Len(downLog) : f.seq <= s
        \/ /\ f.type = "host.ready"
           /\ f.seq = Len(downLog)
           /\ first..Len(downLog) = {}
    BY <1>0, <1>1, <1>2, FlushHostEventsFrames
  <2>2. CASE f.type = "host.event"
    BY <1>0, <2>1, <2>2 DEF RunnerFrameOK
  <2>3. CASE f.type = "host.ready" /\ f.seq = Len(downLog) /\ first..Len(downLog) = {}
    <3>1. PICK g \in 1..(Len(downApplied) + 1) : first..Len(downLog) = g..Len(downLog)
      BY <1>0 DEF DownInv, Contiguous
    <3>2. Len(downLog) <= Len(downApplied)
      BY <1>2, <2>3, <3>1
    <3>3. QED
      BY <2>3, <3>2 DEF RunnerFrameOK
  <2>4. QED
    BY <2>1, <2>2, <2>3
<1>4. /\ hInFlight' \in Flights
      /\ hReadySent' \in BOOLEAN
      /\ RunnerQueuesGrowBy(FramesIn(reply) \union T)
  BY <1>1, <1>2, HostWriteEffect
<1>5. QED
  BY <1>3, <1>4

LEMMA HostJournalStep ==
  ASSUME IInv, NEW p \in Payloads, HostJournal(p)
  PROVE  IInv'
<1>1. DiskInv' /\ FramesStayOK /\ downLog' \in Seq(Payloads) /\ downJournal' \in SUBSET Nat
  BY TypeParts, HostAppends DEF HostJournal
<1>2. DiskTypeOK'
  BY <1>1, TypeParts DEF HostJournal, DiskTypeOK, runnerDisk
<1>3. RunnerTypeOK' /\ HostTypeOK'
  BY RunnerSame, HostSame DEF HostJournal
<1>4. NetTypeOK' /\ HostQueuesGrowBy({}) /\ RunnerQueuesGrowBy({})
  BY TypeParts, HostQueuesSame, RunnerQueuesSame DEF HostJournal, NetTypeOK, net
<1>5. QED
  BY <1>1, <1>2, <1>3, <1>4, StepKeepsIInv

LEMMA HostAcceptStep ==
  ASSUME IInv, NEW c \in Conns, HostAccept(c)
  PROVE  IInv'
<1>1. DiskTypeOK' /\ DiskInv' /\ FramesStayOK
  BY DisksSame DEF HostAccept
<1>2. Tailing(downJournal, Len(downLog))
  BY DownJournalShape
<1>3. HostWrite(c, <<>>, hInFlight, FALSE, downJournal)
  BY DEF HostAccept
<1>4. /\ hInFlight \in Flights
      /\ UNCHANGED <<downLog, downJournal, downApplied>>
      /\ DownInv'
  BY <1>1, TypeParts DEF HostTypeOK, HostAccept, hostDisk, runnerDisk, DiskInv
<1>5. /\ hInFlight' \in Flights
      /\ hReadySent' \in BOOLEAN
  BY <1>2, <1>3, <1>4, FewFrames, HostWriteGood
<1>6. \E T : RunnerQueuesGrowBy(T) /\ \A f \in T : RunnerFrameOK(f)'
  <2>1. PICK T : /\ RunnerQueuesGrowBy(FramesIn(<<>>) \union T)
                 /\ \A f \in T : RunnerFrameOK(f)'
    BY <1>2, <1>3, <1>4, FewFrames, HostWriteGood
  <2>2. RunnerQueuesGrowBy(T)
    BY <2>1, FewFrames DEF RunnerQueuesGrowBy
  <2>3. QED
    BY <2>1, <2>2
<1>7. RunnerTypeOK' /\ HostTypeOK'
  BY <1>5, TypeParts, RunnerSame DEF HostAccept, HostTypeOK
<1>8. NetTypeOK' /\ HostQueuesGrowBy({})
  BY TypeParts, HostQueuesSame DEF HostAccept, NetTypeOK
<1>9. QED
  BY <1>1, <1>6, <1>7, <1>8, StepKeepsIInv

LEMMA HostNotifyStep ==
  ASSUME IInv, HostNotify
  PROVE  IInv'
<1>0. hConn \in Conns
  BY TypeParts DEF HostNotify, HostWrites, HostReads, HostTypeOK
<1>1. DiskTypeOK' /\ DiskInv' /\ FramesStayOK
  BY DisksSame DEF HostNotify
<1>2. Tailing(downJournal, Len(downLog))
  BY DownJournalShape
<1>3. HostWrite(hConn, <<>>, hInFlight, hReadySent, downJournal)
  BY DEF HostNotify
<1>4. /\ hInFlight \in Flights
      /\ UNCHANGED <<downLog, downJournal, downApplied>>
      /\ DownInv'
  BY <1>1, TypeParts DEF HostTypeOK, HostNotify, hostDisk, runnerDisk, DiskInv
<1>5. /\ hInFlight' \in Flights
      /\ hReadySent' \in BOOLEAN
  BY <1>0, <1>2, <1>3, <1>4, FewFrames, HostWriteGood
<1>6. \E T : RunnerQueuesGrowBy(T) /\ \A f \in T : RunnerFrameOK(f)'
  <2>1. PICK T : /\ RunnerQueuesGrowBy(FramesIn(<<>>) \union T)
                 /\ \A f \in T : RunnerFrameOK(f)'
    BY <1>0, <1>2, <1>3, <1>4, FewFrames, HostWriteGood
  <2>2. RunnerQueuesGrowBy(T)
    BY <2>1, FewFrames DEF RunnerQueuesGrowBy
  <2>3. QED
    BY <2>1, <2>2
<1>7. RunnerTypeOK' /\ HostTypeOK'
  BY <1>5, TypeParts, RunnerSame DEF HostNotify, HostTypeOK
<1>8. NetTypeOK' /\ HostQueuesGrowBy({})
  BY TypeParts, HostQueuesSame DEF HostNotify, NetTypeOK
<1>9. QED
  BY <1>1, <1>6, <1>7, <1>8, StepKeepsIInv

(* The host applies a durable frame, or finds it applied already. *)
LEMMA CommitDurableKeeps ==
  ASSUME IInv, NEW f \in Frames, f.type = "durable", HostFrameOK(f),
         CommitDurable(f), UNCHANGED <<runnerDisk, downLog, downJournal>>
  PROVE  /\ DiskInv' /\ FramesStayOK /\ DiskTypeOK'
         /\ Fresh(f) \/ Replayed(f) => f.seq <= Len(upApplied')
<1>1. CASE Fresh(f)
  <2>1. /\ DiskInv' /\ FramesStayOK
        /\ upApplied' \in Seq(Payloads)
        /\ receipts' \in SUBSET [seq : Nat, payload : Payloads]
        /\ f.seq <= Len(upApplied')
    BY <1>1, TypeParts, HostCommits
  <2>2. DiskTypeOK'
    BY <2>1, TypeParts DEF DiskTypeOK, runnerDisk
  <2>3. QED
    BY <2>1, <2>2
<1>2. CASE ~Fresh(f)
  <2>1. UNCHANGED <<upApplied, receipts>>
    BY <1>2 DEF CommitDurable
  <2>2. DiskTypeOK' /\ DiskInv' /\ FramesStayOK
    BY <2>1, DisksSame DEF hostDisk
  <2>3. Replayed(f) => f.seq <= Len(upApplied)
    BY TypeParts, LastSequenceIsCommitCount DEF Replayed, Receipted, DiskInv, UpInv
  <2>4. QED
    BY <1>2, <2>1, <2>2, <2>3
<1>3. QED
  BY <1>1, <1>2

LEMMA AckGood ==
  ASSUME IInv, NEW f \in Frames, f.type = "durable", HostFrameOK(f),
         f.seq <= Len(upApplied'), UNCHANGED upJournal
  PROVE  LET r == Frame("ack", f.seq, NoPayload) IN
           r \in Frames /\ RunnerFrameOK(r)'
<1> DEFINE r == Frame("ack", f.seq, NoPayload)
<1>1. f.seq \in Nat
  BY DEF Frames
<1>2. r \in Frames /\ r.type = "ack" /\ r.seq = f.seq
  BY <1>1, FrameType DEF FrameTypes
<1> HIDE DEF r
<1>3. \A s \in upJournal' : f.seq <= s
  BY DEF HostFrameOK
<1>4. RunnerFrameOK(r)'
  BY <1>2, <1>3 DEF RunnerFrameOK
<1>5. QED
  BY <1>2, <1>4 DEF r

LEMMA HostReceiveDurableStep ==
  ASSUME IInv, HostReceiveDurable
  PROVE  IInv'
<1>1. HostReceives("durable") /\ HostConsume
  BY DEF HostReceiveDurable
<1>2. hConn \in Conns /\ HostQueuesGrowBy({})
  BY <1>1, TypeParts, HostReceivesHead, HostConsumeQueues
<1>3. PICK g \in Frames :
        /\ g = Head(toHost[hConn])
        /\ g \in FramesIn(toHost[hConn]) /\ g.type = "durable"
  BY <1>1, TypeParts, HostReceivesHead
<1>4. HostFrameOK(g)
  BY <1>2, <1>3, TypeParts DEF WireInv
<1>5. /\ Fresh(g) \/ Replayed(g)
      /\ CommitDurable(g)
      /\ IF hEnded
           THEN UNCHANGED <<hInFlight, hReadySent, toRunner>>
           ELSE HostWrite(hConn, <<Frame("ack", g.seq, NoPayload)>>,
                          hInFlight, hReadySent, downJournal)
      /\ UNCHANGED <<hUp, hConn, hDestroyed, hEnded, downLog, downJournal,
                     runnerDisk, runnerMem, backlog, faults>>
  BY <1>3 DEF HostReceiveDurable
<1>6. DiskInv' /\ FramesStayOK /\ DiskTypeOK' /\ g.seq <= Len(upApplied')
  BY <1>3, <1>4, <1>5, CommitDurableKeeps
<1>7. PICK r \in Frames : r = Frame("ack", g.seq, NoPayload) /\ RunnerFrameOK(r)'
  BY <1>3, <1>4, <1>5, <1>6, AckGood DEF runnerDisk
<1>8. <<r>> \in Seq(Frames) /\ FramesIn(<<r>>) = {r}
  BY <1>7, FewFrames
<1>9. RunnerTypeOK' /\ NetTypeOK'
  BY <1>5, TypeParts, RunnerSame DEF NetTypeOK
<1>10. CASE hEnded
  <2>1. HostTypeOK' /\ RunnerQueuesGrowBy({})
    BY <1>5, <1>10, TypeParts, RunnerQueuesSame DEF HostTypeOK
  <2>2. QED
    BY <1>2, <1>6, <1>9, <2>1, StepKeepsIInv
<1>11. CASE ~hEnded
  <2>1. Tailing(downJournal, Len(downLog))
    BY DownJournalShape
  <2>2. HostWrite(hConn, <<r>>, hInFlight, hReadySent, downJournal)
    BY <1>5, <1>7, <1>11
  <2>3. /\ hInFlight \in Flights
        /\ UNCHANGED <<downLog, downJournal, downApplied>>
        /\ DownInv'
    BY <1>5, <1>6, TypeParts DEF HostTypeOK, runnerDisk, DiskInv
  <2>4. /\ hInFlight' \in Flights
        /\ hReadySent' \in BOOLEAN
    BY <1>2, <1>8, <2>1, <2>2, <2>3, HostWriteGood
  <2>5. PICK T : /\ RunnerQueuesGrowBy(FramesIn(<<r>>) \union T)
                 /\ \A f \in T : RunnerFrameOK(f)'
    BY <1>2, <1>8, <2>1, <2>2, <2>3, HostWriteGood
  <2>6. HostTypeOK'
    BY <1>5, <2>4, TypeParts DEF HostTypeOK
  <2>7. RunnerQueuesGrowBy({r} \union T) /\ \A f \in {r} \union T : RunnerFrameOK(f)'
    BY <1>7, <1>8, <2>5
  <2>8. QED
    BY <1>2, <1>6, <1>9, <2>6, <2>7, StepKeepsIInv
<1>12. QED
  BY <1>10, <1>11

(* A durable frame is refused only when its payload is rejected: it is never
   past the next one, because the host's commits cover what the runner has
   deleted, and a receipt never disagrees with the journal. *)
LEMMA HostRejectDurableStep ==
  ASSUME IInv, HostRejectDurable
  PROVE  IInv'
<1>1. HostReceives("durable") /\ HostConsume
  BY DEF HostRejectDurable
<1>2. hConn \in Conns /\ HostQueuesGrowBy({})
  BY <1>1, TypeParts, HostReceivesHead, HostConsumeQueues
<1>3. PICK g \in Frames :
        /\ g = Head(toHost[hConn])
        /\ g \in FramesIn(toHost[hConn]) /\ g.type = "durable"
  BY <1>1, TypeParts, HostReceivesHead
<1>4. HostFrameOK(g) /\ g.seq \in Nat
  BY <1>2, <1>3, TypeParts DEF WireInv, Frames
<1>5. g.seq \in 1..Len(upLog) /\ g.payload = upLog[g.seq]
  BY <1>3, <1>4 DEF HostFrameOK
<1>6. /\ ~Fresh(g) /\ ~Replayed(g)
      /\ toRunner' = IF rSock = hConn /\ ~hEnded
                       THEN [toRunner EXCEPT ![hConn] =
                               Append(@, Frame("nack", g.seq, NoPayload))]
                       ELSE toRunner
      /\ hEnded' = TRUE
      /\ UNCHANGED <<hUp, hConn, hDestroyed, hInFlight, hReadySent, runnerDisk,
                     hostDisk, runnerMem, backlog, faults>>
  BY <1>3 DEF HostRejectDurable
<1>7. g.seq <= Len(upApplied) + 1 /\ Len(upApplied) \in Nat
  <2>1. PICK first \in 1..(Len(upApplied) + 1) : upJournal = first..Len(upLog)
    BY TypeParts DEF DiskInv, UpInv, Contiguous
  <2>2. Len(upApplied) \in Nat /\ Len(upLog) \in Nat
    BY TypeParts DEF DiskTypeOK
  <2>3. CASE first <= Len(upLog)
    BY <1>3, <1>4, <2>1, <2>2, <2>3 DEF HostFrameOK
  <2>4. CASE first > Len(upLog)
    BY <1>5, <2>1, <2>2, <2>4
  <2>5. QED
    BY <2>1, <2>2, <2>3, <2>4
<1>8. g.payload \in Rejected
  <2>1. LastSequence = Len(upApplied)
    BY TypeParts, LastSequenceIsCommitCount DEF DiskInv
  <2>2. ~Conflicts(g)
    BY <1>5, TypeParts DEF Conflicts, DiskInv, UpInv
  <2>3. ~Receipted(g) /\ g.seq = LastSequence + 1
    BY <1>4, <1>6, <1>7, <2>1, <2>2 DEF Replayed
  <2>4. QED
    BY <1>6, <2>3 DEF Fresh
<1>9. PICK r \in Frames :
        /\ r = Frame("nack", g.seq, NoPayload)
        /\ r.type = "nack" /\ r.seq = g.seq
  BY <1>4, FrameType DEF FrameTypes
<1>10. RunnerFrameOK(r)
  BY <1>5, <1>8, <1>9 DEF RunnerFrameOK
<1>11. DiskTypeOK' /\ DiskInv' /\ FramesStayOK
  BY <1>6, DisksSame
<1>12. RunnerQueuesGrowBy({r})
  <2>0. toRunner \in [Conns -> Seq(Frames)]
    BY TypeParts DEF TypeOK
  <2>1. CASE rSock = hConn /\ ~hEnded
    <3>1. toRunner' = [toRunner EXCEPT ![hConn] = Append(toRunner[hConn], r)]
      BY <1>6, <1>9, <2>1
    <3>2. /\ Append(toRunner[hConn], r) \in Seq(Frames)
          /\ FramesIn(Append(toRunner[hConn], r)) \subseteq FramesIn(toRunner[hConn]) \union {r}
      BY <1>2, <2>0, AppendFrames
    <3>3. \A c \in Conns :
            toRunner'[c] = IF c = hConn THEN Append(toRunner[hConn], r) ELSE toRunner[c]
      BY <2>0, <3>1
    <3>4. toRunner' \in [Conns -> Seq(Frames)]
      BY <2>0, <3>1, <3>2
    <3>5. QED
      BY <3>2, <3>3, <3>4 DEF RunnerQueuesGrowBy
  <2>2. CASE ~(rSock = hConn /\ ~hEnded)
    BY <1>6, <2>0, <2>2 DEF RunnerQueuesGrowBy
  <2>3. QED
    BY <2>1, <2>2
<1>13. RunnerTypeOK' /\ HostTypeOK' /\ NetTypeOK'
  BY <1>6, TypeParts, RunnerSame DEF HostTypeOK, NetTypeOK
<1>14. RunnerFrameOK(r)'
  BY <1>10, <1>11 DEF FramesStayOK
<1>15. QED
  BY <1>2, <1>11, <1>12, <1>13, <1>14, StepKeepsIInv

LEMMA HostReceiveHostAckStep ==
  ASSUME IInv, HostReceiveHostAck
  PROVE  IInv'
<1>1. HostReceives("host.ack") /\ HostConsume
  BY DEF HostReceiveHostAck
<1>2. hConn \in Conns /\ HostQueuesGrowBy({})
  BY <1>1, TypeParts, HostReceivesHead, HostConsumeQueues
<1>3. PICK g \in Frames :
        /\ g = Head(toHost[hConn])
        /\ g \in FramesIn(toHost[hConn]) /\ g.type = "host.ack"
  BY <1>1, TypeParts, HostReceivesHead
<1>4. HostFrameOK(g) /\ g.seq \in Nat
  BY <1>2, <1>3, TypeParts DEF WireInv, Frames
<1>5. /\ downJournal' = downJournal \ {g.seq}
      /\ IF hEnded
           THEN hInFlight' = NoFlight /\ UNCHANGED <<hReadySent, toRunner>>
           ELSE HostWrite(hConn, <<>>, NoFlight, hReadySent, downJournal')
      /\ UNCHANGED <<hUp, hConn, hDestroyed, hEnded, downLog, receipts, upApplied,
                     runnerDisk, runnerMem, backlog, faults>>
  BY <1>3 DEF HostReceiveHostAck
<1>6. DiskInv' /\ FramesStayOK
  BY <1>3, <1>4, <1>5, TypeParts, HostForgets DEF HostFrameOK
<1>7. DiskTypeOK'
  BY <1>5, TypeParts DEF DiskTypeOK, runnerDisk
<1>8. RunnerTypeOK' /\ NetTypeOK'
  BY <1>5, TypeParts, RunnerSame DEF NetTypeOK
<1>9. NoFlight \in Flights
  BY DEF NoFlight, Flights
<1>10. CASE hEnded
  <2>1. HostTypeOK' /\ RunnerQueuesGrowBy({})
    BY <1>5, <1>9, <1>10, TypeParts, RunnerQueuesSame DEF HostTypeOK, Flights
  <2>2. QED
    BY <1>2, <1>6, <1>7, <1>8, <2>1, StepKeepsIInv
<1>11. CASE ~hEnded
  <2>1. PICK journal : journal = downJournal'
    OBVIOUS
  <2>2. UNCHANGED <<downLog, downApplied>> /\ DownInv'
    BY <1>5, <1>6 DEF runnerDisk, DiskInv
  <2>3. Tailing(journal, Len(downLog))
    BY <1>7, <2>1, <2>2 DEF DownInv, Contiguous, DiskTypeOK, Tailing
  <2>4. HostWrite(hConn, <<>>, NoFlight, hReadySent, journal)
    BY <1>5, <1>11, <2>1
  <2>5. hInFlight' \in Flights /\ hReadySent' \in BOOLEAN
    BY <1>2, <1>9, <2>1, <2>2, <2>3, <2>4, FewFrames, HostWriteGood
  <2>6. PICK T : /\ RunnerQueuesGrowBy(FramesIn(<<>>) \union T)
                 /\ \A f \in T : RunnerFrameOK(f)'
    BY <1>2, <1>9, <2>1, <2>2, <2>3, <2>4, FewFrames, HostWriteGood
  <2>7. RunnerQueuesGrowBy(T)
    BY <2>6, FewFrames DEF RunnerQueuesGrowBy
  <2>8. HostTypeOK'
    BY <1>5, <2>5, TypeParts DEF HostTypeOK, Flights
  <2>9. QED
    BY <1>2, <1>6, <1>7, <1>8, <2>6, <2>7, <2>8, StepKeepsIInv
<1>12. QED
  BY <1>10, <1>11

(* The steps that only destroy a connection. *)
LEMMA HostDestroyStep ==
  ASSUME IInv, hConn # NoConn, HostDestroyConnection, faults' \in Nat, UNCHANGED hostDisk
  PROVE  IInv'
<1>1. hConn \in Conns
  BY TypeParts DEF HostTypeOK
<1>2. DiskTypeOK' /\ DiskInv' /\ FramesStayOK
  BY DisksSame DEF HostDestroyConnection
<1>3. RunnerTypeOK' /\ HostTypeOK' /\ NetTypeOK'
  BY <1>1, TypeParts, RunnerSame DEF HostDestroyConnection, HostTypeOK, NetTypeOK
<1>4. HostQueuesGrowBy({}) /\ RunnerQueuesGrowBy({})
  BY TypeParts, HostEmptiesQueues, RunnerQueuesSame DEF HostDestroyConnection
<1>5. QED
  BY <1>2, <1>3, <1>4, StepKeepsIInv

LEMMA HostDestroyingSteps ==
  ASSUME IInv,
         HostRejectConnection \/ HostAckTimeout \/ HostPeerClosed \/ HostDrop
  PROVE  IInv'
<1>1. faults \in Nat /\ faults + 1 \in Nat
  BY TypeParts DEF NetTypeOK
<1>2. CASE HostRejectConnection
  BY <1>1, <1>2, HostDestroyStep DEF HostRejectConnection, HostReceives, HostReads
<1>3. CASE HostAckTimeout
  BY <1>1, <1>3, HostDestroyStep DEF HostAckTimeout, HostReads
<1>4. CASE HostPeerClosed
  BY <1>1, <1>4, HostDestroyStep DEF HostPeerClosed, HostReads
<1>5. CASE HostDrop
  BY <1>1, <1>5, HostDestroyStep DEF HostDrop, HostReads
<1>6. QED
  BY <1>2, <1>3, <1>4, <1>5

LEMMA HostRefuseStep ==
  ASSUME IInv, NEW c \in Conns, HostRefuse(c)
  PROVE  IInv'
<1>1. DiskTypeOK' /\ DiskInv' /\ FramesStayOK
  BY DisksSame DEF HostRefuse
<1>2. RunnerTypeOK' /\ HostTypeOK' /\ NetTypeOK'
  BY TypeParts, RunnerSame, HostSame DEF HostRefuse, NetTypeOK
<1>3. HostQueuesGrowBy({}) /\ RunnerQueuesGrowBy({})
  BY TypeParts, HostEmptiesQueues, RunnerQueuesSame DEF HostRefuse
<1>4. QED
  BY <1>1, <1>2, <1>3, StepKeepsIInv

LEMMA HostCloseStep ==
  ASSUME IInv, NEW c \in Conns, HostClose(c)
  PROVE  IInv'
<1>1. DiskTypeOK' /\ DiskInv' /\ FramesStayOK
  BY DisksSame DEF HostClose
<1>2. HostTypeOK'
  <2>1. NoFlight \in Flights
    BY DEF NoFlight, Flights
  <2>2. hInFlight' \in Flights
    BY <2>1, TypeParts DEF HostClose, HostTypeOK, Flights
  <2>3. QED
    BY <2>2, TypeParts DEF HostClose, HostTypeOK
<1>3. RunnerTypeOK' /\ NetTypeOK'
  BY TypeParts, RunnerSame DEF HostClose, NetTypeOK, net
<1>4. HostQueuesGrowBy({}) /\ RunnerQueuesGrowBy({})
  BY TypeParts, HostQueuesSame, RunnerQueuesSame DEF HostClose, net
<1>5. QED
  BY <1>1, <1>2, <1>3, <1>4, StepKeepsIInv

LEMMA HostCrashStep ==
  ASSUME IInv, HostCrash
  PROVE  IInv'
<1>1. DiskTypeOK' /\ DiskInv' /\ FramesStayOK
  BY DisksSame DEF HostCrash
<1>2. RunnerTypeOK' /\ HostTypeOK'
  BY RunnerSame, HostResetTypes DEF HostCrash
<1>3. NetTypeOK'
  BY TypeParts, HostResetTypes DEF HostCrash, NetTypeOK
<1>4. HostQueuesGrowBy({}) /\ RunnerQueuesGrowBy({})
  BY TypeParts, HostResetTypes, RunnerQueuesSame DEF HostCrash
<1>5. QED
  BY <1>1, <1>2, <1>3, <1>4, StepKeepsIInv

LEMMA HostCrashAfterCommitStep ==
  ASSUME IInv, HostCrashAfterCommit
  PROVE  IInv'
<1>1. PICK g \in Frames :
        /\ g = Head(toHost[hConn]) /\ hConn \in Conns
        /\ g \in FramesIn(toHost[hConn]) /\ g.type = "durable"
  BY TypeParts, HostReceivesHead DEF HostCrashAfterCommit
<1>2. HostFrameOK(g)
  BY <1>1, TypeParts DEF WireInv
<1>3. /\ CommitDurable(g) /\ HostReset /\ faults' = faults + 1
      /\ UNCHANGED <<downLog, downJournal, runnerDisk, runnerMem, toRunner>>
  BY <1>1 DEF HostCrashAfterCommit
<1>4. DiskInv' /\ FramesStayOK /\ DiskTypeOK'
  BY <1>1, <1>2, <1>3, CommitDurableKeeps
<1>5. RunnerTypeOK' /\ HostTypeOK'
  BY <1>3, RunnerSame, HostResetTypes
<1>6. NetTypeOK'
  BY <1>3, TypeParts, HostResetTypes DEF NetTypeOK
<1>7. HostQueuesGrowBy({}) /\ RunnerQueuesGrowBy({})
  BY <1>3, TypeParts, HostResetTypes, RunnerQueuesSame
<1>8. QED
  BY <1>4, <1>5, <1>6, <1>7, StepKeepsIInv

LEMMA HostStartStep ==
  ASSUME IInv, HostStart
  PROVE  IInv'
<1>1. DiskTypeOK' /\ DiskInv' /\ FramesStayOK
  BY DisksSame DEF HostStart
<1>2. RunnerTypeOK' /\ HostTypeOK' /\ NetTypeOK'
  BY TypeParts, RunnerSame DEF HostStart, HostTypeOK, NetTypeOK, net
<1>3. HostQueuesGrowBy({}) /\ RunnerQueuesGrowBy({})
  BY TypeParts, HostQueuesSame, RunnerQueuesSame DEF HostStart, net
<1>4. QED
  BY <1>1, <1>2, <1>3, StepKeepsIInv

------------------------------------------------------------------------------
(* The inductive invariant *)

LEMMA InitIInv == Init => IInv
<1> SUFFICES ASSUME Init PROVE IInv
  OBVIOUS
<1>1. NoFlight \in Flights
  BY DEF NoFlight, Flights
<1>2. TypeOK
  <2>1. <<>> \in Seq(Payloads) /\ 0 \in Nat
    OBVIOUS
  <2>2. DiskTypeOK /\ RunnerTypeOK /\ NetTypeOK
    BY <2>1 DEF Init, DiskTypeOK, RunnerTypeOK, NetTypeOK
  <2>3. HostTypeOK
    BY <1>1 DEF Init, HostTypeOK, Flights
  <2>4. toHost \in [Conns -> Seq(Frames)] /\ toRunner \in [Conns -> Seq(Frames)]
    BY FewFrames DEF Init
  <2>5. QED
    BY <2>2, <2>3, <2>4 DEF TypeOK, DiskTypeOK, RunnerTypeOK, HostTypeOK, NetTypeOK, Flights
<1>3. UpInv /\ DownInv
  <2>1. {} = 1..0 /\ 1 \in 1..(0 + 1)
    OBVIOUS
  <2>2. QED
    BY <2>1 DEF Init, UpInv, DownInv, IsPrefixOf, Contiguous
<1>4. WireInv
  BY FewFrames DEF Init, WireInv
<1>5. QED
  BY <1>2, <1>3, <1>4 DEF IInv

LEMMA StutterIInv ==
  ASSUME IInv, UNCHANGED vars
  PROVE  IInv'
<1>1. UNCHANGED <<runnerDisk, hostDisk>> /\ UNCHANGED runnerMem /\ UNCHANGED hostMem
      /\ UNCHANGED net /\ UNCHANGED faults
  BY DEF vars
<1>2. DiskTypeOK' /\ DiskInv' /\ FramesStayOK
  BY <1>1, DisksSame
<1>3. RunnerTypeOK' /\ HostTypeOK' /\ NetTypeOK'
  BY <1>1, TypeParts, RunnerSame, HostSame DEF NetTypeOK, net
<1>4. HostQueuesGrowBy({}) /\ RunnerQueuesGrowBy({})
  BY <1>1, TypeParts, HostQueuesSame, RunnerQueuesSame DEF net
<1>5. QED
  BY <1>2, <1>3, <1>4, StepKeepsIInv

LEMMA NextIInv ==
  ASSUME IInv, Next
  PROVE  IInv'
<1>1. CASE RunnerProtocol
  BY <1>1, RunnerConnectStep, RunnerFlushStep, RunnerReceiveAckStep, RunnerForgettingSteps,
     RunnerReceiveHostEventStep, RunnerRejectHostEventStep, RunnerReceiveReadyStep,
     RunnerStartStep DEF RunnerProtocol
<1>2. CASE HostProtocol
  BY <1>2, HostAcceptStep, HostRefuseStep, HostCloseStep, HostNotifyStep,
     HostReceiveDurableStep, HostRejectDurableStep, HostReceiveHostAckStep,
     HostDestroyingSteps, HostStartStep DEF HostProtocol
<1>3. CASE Work
  BY <1>3, RunnerJournalStep, HostJournalStep DEF Work
<1>4. CASE Fault
  BY <1>4, RunnerForgettingSteps, RunnerCrashAfterCommitStep, HostDestroyingSteps,
     HostCrashStep, HostCrashAfterCommitStep DEF Fault
<1>5. QED
  BY <1>1, <1>2, <1>3, <1>4 DEF Next

(* In every state: the types hold, each journal is a contiguous tail of what
   was journaled, each side's commits are a prefix of it, and no frame on any
   socket runs ahead of the disks. *)
THEOREM IInvAlways == Spec => []IInv
<1>1. Init => IInv
  BY InitIInv
<1>2. IInv /\ [Next]_vars => IInv'
  BY NextIInv, StutterIInv
<1>3. QED
  BY <1>1, <1>2, PTL DEF Spec

(* Type correctness of the session link. *)
THEOREM TypeOKAlways == Spec => []TypeOK
<1>1. IInv => TypeOK
  BY DEF IInv
<1>2. QED
  BY <1>1, IInvAlways, PTL

(* Neither side commits an event twice, out of order, or one that was never
   journaled, whatever is replayed after drops and crashes
   (applyDurableRunnerEvent, applyHostEvent). *)
THEOREM ExactlyOnceInOrderAlways == Spec => []ExactlyOnceInOrder
<1>1. IInv => ExactlyOnceInOrder
  BY DEF IInv, UpInv, DownInv, ExactlyOnceInOrder
<1>2. QED
  BY <1>1, IInvAlways, PTL

(* An event leaves its journal only after the peer has committed it
   (acknowledgeRunnerEvent, applyHostAck). *)
THEOREM NothingLostAlways == Spec => []NothingLost
<1>1. IInv => NothingLost
  BY DEF IInv, TypeOK, UpInv, DownInv, Contiguous, NothingLost
<1>2. QED
  BY <1>1, IInvAlways, PTL

(* Only an event whose own validation fails is refused: the order and the
   conflicting-replay checks of both sides never fire between correct peers. *)
THEOREM OnlyRejectedEventsAreNackedAlways == Spec => []OnlyRejectedEventsAreNacked
<1>1. IInv => OnlyRejectedEventsAreNacked
  BY DEF IInv, WireInv, HostFrameOK, RunnerFrameOK, OnlyRejectedEventsAreNacked
<1>2. QED
  BY <1>1, IInvAlways, PTL

(* host.ready is true when it is read: the runner has committed every host
   event journaled before it was written (flushHostEvents). *)
THEOREM ReadyMeansCompleteAlways == Spec => []ReadyMeansComplete
<1>1. IInv => ReadyMeansComplete
  BY DEF IInv, WireInv, RunnerFrameOK, ReadyMeansComplete
<1>2. QED
  BY <1>1, IInvAlways, PTL

------------------------------------------------------------------------------
(* Refinement: each direction is an ordered journal *)

(* A step that leaves the runner's journal and the host's commits alone. *)
UpStutters == UNCHANGED <<upLog, upJournal, upApplied>>
DownStutters == UNCHANGED <<downLog, downJournal, downApplied>>

(* Most steps touch neither direction. *)
LEMMA ProtocolStutters ==
  ASSUME Next
  PROVE  /\ \/ UpStutters
            \/ \E p \in Payloads : RunnerJournal(p)
            \/ RunnerReceiveAck
            \/ HostReceiveDurable
            \/ HostCrashAfterCommit
         /\ \/ DownStutters
            \/ \E p \in Payloads : HostJournal(p)
            \/ HostReceiveHostAck
            \/ RunnerReceiveHostEvent
            \/ RunnerCrashAfterCommit
<1> USE DEF UpStutters, DownStutters, runnerDisk, hostDisk
<1>1. CASE RunnerProtocol
  BY <1>1 DEF RunnerProtocol, RunnerConnect, RunnerFlush, RunnerReceiveAck,
     RunnerReceiveNack, RunnerReceiveHostEvent, RunnerRejectHostEvent,
     RunnerReceiveReady, RunnerPeerEnded, RunnerTimeout, RunnerStart, RunnerDisconnect
<1>2. CASE HostProtocol
  BY <1>2 DEF HostProtocol, HostAccept, HostRefuse, HostClose, HostNotify,
     HostReceiveDurable, HostRejectDurable, HostReceiveHostAck, HostRejectConnection,
     HostPeerClosed, HostStart, HostDestroyConnection
<1>3. CASE Work
  BY <1>3 DEF Work, RunnerJournal, HostJournal
<1>4. CASE Fault
  BY <1>4 DEF Fault, RunnerDrop, RunnerCrash, RunnerCrashAfterCommit, HostDrop,
     HostAckTimeout, HostCrash, HostCrashAfterCommit, RunnerDisconnect, HostDestroyConnection
<1>5. QED
  BY <1>1, <1>2, <1>3, <1>4 DEF Next

(* Committing a durable frame is the abstract Apply, or nothing. *)
LEMMA CommitDurableIsApply ==
  ASSUME IInv, NEW f \in Frames, f.type = "durable", HostFrameOK(f),
         CommitDurable(f), UNCHANGED <<runnerDisk, downLog, downJournal>>
  PROVE  Up!Apply \/ UpStutters
<1>1. CASE Fresh(f)
  BY <1>1, TypeParts, HostCommits DEF Up!Apply, runnerDisk
<1>2. CASE ~Fresh(f)
  BY <1>2 DEF CommitDurable, UpStutters, runnerDisk
<1>3. QED
  BY <1>1, <1>2

LEMMA UpStep ==
  ASSUME IInv, Next
  PROVE  Up!Next \/ UpStutters
<1>1. CASE \E p \in Payloads : RunnerJournal(p)
  BY <1>1 DEF RunnerJournal, Up!Next, Up!Journal, hostDisk
<1>2. CASE RunnerReceiveAck
  <2>1. PICK g \in Frames :
          /\ g = Head(toRunner[rSock]) /\ rSock \in Conns
          /\ g \in FramesIn(toRunner[rSock]) /\ g.type = "ack"
    BY <1>2, TypeParts, RunnerReadsHead DEF RunnerReceiveAck
  <2>2. g.seq <= Len(upApplied)
    BY <2>1, TypeParts DEF WireInv, RunnerFrameOK
  <2>3. upJournal' = upJournal \ {g.seq} /\ UNCHANGED <<upLog, upApplied>>
    BY <1>2, <2>1 DEF RunnerReceiveAck, hostDisk
  <2>4. CASE g.seq \in upJournal
    BY <2>2, <2>3, <2>4 DEF Up!Next, Up!Forget
  <2>5. CASE g.seq \notin upJournal
    BY <2>3, <2>5 DEF UpStutters
  <2>6. QED
    BY <2>4, <2>5
<1>3. CASE HostReceiveDurable
  <2>1. PICK g \in Frames :
          /\ g = Head(toHost[hConn]) /\ hConn \in Conns
          /\ g \in FramesIn(toHost[hConn]) /\ g.type = "durable"
    BY <1>3, TypeParts, HostReceivesHead DEF HostReceiveDurable
  <2>2. HostFrameOK(g) /\ CommitDurable(g) /\ UNCHANGED <<runnerDisk, downLog, downJournal>>
    BY <1>3, <2>1, TypeParts DEF WireInv, HostReceiveDurable
  <2>3. QED
    BY <2>1, <2>2, CommitDurableIsApply DEF Up!Next
<1>4. CASE HostCrashAfterCommit
  <2>1. PICK g \in Frames :
          /\ g = Head(toHost[hConn]) /\ hConn \in Conns
          /\ g \in FramesIn(toHost[hConn]) /\ g.type = "durable"
    BY <1>4, TypeParts, HostReceivesHead DEF HostCrashAfterCommit
  <2>2. HostFrameOK(g) /\ CommitDurable(g) /\ UNCHANGED <<runnerDisk, downLog, downJournal>>
    BY <1>4, <2>1, TypeParts DEF WireInv, HostCrashAfterCommit
  <2>3. QED
    BY <2>1, <2>2, CommitDurableIsApply DEF Up!Next
<1>5. QED
  BY <1>1, <1>2, <1>3, <1>4, ProtocolStutters

(* Committing a host event is the abstract Apply, or nothing. *)
LEMMA CommitHostEventIsApply ==
  ASSUME IInv, NEW f \in Frames, f.type = "host.event", RunnerFrameOK(f),
         CommitHostEvent(f), UNCHANGED <<upLog, upJournal, hostDisk>>
  PROVE  Down!Apply \/ DownStutters
<1>1. CASE HostEventNext(f)
  BY <1>1, TypeParts, RunnerCommits DEF Down!Apply, hostDisk
<1>2. CASE ~HostEventNext(f)
  BY <1>2 DEF CommitHostEvent, DownStutters, hostDisk
<1>3. QED
  BY <1>1, <1>2

LEMMA DownStep ==
  ASSUME IInv, Next
  PROVE  Down!Next \/ DownStutters
<1>1. CASE \E p \in Payloads : HostJournal(p)
  BY <1>1 DEF HostJournal, Down!Next, Down!Journal, runnerDisk
<1>2. CASE HostReceiveHostAck
  <2>1. PICK g \in Frames :
          /\ g = Head(toHost[hConn]) /\ hConn \in Conns
          /\ g \in FramesIn(toHost[hConn]) /\ g.type = "host.ack"
    BY <1>2, TypeParts, HostReceivesHead DEF HostReceiveHostAck
  <2>2. g.seq <= Len(downApplied)
    BY <2>1, TypeParts DEF WireInv, HostFrameOK
  <2>3. downJournal' = downJournal \ {g.seq} /\ UNCHANGED <<downLog, downApplied>>
    BY <1>2, <2>1 DEF HostReceiveHostAck, runnerDisk
  <2>4. CASE g.seq \in downJournal
    BY <2>2, <2>3, <2>4 DEF Down!Next, Down!Forget
  <2>5. CASE g.seq \notin downJournal
    BY <2>3, <2>5 DEF DownStutters
  <2>6. QED
    BY <2>4, <2>5
<1>3. CASE RunnerReceiveHostEvent
  <2>1. PICK g \in Frames :
          /\ g = Head(toRunner[rSock]) /\ rSock \in Conns
          /\ g \in FramesIn(toRunner[rSock]) /\ g.type = "host.event"
    BY <1>3, TypeParts, RunnerReadsHead DEF RunnerReceiveHostEvent
  <2>2. RunnerFrameOK(g) /\ CommitHostEvent(g) /\ UNCHANGED <<upLog, upJournal, hostDisk>>
    BY <1>3, <2>1, TypeParts DEF WireInv, RunnerReceiveHostEvent
  <2>3. QED
    BY <2>1, <2>2, CommitHostEventIsApply DEF Down!Next
<1>4. CASE RunnerCrashAfterCommit
  <2>1. PICK g \in Frames :
          /\ g = Head(toRunner[rSock]) /\ rSock \in Conns
          /\ g \in FramesIn(toRunner[rSock]) /\ g.type = "host.event"
    BY <1>4, TypeParts, RunnerReadsHead DEF RunnerCrashAfterCommit
  <2>2. RunnerFrameOK(g) /\ CommitHostEvent(g) /\ UNCHANGED <<upLog, upJournal, hostDisk>>
    BY <1>4, <2>1, TypeParts DEF WireInv, RunnerCrashAfterCommit
  <2>3. QED
    BY <2>1, <2>2, CommitHostEventIsApply DEF Down!Next
<1>5. QED
  BY <1>1, <1>2, <1>3, <1>4, ProtocolStutters

(* The runner's journal, the wire and the host's commits together implement
   an ordered journal: sockets, replays and crashes cannot be seen. *)
THEOREM UpRefinement == Spec => UpIsOrderedJournal
<1>1. Init => Up!Init
  BY DEF Init, Up!Init
<1>2. IInv /\ [Next]_vars => [Up!Next]_(Up!vars)
  <2>1. ASSUME IInv, Next PROVE Up!Next \/ UNCHANGED Up!vars
    BY <2>1, UpStep DEF UpStutters, Up!vars
  <2>2. ASSUME UNCHANGED vars PROVE UNCHANGED Up!vars
    BY <2>2 DEF vars, runnerDisk, hostDisk, Up!vars
  <2>3. QED
    BY <2>1, <2>2
<1>3. QED
  BY <1>1, <1>2, IInvAlways, PTL DEF Spec, UpIsOrderedJournal, Up!Spec

(* So do the host's journal, the wire and the runner's commits. *)
THEOREM DownRefinement == Spec => DownIsOrderedJournal
<1>1. Init => Down!Init
  BY DEF Init, Down!Init
<1>2. IInv /\ [Next]_vars => [Down!Next]_(Down!vars)
  <2>1. ASSUME IInv, Next PROVE Down!Next \/ UNCHANGED Down!vars
    BY <2>1, DownStep DEF DownStutters, Down!vars
  <2>2. ASSUME UNCHANGED vars PROVE UNCHANGED Down!vars
    BY <2>2 DEF vars, runnerDisk, hostDisk, Down!vars
  <2>3. QED
    BY <2>1, <2>2
<1>3. QED
  BY <1>1, <1>2, IInvAlways, PTL DEF Spec, DownIsOrderedJournal, Down!Spec

------------------------------------------------------------------------------
(* One durable frame on a connection *)

Unread(q)   == Places(q, {"durable"})
Answered(q) == Places(q, {"ack", "nack"})

(* A connection with the frames h to the host and r to the runner carries one
   durable frame or one answer, and neither when nothing is outstanding. *)
Slot(h, r, outstanding) ==
  /\ AtMostOne(Unread(h)) /\ AtMostOne(Answered(r))
  /\ Unread(h) = {} \/ Answered(r) = {}
  /\ outstanding = {} => Unread(h) = {} /\ Answered(r) = {}

SlotInv == rSock # NoConn => Slot(toHost[rSock], toRunner[rSock], sentAt)

(* A queue q that becomes r has no more frames of these types than before. *)
NoMore(q, r, types) ==
  /\ AtMostOne(Places(q, types)) => AtMostOne(Places(r, types))
  /\ Places(q, types) = {} => Places(r, types) = {}

LEMMA PlacesInConcat ==
  ASSUME NEW q \in Seq(Frames), NEW r \in Seq(Frames), NEW types
  PROVE  /\ Places(r, types) = {} => NoMore(q, q \o r, types)
         /\ Places(q, types) = {} /\ AtMostOne(Places(r, types))
              => AtMostOne(Places(q \o r, types))
<1>1. /\ Len(q \o r) = Len(q) + Len(r)
      /\ \A i \in 1..Len(q) + Len(r) :
           (q \o r)[i] = IF i <= Len(q) THEN q[i] ELSE r[i - Len(q)]
  BY ConcatProperties
<1>2. Len(q) \in Nat /\ Len(r) \in Nat
  OBVIOUS
<1>3. ASSUME NEW i \in Places(q \o r, types)
      PROVE  /\ i \in Nat
             /\ i \in Places(q, types) \/ (i > Len(q) /\ i - Len(q) \in Places(r, types))
  <2>1. i \in 1..Len(q) + Len(r) /\ (q \o r)[i].type \in types
    BY <1>1 DEF Places
  <2>2. CASE i <= Len(q)
    BY <1>1, <1>2, <2>1, <2>2 DEF Places
  <2>3. CASE i > Len(q)
    <3>1. i - Len(q) \in 1..Len(r) /\ (q \o r)[i] = r[i - Len(q)]
      BY <1>1, <1>2, <2>1, <2>3
    <3>2. QED
      BY <1>2, <2>1, <2>3, <3>1 DEF Places
  <2>4. QED
    BY <1>2, <2>1, <2>2, <2>3
<1>4. Places(r, types) = {} => NoMore(q, q \o r, types)
  BY <1>3 DEF NoMore, AtMostOne
<1>5. ASSUME Places(q, types) = {}, AtMostOne(Places(r, types))
      PROVE  AtMostOne(Places(q \o r, types))
  <2>1. SUFFICES ASSUME NEW i \in Places(q \o r, types), NEW j \in Places(q \o r, types)
                 PROVE  i = j
    BY DEF AtMostOne
  <2>2. i - Len(q) = j - Len(q) /\ i \in Nat /\ j \in Nat
    BY <1>3, <1>5 DEF AtMostOne
  <2>3. QED
    BY <1>2, <2>2
<1>6. QED
  BY <1>4, <1>5

LEMMA PlacesInTail ==
  ASSUME NEW q \in Seq(Frames), q # <<>>, NEW types
  PROVE  /\ NoMore(q, Tail(q), types)
         /\ AtMostOne(Places(q, types)) /\ Head(q).type \in types
              => Places(Tail(q), types) = {}
<1>1. /\ Len(Tail(q)) = Len(q) - 1
      /\ \A i \in 1..Len(Tail(q)) : Tail(q)[i] = q[i + 1]
  BY HeadTailProperties
<1>2. Len(q) \in Nat \ {0} /\ Head(q) = q[1]
  OBVIOUS
<1>3. ASSUME NEW i \in Places(Tail(q), types)
      PROVE  i \in Nat /\ i + 1 \in Places(q, types) /\ i + 1 # 1
  BY <1>1, <1>2 DEF Places
<1>4. NoMore(q, Tail(q), types)
  <2>1. ASSUME AtMostOne(Places(q, types)),
               NEW i \in Places(Tail(q), types), NEW j \in Places(Tail(q), types)
        PROVE  i = j
    <3>1. i + 1 = j + 1 /\ i \in Nat /\ j \in Nat
      BY <1>3, <2>1 DEF AtMostOne
    <3>2. QED
      BY <3>1
  <2>2. QED
    BY <1>3, <2>1 DEF NoMore, AtMostOne
<1>5. Head(q).type \in types => 1 \in Places(q, types)
  BY <1>2 DEF Places
<1>6. QED
  BY <1>3, <1>4, <1>5 DEF AtMostOne

LEMMA PlacesInFew ==
  /\ \A types : Places(<<>>, types) = {}
  /\ \A f, types : AtMostOne(Places(<<f>>, types))
  /\ \A f, types : f.type \notin types => Places(<<f>>, types) = {}
<1>1. \A types : Places(<<>>, types) = {}
  BY DEF Places
<1>2. ASSUME NEW f, NEW types
      PROVE  /\ Places(<<f>>, types) \subseteq {1}
             /\ f.type \notin types => Places(<<f>>, types) = {}
  <2>1. Len(<<f>>) = 1 /\ <<f>>[1] = f
    OBVIOUS
  <2>2. QED
    BY <2>1 DEF Places
<1>3. QED
  BY <1>1, <1>2 DEF AtMostOne

LEMMA NoMoreOfNone ==
  ASSUME NEW q, NEW types
  PROVE  NoMore(q, q, types) /\ NoMore(q, <<>>, types)
BY PlacesInFew DEF NoMore, AtMostOne

------------------------------------------------------------------------------
(* What a step does to the queues of the runner's connection *)

(* A step that keeps the connection, adds to neither queue and clears nothing
   outstanding keeps the slot; so does one that closes the connection. *)
LEMMA SlotKept ==
  ASSUME SlotInv, rSock' = rSock, sentAt' = sentAt,
         rSock # NoConn =>
           /\ NoMore(toHost[rSock], toHost'[rSock], {"durable"})
           /\ NoMore(toRunner[rSock], toRunner'[rSock], {"ack", "nack"})
  PROVE  SlotInv'
BY DEF SlotInv, Slot, NoMore, Unread, Answered

LEMMA SlotForgotten == ASSUME RunnerReset PROVE SlotInv'
BY DEF RunnerReset, SlotInv

LEMMA RunnerQueueTypes ==
  ASSUME IInv, rSock # NoConn
  PROVE  /\ rSock \in Conns
         /\ toHost[rSock] \in Seq(Frames) /\ toRunner[rSock] \in Seq(Frames)
BY TypeParts DEF TypeOK

LEMMA HostQueueAfterWrite ==
  ASSUME IInv, rSock # NoConn, NEW r \in Seq(Frames), toHost' = RunnerWrite(rSock, r)
  PROVE  \/ toHost'[rSock] = toHost[rSock]
         \/ toHost'[rSock] = toHost[rSock] \o r
BY RunnerQueueTypes, TypeParts DEF RunnerWrite, TypeOK

LEMMA RunnerQueueAfterConsume ==
  ASSUME IInv, NEW type, RunnerReads(type), RunnerConsume
  PROVE  /\ rSock # NoConn
         /\ toRunner'[rSock] = Tail(toRunner[rSock])
         /\ toRunner[rSock] # <<>> /\ Head(toRunner[rSock]).type = type
BY RunnerQueueTypes, TypeParts DEF RunnerReads, RunnerConsume, TypeOK

LEMMA HostQueueAfterConsume ==
  ASSUME IInv, NEW type, HostReceives(type), HostConsume, rSock # NoConn
  PROVE  /\ hConn # rSock => toHost'[rSock] = toHost[rSock]
         /\ hConn = rSock => /\ toHost'[rSock] = Tail(toHost[rSock])
                             /\ toHost[rSock] # <<>> /\ Head(toHost[rSock]).type = type
BY RunnerQueueTypes, TypeParts DEF HostReceives, HostReads, HostConsume, TypeOK

(* What a host write adds to the runner's queue: its reply and, of the flush,
   no answer. *)
LEMMA RunnerQueueAfterWrite ==
  ASSUME IInv, rSock # NoConn, NEW c, NEW reply \in Seq(Frames), NEW flight,
         NEW readySent, NEW journal, Tailing(journal, Len(downLog)),
         HostWrite(c, reply, flight, readySent, journal)
  PROVE  \/ toRunner'[rSock] = toRunner[rSock]
         \/ /\ c = rSock
            /\ toRunner[rSock] \o reply \in Seq(Frames)
            /\ NoMore(toRunner[rSock] \o reply, toRunner'[rSock], {"ack", "nack"})
<1> DEFINE flush == FlushHostEvents(flight, readySent, journal)
<1>1. PICK first \in Nat \ {0} : journal = first..Len(downLog)
  BY DEF Tailing
<1>2. flush \in Seq(Frames) /\ \A f \in FramesIn(flush) : f.type \in {"host.event", "host.ready"}
  BY <1>1, FlushHostEventsFrames, TypeParts DEF DiskTypeOK
<1>3. Places(flush, {"ack", "nack"}) = {}
  BY <1>2 DEF Places, FramesIn
<1>4. rSock \in Conns /\ toRunner[rSock] \in Seq(Frames)
  BY RunnerQueueTypes
<1>5. CASE rSock # c
  BY <1>5 DEF HostWrite
<1>6. CASE rSock = c
  <2>1. toRunner[rSock] \o reply \in Seq(Frames)
    BY <1>4, ConcatFrames
  <2>2. toRunner'[rSock] = (toRunner[rSock] \o reply) \o flush
    <3>1. toRunner' = [toRunner EXCEPT ![c] = @ \o reply \o flush]
      BY <1>6 DEF HostWrite
    <3> HIDE DEF flush
    <3>2. QED
      BY <1>4, <1>6, <3>1, TypeParts DEF TypeOK
  <2> HIDE DEF flush
  <2>3. QED
    BY <1>2, <1>3, <1>6, <2>1, <2>2, PlacesInConcat
<1>7. QED
  BY <1>5, <1>6

LEMMA WriteWithoutReply ==
  ASSUME IInv, rSock # NoConn, NEW c, NEW flight,
         NEW readySent, NEW journal, Tailing(journal, Len(downLog)),
         HostWrite(c, <<>>, flight, readySent, journal)
  PROVE  NoMore(toRunner[rSock], toRunner'[rSock], {"ack", "nack"})
<1>1. toRunner[rSock] \in Seq(Frames) /\ <<>> \in Seq(Frames)
  BY RunnerQueueTypes, FewFrames
<1>2. toRunner[rSock] \o <<>> = toRunner[rSock]
  BY <1>1, ConcatEmptySeq
<1>3. QED
  BY <1>1, <1>2, RunnerQueueAfterWrite, NoMoreOfNone

(* flushDurable writes one durable frame, and only with nothing outstanding. *)
LEMMA FlushIsOneDurable ==
  ASSUME IInv, NEW outstanding \in SUBSET Nat
  PROVE  /\ FlushDurable(outstanding, upJournal) \in Seq(Frames)
         /\ AtMostOne(Unread(FlushDurable(outstanding, upJournal)))
         /\ SentAfterFlush(outstanding, upJournal) = {} =>
              FlushDurable(outstanding, upJournal) = <<>>
         /\ outstanding # {} => FlushDurable(outstanding, upJournal) = <<>>
<1>1. FlushDurable(outstanding, upJournal) \in Seq(Frames)
  BY FlushDurableGood
<1>2. QED
  BY <1>1, PlacesInFew DEF FlushDurable, SentAfterFlush, Unread

------------------------------------------------------------------------------
(* Steps and the slot of the connection *)

(* The flush that starts with nothing outstanding fills an empty slot. *)
LEMMA FlushFillsSlot ==
  ASSUME IInv, NEW outstanding \in SUBSET Nat, NEW h \in Seq(Frames), NEW r,
         NEW k, k = h \/ k = h \o FlushDurable(outstanding, upJournal),
         Slot(h, r, outstanding)
  PROVE  Slot(k, r, SentAfterFlush(outstanding, upJournal))
<1> DEFINE flush == FlushDurable(outstanding, upJournal)
           sent  == SentAfterFlush(outstanding, upJournal)
<1>1. /\ flush \in Seq(Frames) /\ AtMostOne(Unread(flush))
      /\ sent = {} => flush = <<>>
      /\ outstanding # {} => flush = <<>>
  BY FlushIsOneDurable
<1>2. sent = {} => outstanding = {}
  BY DEF SentAfterFlush
<1>3. h \o <<>> = h
  BY ConcatEmptySeq
<1> HIDE DEF flush, sent
<1>4. CASE k = h \/ flush = <<>>
  BY <1>2, <1>3, <1>4 DEF Slot, flush, sent
<1>5. CASE k = h \o flush /\ flush # <<>>
  <2>1. outstanding = {} /\ sent # {}
    BY <1>1, <1>5
  <2>2. Unread(h) = {} /\ Answered(r) = {}
    BY <2>1 DEF Slot
  <2>3. AtMostOne(Unread(k))
    BY <1>1, <1>5, <2>2, PlacesInConcat DEF Unread
  <2>4. QED
    BY <2>1, <2>2, <2>3 DEF Slot, sent, AtMostOne
<1>6. QED
  BY <1>4, <1>5 DEF flush

LEMMA RunnerConnectSlot ==
  ASSUME IInv, NEW c \in Conns, RunnerConnect(c)
  PROVE  SlotInv'
<1> DEFINE flush == FlushDurable({}, upJournal)
<1>1. /\ rSock' = c /\ sentAt' = SentAfterFlush({}, upJournal)
      /\ toHost'[c] = flush /\ toRunner'[c] = <<>>
  BY TypeParts DEF RunnerConnect, TypeOK
<1>2. flush \in Seq(Frames) /\ <<>> \in Seq(Frames)
  BY FlushIsOneDurable, FewFrames
<1>3. <<>> \o flush = flush
  BY <1>2, ConcatEmptySeq
<1>4. Slot(<<>>, <<>>, {})
  BY PlacesInFew DEF Slot, Unread, Answered, AtMostOne
<1>5. Slot(flush, <<>>, SentAfterFlush({}, upJournal))
  BY <1>2, <1>3, <1>4, FlushFillsSlot
<1>6. QED
  BY <1>1, <1>5 DEF SlotInv

LEMMA RunnerFlushSlot ==
  ASSUME IInv, SlotInv, RunnerFlush
  PROVE  SlotInv'
<1>1. /\ rSock # NoConn /\ rSock' = rSock /\ toRunner' = toRunner
      /\ sentAt' = SentAfterFlush(sentAt, upJournal)
      /\ toHost' = RunnerWrite(rSock, FlushDurable(sentAt, upJournal))
  BY DEF RunnerFlush
<1>2. sentAt \in SUBSET Nat
  BY TypeParts DEF RunnerTypeOK
<1>3. toHost[rSock] \in Seq(Frames) /\ FlushDurable(sentAt, upJournal) \in Seq(Frames)
  BY <1>1, <1>2, RunnerQueueTypes, FlushIsOneDurable
<1>4. \/ toHost'[rSock] = toHost[rSock]
      \/ toHost'[rSock] = toHost[rSock] \o FlushDurable(sentAt, upJournal)
  BY <1>1, <1>3, HostQueueAfterWrite
<1>5. Slot(toHost'[rSock], toRunner[rSock], sentAt')
  BY <1>1, <1>2, <1>3, <1>4, FlushFillsSlot DEF SlotInv
<1>6. QED
  BY <1>1, <1>5 DEF SlotInv

(* The acknowledgement read was the only frame of the slot. *)
LEMMA RunnerReceiveAckSlot ==
  ASSUME IInv, SlotInv, RunnerReceiveAck, IInv'
  PROVE  SlotInv'
<1>1. RunnerReads("ack") /\ RunnerConsume
  BY DEF RunnerReceiveAck
<1>2. /\ rSock # NoConn /\ toRunner'[rSock] = Tail(toRunner[rSock])
      /\ toRunner[rSock] # <<>> /\ Head(toRunner[rSock]).type = "ack"
  BY <1>1, RunnerQueueAfterConsume
<1>3. toHost[rSock] \in Seq(Frames) /\ toRunner[rSock] \in Seq(Frames) /\ sentAt \in SUBSET Nat
  BY <1>2, RunnerQueueTypes, TypeParts DEF RunnerTypeOK
<1>4. Slot(toHost[rSock], toRunner[rSock], sentAt)
  BY <1>2 DEF SlotInv
<1>5. Answered(toRunner'[rSock]) = {}
  BY <1>2, <1>3, <1>4, PlacesInTail DEF Slot, Answered
<1>6. Unread(toHost[rSock]) = {}
  <2>1. 1 \in Answered(toRunner[rSock])
    BY <1>2, <1>3 DEF Answered, Places
  <2>2. QED
    BY <1>4, <2>1 DEF Slot
<1>7. PICK seq : /\ seq = Head(toRunner[rSock]).seq
                 /\ upJournal' = upJournal \ {seq}
                 /\ sentAt' = SentAfterFlush(sentAt \ {seq}, upJournal')
                 /\ toHost' = RunnerWrite(rSock, FlushDurable(sentAt \ {seq}, upJournal'))
                 /\ UNCHANGED <<rSock, upLog>>
  BY DEF RunnerReceiveAck
<1> DEFINE left == sentAt \ {seq}
<1> DEFINE flush == FlushDurable(left, upJournal')
<1>8. left \in SUBSET Nat
  BY <1>3
<1>9. /\ flush \in Seq(Frames) /\ AtMostOne(Unread(flush))
      /\ SentAfterFlush(left, upJournal') = {} => flush = <<>>
  <2>1. PICK first \in Nat \ {0} : upJournal' = first..Len(upLog)
    <3>1. UpInv' /\ Len(upLog) \in Nat /\ upLog' = upLog
      BY <1>7, TypeParts DEF IInv, DiskTypeOK
    <3>2. QED
      BY <1>7, <3>1 DEF UpInv, Contiguous
  <2>2. flush \in Seq(Frames)
    BY <2>1, FlushDurableFrames, TypeParts DEF DiskTypeOK
  <2>3. QED
    BY <2>2, PlacesInFew DEF FlushDurable, SentAfterFlush, Unread
<1>10. toHost'[rSock] = toHost[rSock] \/ toHost'[rSock] = toHost[rSock] \o flush
  BY <1>2, <1>7, <1>9, HostQueueAfterWrite
<1> HIDE DEF flush
<1>11. AtMostOne(Unread(toHost'[rSock]))
  BY <1>3, <1>6, <1>9, <1>10, PlacesInConcat DEF Unread, AtMostOne
<1>12. sentAt' = {} => Unread(toHost'[rSock]) = {}
  <2>1. toHost[rSock] \o <<>> = toHost[rSock]
    BY <1>3, ConcatEmptySeq
  <2>2. QED
    BY <1>6, <1>7, <1>9, <1>10, <2>1
<1>13. Slot(toHost'[rSock], toRunner'[rSock], sentAt')
  BY <1>5, <1>11, <1>12 DEF Slot, AtMostOne
<1>14. QED
  BY <1>7, <1>13 DEF SlotInv

LEMMA RunnerReceiveHostEventSlot ==
  ASSUME IInv, SlotInv, RunnerReceiveHostEvent
  PROVE  SlotInv'
<1>1. RunnerReads("host.event") /\ RunnerConsume
  BY DEF RunnerReceiveHostEvent
<1>2. /\ rSock # NoConn /\ toRunner'[rSock] = Tail(toRunner[rSock])
      /\ toRunner[rSock] # <<>> /\ Head(toRunner[rSock]) \in Frames
  BY <1>1, RunnerQueueAfterConsume, RunnerReadsHead, TypeParts
<1>3. toHost[rSock] \in Seq(Frames) /\ toRunner[rSock] \in Seq(Frames)
  BY <1>2, RunnerQueueTypes
<1>4. PICK g : /\ g = Frame("host.ack", Head(toRunner[rSock]).seq, NoPayload)
               /\ toHost' = RunnerWrite(rSock, <<g>>)
               /\ rSock' = rSock /\ sentAt' = sentAt
  BY DEF RunnerReceiveHostEvent, runnerMem
<1>5. g \in Frames /\ g.type = "host.ack" /\ <<g>> \in Seq(Frames)
  <2>1. g \in Frames /\ g.type = "host.ack"
    BY <1>2, <1>4, FrameType DEF Frames, FrameTypes
  <2>2. QED
    BY <2>1, FewFrames
<1>6. NoMore(toHost[rSock], toHost'[rSock], {"durable"})
  BY <1>2, <1>3, <1>4, <1>5, HostQueueAfterWrite, PlacesInFew, PlacesInConcat, NoMoreOfNone
<1>7. NoMore(toRunner[rSock], toRunner'[rSock], {"ack", "nack"})
  BY <1>2, <1>3, PlacesInTail
<1>8. QED
  BY <1>4, <1>6, <1>7, SlotKept

LEMMA RunnerReceiveReadySlot ==
  ASSUME IInv, SlotInv, RunnerReceiveReady
  PROVE  SlotInv'
<1>1. RunnerReads("host.ready") /\ RunnerConsume
  BY DEF RunnerReceiveReady
<1>2. /\ rSock # NoConn /\ toRunner'[rSock] = Tail(toRunner[rSock])
      /\ toRunner[rSock] # <<>> /\ toRunner[rSock] \in Seq(Frames)
  BY <1>1, RunnerQueueAfterConsume, RunnerQueueTypes
<1>3. NoMore(toRunner[rSock], toRunner'[rSock], {"ack", "nack"})
  BY <1>2, PlacesInTail
<1>4. rSock' = rSock /\ sentAt' = sentAt /\ toHost' = toHost
  BY DEF RunnerReceiveReady
<1>5. QED
  BY <1>3, <1>4, NoMoreOfNone, SlotKept

LEMMA HostAcceptSlot ==
  ASSUME IInv, SlotInv, NEW c \in Conns, HostAccept(c)
  PROVE  SlotInv'
<1>1. /\ HostWrite(c, <<>>, hInFlight, FALSE, downJournal)
      /\ rSock' = rSock /\ sentAt' = sentAt /\ toHost' = toHost
  BY DEF HostAccept, runnerMem
<1>2. QED
  BY <1>1, DownJournalShape, WriteWithoutReply, NoMoreOfNone, SlotKept

LEMMA HostNotifySlot ==
  ASSUME IInv, SlotInv, HostNotify
  PROVE  SlotInv'
<1>1. /\ HostWrite(hConn, <<>>, hInFlight, hReadySent, downJournal)
      /\ rSock' = rSock /\ sentAt' = sentAt /\ toHost' = toHost
  BY DEF HostNotify, runnerMem
<1>2. QED
  BY <1>1, DownJournalShape, WriteWithoutReply, NoMoreOfNone, SlotKept

(* Reading any frame but a durable one leaves the durable ones. *)
LEMMA HostReadNoMore ==
  ASSUME IInv, NEW type, HostReceives(type), HostConsume, rSock # NoConn
  PROVE  NoMore(toHost[rSock], toHost'[rSock], {"durable"})
<1>1. toHost[rSock] \in Seq(Frames)
  BY RunnerQueueTypes
<1>2. QED
  BY <1>1, HostQueueAfterConsume, PlacesInTail, NoMoreOfNone

LEMMA HostReceiveHostAckSlot ==
  ASSUME IInv, SlotInv, HostReceiveHostAck, IInv'
  PROVE  SlotInv'
<1>1. HostReceives("host.ack") /\ HostConsume
      /\ rSock' = rSock /\ sentAt' = sentAt /\ downLog' = downLog
      /\ IF hEnded THEN toRunner' = toRunner
           ELSE HostWrite(hConn, <<>>, NoFlight, hReadySent, downJournal')
  BY DEF HostReceiveHostAck, runnerMem
<1>2. Tailing(downJournal', Len(downLog))
  <2>1. DownInv' /\ Len(downLog) \in Nat
    BY TypeParts DEF IInv, DiskTypeOK
  <2>2. QED
    BY <1>1, <2>1, TypeParts DEF DownInv, Contiguous, DiskTypeOK, Tailing
<1>3. ASSUME rSock # NoConn
      PROVE  NoMore(toRunner[rSock], toRunner'[rSock], {"ack", "nack"})
  <2>1. PICK journal : journal = downJournal'
    OBVIOUS
  <2>2. QED
    BY <1>1, <1>2, <1>3, <2>1, WriteWithoutReply, NoMoreOfNone
<1>4. QED
  BY <1>1, <1>3, HostReadNoMore, SlotKept

(* The durable frame read leaves the queue to the host empty of them, so its
   answer is the only one. *)
LEMMA SlotAnswered ==
  ASSUME IInv, SlotInv, HostReceives("durable"), HostConsume,
         rSock' = rSock, sentAt' = sentAt,
         rSock # NoConn =>
           \/ NoMore(toRunner[rSock], toRunner'[rSock], {"ack", "nack"})
           \/ \E f \in Frames :
                 /\ rSock = hConn
                 /\ NoMore(toRunner[rSock] \o <<f>>, toRunner'[rSock], {"ack", "nack"})
  PROVE  SlotInv'
<1>1. CASE rSock # NoConn => NoMore(toRunner[rSock], toRunner'[rSock], {"ack", "nack"})
  BY <1>1, HostReadNoMore, SlotKept
<1>2. CASE rSock # NoConn /\ ~NoMore(toRunner[rSock], toRunner'[rSock], {"ack", "nack"})
  <2>1. PICK f \in Frames :
          /\ rSock = hConn
          /\ NoMore(toRunner[rSock] \o <<f>>, toRunner'[rSock], {"ack", "nack"})
    BY <1>2
  <2>2. /\ toHost'[rSock] = Tail(toHost[rSock])
        /\ toHost[rSock] # <<>> /\ Head(toHost[rSock]).type = "durable"
    BY <1>2, <2>1, HostQueueAfterConsume
  <2>3. toHost[rSock] \in Seq(Frames) /\ toRunner[rSock] \in Seq(Frames) /\ <<f>> \in Seq(Frames)
    BY <1>2, RunnerQueueTypes, FewFrames
  <2>4. Slot(toHost[rSock], toRunner[rSock], sentAt)
    BY <1>2 DEF SlotInv
  <2>5. 1 \in Unread(toHost[rSock])
    BY <2>2, <2>3 DEF Unread, Places
  <2>6. Answered(toRunner[rSock]) = {} /\ sentAt # {}
    BY <2>4, <2>5 DEF Slot
  <2>7. Unread(toHost'[rSock]) = {}
    BY <2>2, <2>3, <2>4, PlacesInTail DEF Slot, Unread
  <2>8. AtMostOne(Answered(toRunner[rSock] \o <<f>>))
    BY <2>3, <2>6, PlacesInFew, PlacesInConcat DEF Answered
  <2>9. AtMostOne(Answered(toRunner'[rSock]))
    BY <2>1, <2>8 DEF NoMore, Answered
  <2>10. Slot(toHost'[rSock], toRunner'[rSock], sentAt')
    BY <2>6, <2>7, <2>9 DEF Slot, AtMostOne
  <2>11. QED
    BY <2>10 DEF SlotInv
<1>3. QED
  BY <1>1, <1>2

LEMMA HostReceiveDurableSlot ==
  ASSUME IInv, SlotInv, HostReceiveDurable
  PROVE  SlotInv'
<1>1. /\ HostReceives("durable") /\ HostConsume
      /\ rSock' = rSock /\ sentAt' = sentAt
  BY DEF HostReceiveDurable, runnerMem
<1>2. PICK g : g = Frame("ack", Head(toHost[hConn]).seq, NoPayload)
  OBVIOUS
<1>3. g \in Frames
  <2>1. Head(toHost[hConn]).seq \in Nat
    BY <1>1, TypeParts, HostReceivesHead DEF Frames
  <2>2. QED
    BY <1>2, <2>1, FrameType DEF FrameTypes
<1>4. IF hEnded THEN toRunner' = toRunner
        ELSE HostWrite(hConn, <<g>>, hInFlight, hReadySent, downJournal)
  BY <1>2 DEF HostReceiveDurable
<1>5. ASSUME rSock # NoConn
      PROVE  \/ toRunner'[rSock] = toRunner[rSock]
             \/ /\ rSock = hConn
                /\ NoMore(toRunner[rSock] \o <<g>>, toRunner'[rSock], {"ack", "nack"})
  BY <1>3, <1>4, <1>5, FewFrames, DownJournalShape, RunnerQueueAfterWrite
<1>6. QED
  BY <1>1, <1>3, <1>5, NoMoreOfNone, SlotAnswered

LEMMA HostRejectDurableSlot ==
  ASSUME IInv, SlotInv, HostRejectDurable
  PROVE  SlotInv'
<1>1. /\ HostReceives("durable") /\ HostConsume
      /\ rSock' = rSock /\ sentAt' = sentAt
  BY DEF HostRejectDurable, runnerMem
<1>2. PICK g : g = Frame("nack", Head(toHost[hConn]).seq, NoPayload)
  OBVIOUS
<1>3. g \in Frames
  <2>1. Head(toHost[hConn]).seq \in Nat
    BY <1>1, TypeParts, HostReceivesHead DEF Frames
  <2>2. QED
    BY <1>2, <2>1, FrameType DEF FrameTypes
<1>4. toRunner' = IF rSock = hConn /\ ~hEnded
                    THEN [toRunner EXCEPT ![hConn] = Append(@, g)]
                    ELSE toRunner
  BY <1>2 DEF HostRejectDurable
<1>5. ASSUME rSock # NoConn
      PROVE  \/ toRunner'[rSock] = toRunner[rSock]
             \/ rSock = hConn /\ toRunner'[rSock] = toRunner[rSock] \o <<g>>
  <2>1. rSock \in Conns /\ toRunner[rSock] \in Seq(Frames)
    BY <1>5, RunnerQueueTypes
  <2>2. Append(toRunner[rSock], g) = toRunner[rSock] \o <<g>>
    BY <1>3, <2>1, AppendIsConcat
  <2>3. QED
    BY <1>4, <2>1, <2>2, TypeParts DEF TypeOK
<1>6. QED
  BY <1>1, <1>3, <1>5, NoMoreOfNone, SlotAnswered

(* Steps that empty queues to the host, or touch no queue. *)
LEMMA HostQueuesEmptiedSlot ==
  ASSUME SlotInv, rSock' = rSock, sentAt' = sentAt, toRunner' = toRunner,
         rSock # NoConn => toHost'[rSock] \in {<<>>, toHost[rSock]}
  PROVE  SlotInv'
BY NoMoreOfNone, SlotKept

LEMMA OneConnectionEmptied ==
  ASSUME IInv, rSock # NoConn, NEW c, toHost' = [toHost EXCEPT ![c] = <<>>]
  PROVE  toHost'[rSock] \in {<<>>, toHost[rSock]}
BY RunnerQueueTypes, TypeParts DEF TypeOK

LEMMA HostLosingSlot ==
  ASSUME IInv, SlotInv,
         \/ \E c \in Conns : HostRefuse(c)
         \/ HostRejectConnection \/ HostAckTimeout \/ HostPeerClosed \/ HostDrop
         \/ HostCrash \/ HostCrashAfterCommit
  PROVE  SlotInv'
<1>1. CASE \E c \in Conns : HostRefuse(c)
  BY <1>1, OneConnectionEmptied, HostQueuesEmptiedSlot DEF HostRefuse, runnerMem
<1>2. CASE HostDestroyConnection
  BY <1>2, OneConnectionEmptied, HostQueuesEmptiedSlot DEF HostDestroyConnection, runnerMem
<1>3. CASE HostReset /\ UNCHANGED <<runnerMem, toRunner>>
  BY <1>3, RunnerQueueTypes, HostQueuesEmptiedSlot DEF HostReset, runnerMem
<1>4. QED
  BY <1>1, <1>2, <1>3 DEF HostRejectConnection, HostAckTimeout, HostPeerClosed, HostDrop,
     HostCrash, HostCrashAfterCommit

LEMMA UntouchedSlot ==
  ASSUME SlotInv, UNCHANGED <<rSock, sentAt, toHost, toRunner>>
  PROVE  SlotInv'
BY HostQueuesEmptiedSlot

LEMMA NextSlot ==
  ASSUME IInv, SlotInv, Next, IInv'
  PROVE  SlotInv'
<1>1. CASE \E c \in Conns : RunnerConnect(c)
  BY <1>1, RunnerConnectSlot
<1>2. CASE \/ RunnerReceiveNack \/ RunnerRejectHostEvent \/ RunnerPeerEnded \/ RunnerTimeout
           \/ RunnerDrop \/ RunnerCrash \/ RunnerCrashAfterCommit
  BY <1>2, SlotForgotten DEF RunnerReceiveNack, RunnerRejectHostEvent, RunnerPeerEnded,
     RunnerTimeout, RunnerDrop, RunnerCrash, RunnerCrashAfterCommit, RunnerDisconnect
<1>3. CASE RunnerFlush \/ RunnerReceiveAck \/ RunnerReceiveHostEvent \/ RunnerReceiveReady
  BY <1>3, RunnerFlushSlot, RunnerReceiveAckSlot, RunnerReceiveHostEventSlot,
     RunnerReceiveReadySlot
<1>4. CASE \/ \E c \in Conns : HostAccept(c)
           \/ HostNotify \/ HostReceiveDurable \/ HostRejectDurable \/ HostReceiveHostAck
  BY <1>4, HostAcceptSlot, HostNotifySlot, HostReceiveDurableSlot, HostRejectDurableSlot,
     HostReceiveHostAckSlot
<1>5. CASE \/ \E c \in Conns : HostRefuse(c)
           \/ HostRejectConnection \/ HostAckTimeout \/ HostPeerClosed \/ HostDrop
           \/ HostCrash \/ HostCrashAfterCommit
  BY <1>5, HostLosingSlot
<1>6. CASE RunnerStart \/ HostStart \/ (\E c \in Conns : HostClose(c)) \/ Work
  BY <1>6, UntouchedSlot DEF RunnerStart, HostStart, HostClose, Work, RunnerJournal,
     HostJournal, runnerMem, net
<1>7. QED
  BY <1>1, <1>2, <1>3, <1>4, <1>5, <1>6 DEF Next, RunnerProtocol, HostProtocol, Fault

(* Whatever is replayed, a connection carries one durable frame or one answer
   to it (flushDurable keeps sentAt until the answer is read). *)
THEOREM OneDurableAtATimeAlways == Spec => []OneDurableAtATime
<1>1. Init => SlotInv
  BY DEF Init, SlotInv
<1>2. IInv /\ IInv' /\ SlotInv /\ [Next]_vars => SlotInv'
  BY NextSlot, UntouchedSlot DEF vars, runnerMem, net
<1>3. SlotInv => OneDurableAtATime
  BY DEF SlotInv, Slot, Unread, Answered, OneDurableAtATime
<1>4. QED
  BY <1>1, <1>2, <1>3, IInvAlways, PTL DEF Spec

-----------------------------------------------------------------------------
(* An event in flight that no timer watches has the timer for host.ready *)

(* A flush tells the runner that it is up to date only when it has nothing
   else to write, and it remembers that. *)
LEMMA FlushTells ==
  ASSUME NEW flight, NEW readySent, NEW journal, Tailing(journal, Len(downLog)),
         downLog \in Seq(Payloads),
         NEW f \in FramesIn(FlushHostEvents(flight, readySent, journal)),
         f.type = "host.ready"
  PROVE  ReadyAfterFlush(flight, readySent, journal)
<1>1. flight = NoFlight
  BY FewFrames DEF FlushHostEvents
<1>2. PICK first \in Nat \ {0} : journal = first..Len(downLog)
  BY DEF Tailing
<1>3. journal = {}
  BY <1>2, FlushHostEventsFrames
<1>4. QED
  BY <1>1, <1>3 DEF ReadyAfterFlush

(* A reply and a flush written to the current connection c *)
LEMMA WriteKeepsReadyInv ==
  ASSUME IInv, NEW c \in Conns, hConn' = c, c \notin backlog', backlog' \subseteq backlog,
         rSock' = rSock, hostReady' = hostReady,
         NEW reply \in Seq(Frames), \A f \in FramesIn(reply) : f.type # "host.ready",
         NEW flight \in Flights, NEW readySent \in BOOLEAN, NEW journal,
         Tailing(journal, Len(downLog)),
         HostWrite(c, reply, flight, readySent, journal),
         flight = NoFlight \/ flight.conn = c \/ ~readySent,
         rSock = c /\ ToldReady => readySent,
         rSock \in backlog => ~hostReady /\ toRunner[rSock] = <<>>
  PROVE  ReadyInv'
<1> DEFINE flush == FlushHostEvents(flight, readySent, journal)
<1>1. /\ hInFlight' = FlightAfterFlush(c, flight, journal)
      /\ hReadySent' = ReadyAfterFlush(flight, readySent, journal)
      /\ rSock # c => toRunner' = toRunner
  BY DEF HostWrite
<1>2. hInFlight' # NoFlight /\ hInFlight'.conn # c => ~hReadySent'
  <2>1. ASSUME hInFlight' # NoFlight, hInFlight'.conn # c
        PROVE  flight # NoFlight /\ flight.conn # c
    BY <1>1, <2>1 DEF FlightAfterFlush
  <2>2. QED
    BY <1>1, <2>1 DEF ReadyAfterFlush
<1>3. rSock = c /\ ToldReady' => hReadySent'
  <2>1. SUFFICES ASSUME rSock = c, ToldReady' PROVE hReadySent'
    OBVIOUS
  <2>2. CASE ToldReady
    BY <1>1, <2>1, <2>2 DEF ReadyAfterFlush
  <2>3. CASE ~ToldReady
    <3>1. PICK f \in FramesIn(toRunner'[rSock]) : f.type = "host.ready"
      BY <2>1, <2>3 DEF ToldReady
    <3>2. RunnerQueuesGrowBy(FramesIn(reply) \union FramesIn(flush))
      BY TypeParts, HostWriteEffect
    <3>3. f \notin FramesIn(toRunner[rSock])
      BY <2>3, <3>1 DEF ToldReady
    <3>4. f \in FramesIn(flush)
      BY <2>1, <3>1, <3>2, <3>3 DEF RunnerQueuesGrowBy
    <3>5. QED
      BY <1>1, <3>1, <3>4, FlushTells, TypeParts DEF DiskTypeOK
  <2>4. QED
    BY <2>2, <2>3
<1>4. rSock \in backlog' => ~hostReady' /\ toRunner'[rSock] = <<>>
  BY <1>1
<1>5. QED
  BY <1>2, <1>3, <1>4 DEF ReadyInv

(* Steps that write nothing to the runner on the host's part *)
LEMMA ReadyInvKept ==
  ASSUME ReadyInv, rSock' = rSock, hConn' = hConn, hInFlight' = hInFlight,
         hReadySent' = hReadySent, backlog' \subseteq backlog,
         rSock # NoConn /\ rSock = hConn /\ ToldReady' => ToldReady,
         rSock \in backlog => UNCHANGED <<hostReady, toRunner>>
  PROVE  ReadyInv'
BY DEF ReadyInv

LEMMA ReadyInvForgotten ==
  ASSUME IInv, ReadyInv, RunnerReset, UNCHANGED <<hostMem, backlog>>
  PROVE  ReadyInv'
<1>1. rSock' = NoConn /\ NoConn \notin backlog
  BY TypeParts, NoConnAssumption DEF RunnerReset, NetTypeOK
<1>2. QED
  BY <1>1 DEF ReadyInv, hostMem

LEMMA RunnerConnectReady ==
  ASSUME IInv, ReadyInv, NEW c \in Conns, RunnerConnect(c)
  PROVE  ReadyInv'
<1>1. /\ rSock' = c /\ hostReady' = FALSE /\ backlog' = backlog \union {c}
      /\ toRunner' = [toRunner EXCEPT ![c] = <<>>]
      /\ c # hConn /\ UNCHANGED hostMem
  BY DEF RunnerConnect, Free
<1>2. toRunner'[c] = <<>>
  BY <1>1, TypeParts DEF TypeOK
<1>3. QED
  BY <1>1, <1>2 DEF ReadyInv, hostMem

(* The runner reads a frame: it was told what it now knows. *)
LEMMA RunnerReadsReady ==
  ASSUME IInv, ReadyInv, NEW type, RunnerReads(type), RunnerConsume,
         UNCHANGED <<rSock, hostMem, backlog>>,
         hostReady' = hostReady \/ type = "host.ready"
  PROVE  ReadyInv'
<1>1. /\ rSock \in Conns /\ RunnerQueuesGrowBy({})
      /\ Head(toRunner[rSock]) \in FramesIn(toRunner[rSock])
      /\ Head(toRunner[rSock]).type = type
  BY TypeParts, RunnerConsumeQueues
<1>2. ToldReady' => ToldReady
  BY <1>1 DEF ToldReady, RunnerQueuesGrowBy
<1>3. rSock \notin backlog
  BY DEF ReadyInv, RunnerReads
<1>4. QED
  BY <1>2, <1>3, ReadyInvKept DEF hostMem

LEMMA HostAcceptReady ==
  ASSUME IInv, ReadyInv, NEW c \in Conns, HostAccept(c)
  PROVE  ReadyInv'
<1>1. /\ c \in backlog /\ backlog' = backlog \ {c} /\ hConn' = c
      /\ HostWrite(c, <<>>, hInFlight, FALSE, downJournal)
      /\ rSock' = rSock /\ hostReady' = hostReady
  BY DEF HostAccept, runnerMem
<1>2. /\ <<>> \in Seq(Frames) /\ FramesIn(<<>>) = {} /\ hInFlight \in Flights
      /\ Tailing(downJournal, Len(downLog))
  BY FewFrames, DownJournalShape, TypeParts DEF HostTypeOK
<1>3. rSock \in backlog => ~hostReady /\ toRunner[rSock] = <<>>
  BY DEF ReadyInv
<1>4. ~(rSock = c /\ ToldReady)
  BY <1>1, <1>2, <1>3 DEF ToldReady
<1>5. QED
  BY <1>1, <1>2, <1>3, <1>4, WriteKeepsReadyInv

(* A flush on the current connection, after a reply *)
LEMMA HostWritesReady ==
  ASSUME IInv, ReadyInv, HostReads, hConn' = hConn, UNCHANGED <<backlog, runnerMem>>,
         NEW reply \in Seq(Frames), \A f \in FramesIn(reply) : f.type # "host.ready",
         NEW flight \in {hInFlight, NoFlight}, NEW journal, Tailing(journal, Len(downLog)),
         HostWrite(hConn, reply, flight, hReadySent, journal)
  PROVE  ReadyInv'
<1>1. /\ hConn \in Conns /\ hConn \notin backlog /\ hReadySent \in BOOLEAN
      /\ hInFlight \in Flights /\ NoFlight \in Flights
  BY TypeParts DEF HostReads, ReadyInv, HostTypeOK, NoFlight, Flights
<1>2. /\ flight = NoFlight \/ flight.conn = hConn \/ ~hReadySent
      /\ rSock = hConn /\ ToldReady => hReadySent
      /\ rSock \in backlog => ~hostReady /\ toRunner[rSock] = <<>>
  BY DEF ReadyInv, HostReads
<1>3. QED
  BY <1>1, <1>2, WriteKeepsReadyInv DEF runnerMem

LEMMA HostNotifyReady ==
  ASSUME IInv, ReadyInv, HostNotify
  PROVE  ReadyInv'
<1>1. <<>> \in Seq(Frames) /\ FramesIn(<<>>) = {} /\ Tailing(downJournal, Len(downLog))
  BY FewFrames, DownJournalShape
<1>2. /\ HostWrite(hConn, <<>>, hInFlight, hReadySent, downJournal)
      /\ HostReads /\ hConn' = hConn /\ UNCHANGED <<backlog, runnerMem>>
  BY DEF HostNotify, HostWrites
<1>3. QED
  BY <1>1, <1>2, HostWritesReady

LEMMA HostReceiveDurableReady ==
  ASSUME IInv, ReadyInv, HostReceiveDurable
  PROVE  ReadyInv'
<1> DEFINE g == Frame("ack", Head(toHost[hConn]).seq, NoPayload)
<1>1. /\ HostReceives("durable") /\ HostReads
      /\ hConn' = hConn /\ UNCHANGED <<backlog, runnerMem>>
      /\ IF hEnded THEN UNCHANGED <<hInFlight, hReadySent, toRunner>>
           ELSE HostWrite(hConn, <<g>>, hInFlight, hReadySent, downJournal)
  BY DEF HostReceiveDurable, HostReceives
<1>2. g \in Frames /\ g.type = "ack"
  BY <1>1, TypeParts, HostReceivesHead, FrameType DEF Frames, FrameTypes
<1> HIDE DEF g
<1>3. <<g>> \in Seq(Frames) /\ FramesIn(<<g>>) = {g} /\ Tailing(downJournal, Len(downLog))
  BY <1>2, FewFrames, DownJournalShape
<1>4. CASE hEnded
  BY <1>1, <1>4, ReadyInvKept DEF ToldReady, runnerMem
<1>5. CASE ~hEnded
  BY <1>1, <1>2, <1>3, <1>5, HostWritesReady
<1>6. QED
  BY <1>4, <1>5

LEMMA HostReceiveHostAckReady ==
  ASSUME IInv, ReadyInv, HostReceiveHostAck, IInv'
  PROVE  ReadyInv'
<1>1. /\ HostReads /\ hConn' = hConn /\ downLog' = downLog
      /\ UNCHANGED <<backlog, runnerMem>>
      /\ IF hEnded THEN hInFlight' = NoFlight /\ UNCHANGED <<hReadySent, toRunner>>
           ELSE HostWrite(hConn, <<>>, NoFlight, hReadySent, downJournal')
  BY DEF HostReceiveHostAck, HostReceives
<1>2. <<>> \in Seq(Frames) /\ FramesIn(<<>>) = {}
  BY FewFrames
<1>3. Tailing(downJournal', Len(downLog))
  <2>1. DownInv' /\ Len(downLog) \in Nat
    BY TypeParts DEF IInv, DiskTypeOK
  <2>2. QED
    BY <1>1, <2>1, TypeParts DEF DownInv, Contiguous, DiskTypeOK, Tailing
<1>4. CASE hEnded
  BY <1>1, <1>4 DEF ReadyInv, ToldReady, runnerMem
<1>5. CASE ~hEnded
  <2>1. PICK journal : journal = downJournal'
    OBVIOUS
  <2>2. QED
    BY <1>1, <1>2, <1>3, <1>5, <2>1, HostWritesReady
<1>6. QED
  BY <1>4, <1>5

LEMMA HostRejectDurableReady ==
  ASSUME IInv, ReadyInv, HostRejectDurable
  PROVE  ReadyInv'
<1> DEFINE g == Frame("nack", Head(toHost[hConn]).seq, NoPayload)
<1>1. /\ HostReceives("durable") /\ HostReads
      /\ hConn' = hConn /\ UNCHANGED <<hInFlight, hReadySent, backlog, runnerMem>>
      /\ toRunner' = IF rSock = hConn /\ ~hEnded
                       THEN [toRunner EXCEPT ![hConn] = Append(@, g)]
                       ELSE toRunner
  BY DEF HostRejectDurable, HostReceives
<1>2. g \in Frames /\ g.type = "nack" /\ hConn \in Conns
  BY <1>1, TypeParts, HostReceivesHead, FrameType DEF Frames, FrameTypes
<1> HIDE DEF g
<1>3. rSock = hConn => rSock \notin backlog
  BY <1>1 DEF ReadyInv, HostReads
<1>4. rSock = hConn /\ ToldReady' => ToldReady
  <2>1. CASE toRunner' = toRunner
    BY <1>1, <2>1 DEF ToldReady, runnerMem
  <2>2. CASE rSock = hConn /\ toRunner' = [toRunner EXCEPT ![hConn] = Append(@, g)]
    <3>1. toRunner'[rSock] = Append(toRunner[rSock], g) /\ toRunner[rSock] \in Seq(Frames)
      BY <1>2, <2>2, TypeParts DEF TypeOK
    <3>2. FramesIn(toRunner'[rSock]) \subseteq FramesIn(toRunner[rSock]) \union {g}
      BY <1>2, <3>1, AppendFrames
    <3>3. QED
      BY <1>1, <1>2, <3>2 DEF ToldReady, runnerMem
  <2>3. QED
    BY <1>1, <2>1, <2>2
<1>5. rSock \in backlog => UNCHANGED <<hostReady, toRunner>>
  BY <1>1, <1>3 DEF runnerMem
<1>6. QED
  BY <1>1, <1>4, <1>5, ReadyInvKept DEF runnerMem

(* Steps of the host that leave what the runner reads *)
LEMMA HostQuietReady ==
  ASSUME IInv, ReadyInv, UNCHANGED <<runnerMem, toRunner>>,
         \/ \E c \in Conns : HostRefuse(c) \/ HostClose(c)
         \/ HostDestroyConnection \/ HostReset \/ HostStart
  PROVE  ReadyInv'
<1>1. rSock' = rSock /\ hostReady' = hostReady /\ toRunner' = toRunner /\ (ToldReady' <=> ToldReady)
  BY DEF runnerMem, ToldReady
<1>2. CASE \E c \in Conns : HostRefuse(c)
  BY <1>1, <1>2, ReadyInvKept DEF HostRefuse, hostMem
<1>3. CASE HostDestroyConnection \/ HostStart
  BY <1>1, <1>3, ReadyInvKept DEF HostDestroyConnection, HostStart, net
<1>4. CASE HostReset
  BY <1>1, <1>4 DEF HostReset, ReadyInv
<1>5. ASSUME NEW c \in Conns, HostClose(c)
      PROVE  ReadyInv'
  <2>1. c # NoConn /\ hInFlight \in Flights
    BY TypeParts, NoConnAssumption DEF HostTypeOK
  <2>2. CASE hConn = c
    BY <1>1, <1>5, <2>1, <2>2 DEF HostClose, ReadyInv, net
  <2>3. CASE hConn # c
    <3>1. /\ hConn' = hConn /\ hReadySent' = hReadySent /\ backlog' = backlog
          /\ hInFlight' = [hInFlight EXCEPT !.conn = IF @ = c THEN NoConn ELSE @]
      BY <1>5, <2>3 DEF HostClose, net
    <3>2. hInFlight = NoFlight => hInFlight' = NoFlight
      BY <2>1, <3>1 DEF NoFlight, Flights
    <3>3. hInFlight.conn = hConn => hInFlight'.conn = hConn
      BY <2>1, <2>3, <3>1 DEF Flights
    <3>4. QED
      BY <1>1, <3>1, <3>2, <3>3 DEF ReadyInv
  <2>4. QED
    BY <2>2, <2>3
<1>6. QED
  BY <1>2, <1>3, <1>4, <1>5

LEMMA NextReady ==
  ASSUME IInv, ReadyInv, Next, IInv'
  PROVE  ReadyInv'
<1>1. CASE \E c \in Conns : RunnerConnect(c)
  BY <1>1, RunnerConnectReady
<1>2. CASE \/ RunnerReceiveNack \/ RunnerRejectHostEvent \/ RunnerPeerEnded \/ RunnerTimeout
           \/ RunnerDrop \/ RunnerCrash \/ RunnerCrashAfterCommit
  BY <1>2, ReadyInvForgotten DEF RunnerReceiveNack, RunnerRejectHostEvent, RunnerPeerEnded,
     RunnerTimeout, RunnerDrop, RunnerCrash, RunnerCrashAfterCommit, RunnerDisconnect
<1>3. CASE RunnerReceiveAck \/ RunnerReceiveHostEvent \/ RunnerReceiveReady
  BY <1>3, RunnerReadsReady DEF RunnerReceiveAck, RunnerReceiveHostEvent, RunnerReceiveReady,
     runnerMem
<1>4. CASE \/ \E c \in Conns : HostAccept(c)
           \/ HostNotify \/ HostReceiveDurable \/ HostRejectDurable \/ HostReceiveHostAck
  BY <1>4, HostAcceptReady, HostNotifyReady, HostReceiveDurableReady, HostRejectDurableReady,
     HostReceiveHostAckReady
<1>5. CASE \/ \E c \in Conns : HostRefuse(c) \/ HostClose(c)
           \/ HostRejectConnection \/ HostAckTimeout \/ HostPeerClosed \/ HostDrop
           \/ HostCrash \/ HostCrashAfterCommit \/ HostStart
  BY <1>5, HostQuietReady DEF HostRefuse, HostClose, HostRejectConnection, HostAckTimeout,
     HostPeerClosed, HostDrop, HostCrash, HostCrashAfterCommit, HostStart,
     HostDestroyConnection, runnerMem, net
<1>6. CASE RunnerFlush \/ RunnerStart \/ Work
  <2>1. UNCHANGED <<rSock, hostReady, hostMem, backlog, toRunner>>
    BY <1>6 DEF RunnerFlush, RunnerStart, Work, RunnerJournal, HostJournal, runnerMem, net
  <2>2. QED
    BY <2>1, ReadyInvKept DEF ToldReady, hostMem
<1>7. QED
  BY <1>1, <1>2, <1>3, <1>4, <1>5, <1>6 DEF Next, RunnerProtocol, HostProtocol, Fault

-----------------------------------------------------------------------------
(* The event in flight on a connection, or its answer, is under way *)

LEMMA TailKeeps ==
  ASSUME NEW q \in Seq(Frames), q # <<>>, NEW f \in FramesIn(q), f # Head(q)
  PROVE  f \in FramesIn(Tail(q))
<1>1. /\ Tail(q) \in Seq(Frames)
      /\ Len(Tail(q)) = Len(q) - 1
      /\ \A i \in 1..Len(Tail(q)) : Tail(q)[i] = q[i + 1]
      /\ Head(q) = q[1] /\ Len(q) \in Nat \ {0}
  BY HeadTailProperties
<1>2. PICK i \in 1..Len(q) : q[i] = f
  BY DEF FramesIn
<1>3. i # 1
  BY <1>1, <1>2
<1>4. i - 1 \in 1..Len(Tail(q)) /\ (i - 1) + 1 = i
  BY <1>1, <1>2, <1>3
<1>5. Tail(q)[i - 1] = f
  BY <1>1, <1>2, <1>4
<1>6. QED
  BY <1>4, <1>5 DEF FramesIn

LEMMA ConcatKeeps ==
  ASSUME NEW q \in Seq(Frames), NEW r \in Seq(Frames)
  PROVE  FramesIn(q) \subseteq FramesIn(q \o r) /\ FramesIn(r) \subseteq FramesIn(q \o r)
<1>1. /\ Len(q \o r) = Len(q) + Len(r) /\ Len(q) \in Nat /\ Len(r) \in Nat
      /\ \A i \in 1..Len(q) + Len(r) :
           (q \o r)[i] = IF i <= Len(q) THEN q[i] ELSE r[i - Len(q)]
  BY ConcatProperties
<1>2. ASSUME NEW i \in 1..Len(q) PROVE q[i] \in FramesIn(q \o r)
  <2>1. i \in 1..Len(q \o r) /\ (q \o r)[i] = q[i]
    BY <1>1
  <2>2. QED
    BY <2>1 DEF FramesIn
<1>3. ASSUME NEW i \in 1..Len(r) PROVE r[i] \in FramesIn(q \o r)
  <2>1. Len(q) + i \in 1..Len(q) + Len(r) /\ ~(Len(q) + i <= Len(q)) /\ (Len(q) + i) - Len(q) = i
    BY <1>1
  <2>2. Len(q) + i \in 1..Len(q \o r) /\ (q \o r)[Len(q) + i] = r[i]
    BY <1>1, <2>1
  <2>3. QED
    BY <2>2 DEF FramesIn
<1>4. QED
  BY <1>2, <1>3 DEF FramesIn

(* An event, or its acknowledgement, is unread in a queue. *)
Sent(seq, queue) == \E f \in FramesIn(queue) : f.type = "host.event" /\ f.seq = seq
Acked(seq, queue) == \E f \in FramesIn(queue) : f.type = "host.ack" /\ f.seq = seq

LEMMA FlightKept ==
  ASSUME FlightInv, rSock' = rSock, hUp' = hUp, hConn' = hConn, hDestroyed' = hDestroyed,
         hInFlight' = hInFlight, backlog' \subseteq backlog,
         HostReads /\ rSock = hConn /\ UnderWay => UnderWay'
  PROVE  FlightInv'
BY DEF FlightInv, HostReads

LEMMA FlightForgotten ==
  ASSUME FlightInv, RunnerReset, UNCHANGED <<hostMem, backlog>>
  PROVE  FlightInv'
BY DEF FlightInv, HostReads, RunnerReset, hostMem

LEMMA RunnerConnectFlight ==
  ASSUME FlightInv, NEW c \in Conns, RunnerConnect(c)
  PROVE  FlightInv'
BY DEF FlightInv, HostReads, RunnerConnect, Free, hostMem

(* What the runner writes on the current connection is added at the end. *)
LEMMA RunnerWriteKeeps ==
  ASSUME IInv, HostReads, rSock = hConn, NEW r \in Seq(Frames),
         toHost' = RunnerWrite(rSock, r)
  PROVE  /\ FramesIn(toHost[rSock]) \subseteq FramesIn(toHost'[rSock])
         /\ FramesIn(r) \subseteq FramesIn(toHost'[rSock])
<1>1. rSock \in Conns /\ toHost[rSock] \in Seq(Frames) /\ HostOpen(rSock)
  BY RunnerQueueTypes DEF HostReads, HostOpen
<1>2. toHost'[rSock] = toHost[rSock] \o r
  BY <1>1, TypeParts DEF RunnerWrite, TypeOK
<1>3. QED
  BY <1>1, <1>2, ConcatKeeps

LEMMA RunnerFlushFlight ==
  ASSUME IInv, FlightInv, RunnerFlush
  PROVE  FlightInv'
<1>1. /\ FlushDurable(sentAt, upJournal) \in Seq(Frames)
      /\ toHost' = RunnerWrite(rSock, FlushDurable(sentAt, upJournal))
      /\ UNCHANGED <<rSock, hostMem, backlog, toRunner>>
  BY FlushDurableGood, TypeParts DEF RunnerFlush, RunnerTypeOK
<1>2. HostReads /\ rSock = hConn /\ UnderWay => UnderWay'
  BY <1>1, RunnerWriteKeeps DEF UnderWay, hostMem
<1>3. QED
  BY <1>1, <1>2, FlightKept DEF hostMem

(* Reading any frame but a host event leaves the events. *)
LEMMA RunnerConsumeKeeps ==
  ASSUME IInv, NEW type, RunnerReads(type), RunnerConsume,
         NEW f \in FramesIn(toRunner[rSock]), f # Head(toRunner[rSock])
  PROVE  f \in FramesIn(toRunner'[rSock])
<1>1. /\ toRunner'[rSock] = Tail(toRunner[rSock])
      /\ toRunner[rSock] # <<>> /\ toRunner[rSock] \in Seq(Frames)
  BY RunnerQueueAfterConsume, RunnerQueueTypes
<1>2. QED
  BY <1>1, TailKeeps

LEMMA RunnerReceiveAckFlight ==
  ASSUME IInv, FlightInv, RunnerReceiveAck, IInv'
  PROVE  FlightInv'
<1>1. RunnerReads("ack") /\ RunnerConsume /\ UNCHANGED <<rSock, hostMem, backlog, upLog>>
  BY DEF RunnerReceiveAck
<1>2. PICK r : /\ r = FlushDurable(sentAt \ {Head(toRunner[rSock]).seq}, upJournal')
               /\ toHost' = RunnerWrite(rSock, r)
  BY DEF RunnerReceiveAck
<1>3. r \in Seq(Frames)
  <2>1. PICK first \in Nat \ {0} : upJournal' = first..Len(upLog)
    <3>1. UpInv' /\ Len(upLog) \in Nat /\ upLog' = upLog
      BY <1>1, TypeParts DEF IInv, DiskTypeOK
    <3>2. QED
      BY <3>1, TypeParts DEF UpInv, Contiguous
  <2>2. QED
    BY <1>2, <2>1, FlushDurableFrames, TypeParts DEF DiskTypeOK
<1>4. Head(toRunner[rSock]).type = "ack"
  BY <1>1 DEF RunnerReads
<1>5. HostReads /\ rSock = hConn /\ UnderWay => UnderWay'
  BY <1>1, <1>2, <1>3, <1>4, RunnerWriteKeeps, RunnerConsumeKeeps DEF UnderWay, hostMem
<1>6. QED
  BY <1>1, <1>5, FlightKept DEF hostMem

LEMMA RunnerReceiveReadyFlight ==
  ASSUME IInv, FlightInv, RunnerReceiveReady
  PROVE  FlightInv'
<1>1. /\ RunnerReads("host.ready") /\ RunnerConsume
      /\ UNCHANGED <<rSock, hostMem, backlog, toHost>>
      /\ Head(toRunner[rSock]).type = "host.ready"
  BY DEF RunnerReceiveReady, RunnerReads
<1>2. UnderWay => UnderWay'
  BY <1>1, RunnerConsumeKeeps DEF UnderWay, hostMem
<1>3. QED
  BY <1>1, <1>2, FlightKept DEF hostMem

(* The event read is answered at once. *)
LEMMA RunnerReceiveHostEventFlight ==
  ASSUME IInv, FlightInv, RunnerReceiveHostEvent
  PROVE  FlightInv'
<1>1. /\ RunnerReads("host.event") /\ RunnerConsume
      /\ UNCHANGED <<rSock, hostMem, backlog>>
  BY DEF RunnerReceiveHostEvent, runnerMem
<1>2. PICK seq : seq = Head(toRunner[rSock]).seq
  OBVIOUS
<1>3. PICK g : g = Frame("host.ack", seq, NoPayload) /\ toHost' = RunnerWrite(rSock, <<g>>)
  BY <1>2 DEF RunnerReceiveHostEvent
<1>4. g \in Frames /\ g.type = "host.ack" /\ g.seq = seq
  BY <1>1, <1>2, <1>3, TypeParts, RunnerReadsHead, FrameType DEF Frames, FrameTypes
<1>5. <<g>> \in Seq(Frames) /\ FramesIn(<<g>>) = {g}
  BY <1>4, FewFrames
<1>6. HostReads /\ rSock = hConn /\ UnderWay => UnderWay'
  <2>1. SUFFICES ASSUME HostReads, rSock = hConn, UnderWay PROVE UnderWay'
    OBVIOUS
  <2>2. FramesIn(toHost[rSock]) \subseteq FramesIn(toHost'[rSock]) /\ g \in FramesIn(toHost'[rSock])
    BY <1>3, <1>5, <2>1, RunnerWriteKeeps
  <2>3. hInFlight' = hInFlight /\ rSock' = rSock
    BY <1>1 DEF hostMem
  <2>4. CASE Acked(hInFlight.seq, toHost[rSock])
    BY <2>2, <2>3, <2>4 DEF UnderWay, Acked
  <2>5. CASE seq = hInFlight.seq
    BY <1>4, <2>2, <2>3, <2>5 DEF UnderWay
  <2>6. CASE seq # hInFlight.seq /\ Sent(hInFlight.seq, toRunner[rSock])
    <3>1. PICK f \in FramesIn(toRunner[rSock]) : f.type = "host.event" /\ f.seq = hInFlight.seq
      BY <2>6 DEF Sent
    <3>2. f # Head(toRunner[rSock])
      BY <1>2, <2>6, <3>1
    <3>3. QED
      BY <1>1, <2>3, <3>1, <3>2, RunnerConsumeKeeps DEF UnderWay
  <2>7. QED
    BY <2>1, <2>4, <2>5, <2>6 DEF UnderWay, Sent, Acked
<1>7. QED
  BY <1>1, <1>6, FlightKept DEF hostMem

(* A flush puts an event in flight by writing it. *)
LEMMA FlushSends ==
  ASSUME IInv, NEW c \in Conns, rSock = c, NEW reply \in Seq(Frames), NEW flight,
         NEW readySent, NEW journal, Tailing(journal, Len(downLog)),
         HostWrite(c, reply, flight, readySent, journal)
  PROVE  /\ FramesIn(toRunner[c]) \subseteq FramesIn(toRunner'[c])
         /\ hInFlight' = flight \/ Sent(hInFlight'.seq, toRunner'[c])
<1>1. PICK first \in Nat \ {0} : journal = first..Len(downLog)
  BY DEF Tailing
<1>2. PICK flush : flush = FlushHostEvents(flight, readySent, journal)
  OBVIOUS
<1>3. flush \in Seq(Frames)
  BY <1>1, <1>2, FlushHostEventsFrames, TypeParts DEF DiskTypeOK
<1>4. toRunner[c] \in Seq(Frames)
  BY TypeParts DEF TypeOK
<1>5. toRunner[c] \o reply \in Seq(Frames)
  BY <1>4, ConcatFrames
<1>6. toRunner'[c] = (toRunner[c] \o reply) \o flush
  <2>1. toRunner' = [toRunner EXCEPT ![c] = @ \o reply \o flush]
    BY <1>2 DEF HostWrite
  <2>2. QED
    BY <2>1, TypeParts DEF TypeOK
<1>7. FramesIn(toRunner[c]) \subseteq FramesIn(toRunner'[c]) /\ FramesIn(flush) \subseteq FramesIn(toRunner'[c])
  BY <1>3, <1>4, <1>5, <1>6, ConcatKeeps
<1>8. hInFlight' = FlightAfterFlush(c, flight, journal)
  BY DEF HostWrite
<1>9. ASSUME flight = NoFlight, journal # {}
      PROVE  Sent(hInFlight'.seq, flush)
  <2>1. flush = <<Frame("host.event", HeadOf(journal), downLog[HeadOf(journal)])>>
    BY <1>2, <1>9 DEF FlushHostEvents
  <2>2. hInFlight'.seq = HeadOf(journal)
    BY <1>8, <1>9 DEF FlightAfterFlush
  <2>3. Frame("host.event", HeadOf(journal), downLog[HeadOf(journal)]) \in FramesIn(flush)
    BY <2>1 DEF FramesIn
  <2>4. QED
    BY <2>2, <2>3 DEF Sent, Frame
<1>10. QED
  BY <1>7, <1>8, <1>9 DEF FlightAfterFlush, Sent

LEMMA HostAcceptFlight ==
  ASSUME IInv, FlightInv, NEW c \in Conns, HostAccept(c)
  PROVE  FlightInv'
<1>1. /\ c \in backlog /\ hConn' = c /\ hUp' = hUp /\ hUp /\ backlog' = backlog \ {c}
      /\ hDestroyed' = hDestroyed
      /\ rSock' = rSock /\ toHost' = toHost
      /\ hConn = NoConn \/ hConn \in hDestroyed
      /\ HostWrite(c, <<>>, hInFlight, FALSE, downJournal)
  BY DEF HostAccept, runnerMem
<1>2. c \notin hDestroyed /\ c # NoConn
  BY <1>1, NoConnAssumption DEF FlightInv
<1>3. hInFlight.conn # c
  BY <1>1, <1>2 DEF FlightInv
<1>4. hInFlight' = hInFlight \/ hInFlight'.conn = c
  BY <1>1 DEF HostWrite, FlightAfterFlush
<1>5. hInFlight'.conn \in {NoConn, c} \union hDestroyed
  BY <1>1, <1>4 DEF FlightInv
<1>6. ASSUME rSock = c, hInFlight'.conn = c
      PROVE  UnderWay'
  <2>1. <<>> \in Seq(Frames) /\ Tailing(downJournal, Len(downLog))
    BY FewFrames, DownJournalShape
  <2>2. Sent(hInFlight'.seq, toRunner'[c])
    BY <1>1, <1>3, <1>6, <2>1, FlushSends
  <2>3. QED
    BY <1>1, <1>6, <2>2 DEF UnderWay, Sent
<1>7. QED
  BY <1>1, <1>5, <1>6 DEF FlightInv

(* A write on the current connection keeps the event in flight, or writes the
   next. *)
LEMMA HostWritesFlight ==
  ASSUME IInv, FlightInv, HostReads,
         UNCHANGED <<rSock, hUp, hConn, hDestroyed, backlog>>,
         NEW reply \in Seq(Frames), NEW flight \in {hInFlight, NoFlight}, NEW journal,
         Tailing(journal, Len(downLog)),
         HostWrite(hConn, reply, flight, hReadySent, journal),
         rSock = hConn /\ flight # NoFlight /\ Acked(flight.seq, toHost[rSock])
           => Acked(flight.seq, toHost'[rSock])
  PROVE  FlightInv'
<1>1. hConn \in Conns
  BY TypeParts DEF HostReads, HostTypeOK
<1>2. hInFlight' = flight \/ hInFlight'.conn = hConn
  BY DEF HostWrite, FlightAfterFlush
<1>3. hInFlight'.conn \in {NoConn, hConn} \union hDestroyed
  BY <1>2 DEF FlightInv, NoFlight
<1>4. ASSUME rSock = hConn, hInFlight' # NoFlight, hInFlight'.conn = hConn
      PROVE  UnderWay'
  <2>1. FramesIn(toRunner[hConn]) \subseteq FramesIn(toRunner'[hConn])
    BY <1>1, <1>4, FlushSends
  <2>2. CASE Sent(hInFlight'.seq, toRunner'[hConn])
    BY <1>4, <2>2 DEF UnderWay, Sent
  <2>3. CASE hInFlight' = flight
    <3>1. flight = hInFlight /\ UnderWay
      BY <1>4, <2>3 DEF FlightInv
    <3>2. CASE Sent(hInFlight.seq, toRunner[rSock])
      BY <1>4, <2>1, <2>3, <3>1, <3>2 DEF UnderWay, Sent
    <3>3. CASE Acked(hInFlight.seq, toHost[rSock])
      BY <1>4, <2>3, <3>1, <3>3 DEF UnderWay, Acked
    <3>4. QED
      BY <3>1, <3>2, <3>3 DEF UnderWay, Sent, Acked
  <2>4. QED
    BY <1>1, <1>4, <2>2, <2>3, FlushSends
<1>5. QED
  BY <1>3, <1>4 DEF FlightInv, HostReads

(* Reading another frame leaves the acknowledgement. *)
LEMMA HostConsumeKeeps ==
  ASSUME IInv, NEW type, HostReceives(type), HostConsume, rSock = hConn,
         NEW f \in FramesIn(toHost[rSock]), f # Head(toHost[rSock])
  PROVE  f \in FramesIn(toHost'[rSock])
<1>1. rSock # NoConn
  BY DEF HostReceives, HostReads
<1>2. /\ toHost'[rSock] = Tail(toHost[rSock])
      /\ toHost[rSock] # <<>> /\ toHost[rSock] \in Seq(Frames)
  BY <1>1, HostQueueAfterConsume, RunnerQueueTypes
<1>3. QED
  BY <1>2, TailKeeps

LEMMA DurableReadKeeps ==
  ASSUME IInv, HostReceives("durable"), HostConsume, rSock = hConn, NEW seq,
         Acked(seq, toHost[rSock])
  PROVE  Acked(seq, toHost'[rSock])
<1>1. PICK f \in FramesIn(toHost[rSock]) : f.type = "host.ack" /\ f.seq = seq
  BY DEF Acked
<1>2. f # Head(toHost[rSock])
  BY <1>1 DEF HostReceives
<1>3. QED
  BY <1>1, <1>2, HostConsumeKeeps DEF Acked

LEMMA HostNotifyFlight ==
  ASSUME IInv, FlightInv, HostNotify
  PROVE  FlightInv'
<1>1. <<>> \in Seq(Frames) /\ Tailing(downJournal, Len(downLog))
  BY FewFrames, DownJournalShape
<1>2. /\ HostWrite(hConn, <<>>, hInFlight, hReadySent, downJournal)
      /\ HostReads /\ UNCHANGED <<rSock, hUp, hConn, hDestroyed, backlog, toHost>>
  BY DEF HostNotify, HostWrites, runnerMem
<1>3. QED
  BY <1>1, <1>2, HostWritesFlight

LEMMA HostReceiveDurableFlight ==
  ASSUME IInv, FlightInv, HostReceiveDurable
  PROVE  FlightInv'
<1> DEFINE g == Frame("ack", Head(toHost[hConn]).seq, NoPayload)
<1>1. /\ HostReceives("durable") /\ HostReads /\ HostConsume
      /\ UNCHANGED <<rSock, hUp, hConn, hDestroyed, backlog>>
      /\ IF hEnded THEN UNCHANGED <<hInFlight, hReadySent, toRunner>>
           ELSE HostWrite(hConn, <<g>>, hInFlight, hReadySent, downJournal)
  BY DEF HostReceiveDurable, HostReceives, runnerMem
<1>2. g \in Frames
  BY <1>1, TypeParts, HostReceivesHead, FrameType DEF Frames, FrameTypes
<1> HIDE DEF g
<1>3. <<g>> \in Seq(Frames) /\ Tailing(downJournal, Len(downLog))
  BY <1>2, FewFrames, DownJournalShape
<1>4. rSock = hConn =>
        \A seq : Acked(seq, toHost[rSock]) => Acked(seq, toHost'[rSock])
  BY <1>1, DurableReadKeeps
<1>5. CASE hEnded
  <2>1. rSock = hConn /\ UnderWay => UnderWay'
    BY <1>1, <1>4, <1>5 DEF UnderWay, Acked
  <2>2. QED
    BY <1>1, <1>5, <2>1, FlightKept
<1>6. CASE ~hEnded
  BY <1>1, <1>3, <1>4, <1>6, HostWritesFlight
<1>7. QED
  BY <1>5, <1>6

LEMMA HostRejectDurableFlight ==
  ASSUME IInv, FlightInv, HostRejectDurable
  PROVE  FlightInv'
<1> DEFINE g == Frame("nack", Head(toHost[hConn]).seq, NoPayload)
<1>1. /\ HostReceives("durable") /\ HostReads /\ HostConsume
      /\ UNCHANGED <<rSock, hUp, hConn, hDestroyed, hInFlight, backlog>>
      /\ toRunner' = IF rSock = hConn /\ ~hEnded
                       THEN [toRunner EXCEPT ![hConn] = Append(@, g)]
                       ELSE toRunner
  BY DEF HostRejectDurable, HostReceives, runnerMem
<1>2. g \in Frames /\ hConn \in Conns
  BY <1>1, TypeParts, HostReceivesHead, FrameType DEF Frames, FrameTypes
<1> HIDE DEF g
<1>3. rSock = hConn =>
        \A seq : Acked(seq, toHost[rSock]) => Acked(seq, toHost'[rSock])
  BY <1>1, DurableReadKeeps
<1>4. rSock = hConn => FramesIn(toRunner[rSock]) \subseteq FramesIn(toRunner'[rSock])
  <2>1. toRunner[hConn] \in Seq(Frames) /\ <<g>> \in Seq(Frames)
    BY <1>2, FewFrames, TypeParts DEF TypeOK
  <2>2. CASE rSock = hConn /\ ~hEnded
    <3>1. toRunner'[rSock] = Append(toRunner[rSock], g)
      BY <1>1, <1>2, <2>2, TypeParts DEF TypeOK
    <3>2. Append(toRunner[rSock], g) = toRunner[rSock] \o <<g>>
      BY <1>2, <2>1, <2>2, AppendIsConcat
    <3>3. QED
      BY <2>1, <2>2, <3>1, <3>2, ConcatKeeps
  <2>3. CASE ~(rSock = hConn /\ ~hEnded)
    BY <1>1, <2>3
  <2>4. QED
    BY <2>2, <2>3
<1>5. rSock = hConn /\ UnderWay => UnderWay'
  BY <1>1, <1>3, <1>4 DEF UnderWay, Acked
<1>6. QED
  BY <1>1, <1>5, FlightKept

LEMMA HostReceiveHostAckFlight ==
  ASSUME IInv, FlightInv, HostReceiveHostAck, IInv'
  PROVE  FlightInv'
<1>1. /\ HostReads /\ downLog' = downLog
      /\ UNCHANGED <<rSock, hUp, hConn, hDestroyed, backlog>>
      /\ IF hEnded THEN hInFlight' = NoFlight /\ UNCHANGED <<hReadySent, toRunner>>
           ELSE HostWrite(hConn, <<>>, NoFlight, hReadySent, downJournal')
  BY DEF HostReceiveHostAck, HostReceives, runnerMem
<1>2. <<>> \in Seq(Frames)
  BY FewFrames
<1>3. Tailing(downJournal', Len(downLog))
  <2>1. DownInv' /\ Len(downLog) \in Nat
    BY TypeParts DEF IInv, DiskTypeOK
  <2>2. QED
    BY <1>1, <2>1, TypeParts DEF DownInv, Contiguous, DiskTypeOK, Tailing
<1>4. CASE hEnded
  BY <1>1, <1>4 DEF FlightInv, NoFlight
<1>5. CASE ~hEnded
  <2>1. PICK journal : journal = downJournal'
    OBVIOUS
  <2>2. QED
    BY <1>1, <1>2, <1>3, <1>5, <2>1, HostWritesFlight
<1>6. QED
  BY <1>4, <1>5

(* Steps that end a connection, or begin a host *)
LEMMA HostQuietFlight ==
  ASSUME IInv, ReadyInv, FlightInv, UNCHANGED <<runnerMem, toRunner>>,
         \/ \E c \in Conns : HostRefuse(c) \/ HostClose(c)
         \/ HostReads /\ HostDestroyConnection
         \/ HostReset \/ HostStart
  PROVE  FlightInv'
<1>1. rSock' = rSock
  BY DEF runnerMem
<1>2. ASSUME NEW c \in Conns, HostRefuse(c)
      PROVE  FlightInv'
  <2>1. /\ UNCHANGED hostMem /\ c \in backlog /\ backlog' = backlog \ {c}
        /\ toHost' = [toHost EXCEPT ![c] = <<>>]
    BY <1>2 DEF HostRefuse
  <2>2. HostReads /\ rSock = hConn => c # rSock
    BY <2>1 DEF ReadyInv, HostReads
  <2>3. HostReads /\ rSock = hConn => toHost'[rSock] = toHost[rSock]
    BY <2>1, <2>2, TypeParts DEF TypeOK, HostReads, HostTypeOK
  <2>4. HostReads /\ rSock = hConn /\ UnderWay => UnderWay'
    BY <1>1, <2>1, <2>3 DEF UnderWay, hostMem
  <2>5. QED
    BY <1>1, <2>1, <2>4, FlightKept DEF hostMem
<1>3. CASE HostReads /\ HostDestroyConnection
  <2>1. hConn \notin backlog /\ hConn' \in hDestroyed'
    BY <1>3 DEF ReadyInv, HostReads, HostDestroyConnection
  <2>2. QED
    BY <1>1, <1>3, <2>1 DEF FlightInv, HostReads, HostDestroyConnection
<1>4. CASE HostReset
  BY <1>4 DEF HostReset, FlightInv, HostReads, NoFlight
<1>5. CASE HostStart
  BY <1>1, <1>5 DEF HostStart, FlightInv, HostReads, net
<1>6. ASSUME NEW c \in Conns, HostClose(c)
      PROVE  FlightInv'
  <2>1. /\ hUp /\ hUp' = hUp /\ hDestroyed' = hDestroyed \ {c} /\ backlog' = backlog
        /\ toHost' = toHost /\ toRunner' = toRunner
    BY <1>6 DEF HostClose, net
  <2>2. c # NoConn /\ hInFlight \in Flights
    BY TypeParts, NoConnAssumption DEF HostTypeOK
  <2>3. CASE hConn = c
    BY <1>1, <1>6, <2>1, <2>3 DEF HostClose, FlightInv, HostReads, NoFlight
  <2>4. CASE hConn # c
    <3>1. hConn' = hConn /\ hInFlight' = [hInFlight EXCEPT !.conn = IF @ = c THEN NoConn ELSE @]
      BY <1>6, <2>4 DEF HostClose
    <3>2. hInFlight'.seq = hInFlight.seq
          /\ hInFlight'.conn = IF hInFlight.conn = c THEN NoConn ELSE hInFlight.conn
      BY <2>2, <3>1 DEF Flights
    <3>3. hInFlight'.conn \in {NoConn, hConn} \union hDestroyed'
      BY <2>1, <3>2 DEF FlightInv
    <3>4. HostReads' /\ hInFlight' # NoFlight /\ hInFlight'.conn = hConn
             => HostReads /\ hInFlight # NoFlight /\ hInFlight.conn = hConn
      <4>1. hInFlight = NoFlight => hInFlight' = NoFlight
        BY <2>2, <3>1 DEF NoFlight, Flights
      <4>2. HostReads' => HostReads
        BY <2>1, <2>4, <3>1 DEF HostReads
      <4>3. HostReads' => hConn # NoConn
        BY <3>1 DEF HostReads
      <4>4. QED
        BY <3>2, <4>1, <4>2, <4>3
    <3>5. UnderWay => UnderWay'
      BY <1>1, <2>1, <3>2 DEF UnderWay
    <3>6. QED
      BY <1>1, <2>1, <3>1, <3>3, <3>4, <3>5 DEF FlightInv
  <2>5. QED
    BY <2>3, <2>4
<1>7. QED
  BY <1>2, <1>3, <1>4, <1>5, <1>6

LEMMA NextFlight ==
  ASSUME IInv, ReadyInv, FlightInv, Next, IInv'
  PROVE  FlightInv'
<1>1. CASE \E c \in Conns : RunnerConnect(c)
  BY <1>1, RunnerConnectFlight
<1>2. CASE \/ RunnerReceiveNack \/ RunnerRejectHostEvent \/ RunnerPeerEnded \/ RunnerTimeout
           \/ RunnerDrop \/ RunnerCrash \/ RunnerCrashAfterCommit
  BY <1>2, FlightForgotten DEF RunnerReceiveNack, RunnerRejectHostEvent, RunnerPeerEnded,
     RunnerTimeout, RunnerDrop, RunnerCrash, RunnerCrashAfterCommit, RunnerDisconnect
<1>3. CASE RunnerFlush \/ RunnerReceiveAck \/ RunnerReceiveHostEvent \/ RunnerReceiveReady
  BY <1>3, RunnerFlushFlight, RunnerReceiveAckFlight, RunnerReceiveHostEventFlight,
     RunnerReceiveReadyFlight
<1>4. CASE \/ \E c \in Conns : HostAccept(c)
           \/ HostNotify \/ HostReceiveDurable \/ HostRejectDurable \/ HostReceiveHostAck
  BY <1>4, HostAcceptFlight, HostNotifyFlight, HostReceiveDurableFlight,
     HostRejectDurableFlight, HostReceiveHostAckFlight
<1>5. CASE \/ \E c \in Conns : HostRefuse(c) \/ HostClose(c)
           \/ HostRejectConnection \/ HostAckTimeout \/ HostPeerClosed \/ HostDrop
           \/ HostCrash \/ HostCrashAfterCommit \/ HostStart
  <2>1. CASE \/ \E c \in Conns : HostRefuse(c) \/ HostClose(c)
             \/ HostCrash \/ HostCrashAfterCommit \/ HostStart
    BY <2>1, HostQuietFlight DEF HostRefuse, HostClose, HostCrash, HostCrashAfterCommit,
       HostStart, runnerMem, net
  <2>2. CASE HostRejectConnection \/ HostAckTimeout \/ HostPeerClosed \/ HostDrop
    <3>1. HostReads /\ HostDestroyConnection
      BY <2>2 DEF HostRejectConnection, HostAckTimeout, HostPeerClosed, HostDrop, HostReceives
    <3>2. UNCHANGED <<runnerMem, toRunner>>
      BY <3>1 DEF HostDestroyConnection
    <3>3. QED
      BY <3>1, <3>2, HostQuietFlight
  <2>3. QED
    BY <1>5, <2>1, <2>2
<1>6. CASE RunnerStart \/ Work
  <2>1. UNCHANGED <<rSock, hostMem, backlog, toHost, toRunner>>
    BY <1>6 DEF RunnerStart, Work, RunnerJournal, HostJournal, runnerMem, net
  <2>2. QED
    BY <2>1, FlightKept DEF UnderWay, hostMem
<1>7. QED
  BY <1>1, <1>2, <1>3, <1>4, <1>5, <1>6 DEF Next, RunnerProtocol, HostProtocol, Fault

(* Whatever sockets were replaced, dropped or half closed before, a connection
   that both ends hold is never silent with something left to tell: the host's
   event in flight is under way on it, or the runner's timers end it
   (flushHostEvents, handleConnection, flushDurable). *)
THEOREM NobodyWaitsAlways == Spec => []NobodyWaits
<1>1. Init => ReadyInv /\ FlightInv
  BY DEF Init, ReadyInv, FlightInv, NoFlight, HostReads
<1>2. IInv /\ IInv' /\ ReadyInv /\ FlightInv /\ [Next]_vars => ReadyInv' /\ FlightInv'
  <2>1. ASSUME ReadyInv, FlightInv, UNCHANGED vars PROVE ReadyInv' /\ FlightInv'
    <3>1. ReadyInv'
      BY <2>1, ReadyInvKept DEF ToldReady, vars, runnerMem, hostMem, net
    <3>2. FlightInv'
      BY <2>1, FlightKept DEF UnderWay, vars, runnerMem, hostMem, net
    <3>3. QED
      BY <3>1, <3>2
  <2>2. QED
    BY <2>1, NextReady, NextFlight
<1>3. IInv /\ ReadyInv /\ FlightInv => NobodyWaits
  <2>1. SUFFICES ASSUME IInv, ReadyInv, FlightInv, HostWrites, rSock = hConn, Quiet(rSock),
                        hostReady, downJournal # {}
                 PROVE  FlushHostEvents(hInFlight, hReadySent, downJournal) # <<>>
    BY DEF NobodyWaits
  <2>2. HostReads /\ hConn # NoConn /\ hReadySent
    BY <2>1 DEF HostWrites, HostReads, ReadyInv, ToldReady
  <2>3. ~UnderWay
    BY <2>1, FewFrames DEF UnderWay, Quiet
  <2>4. hInFlight = NoFlight
    BY <2>1, <2>2, <2>3 DEF ReadyInv, FlightInv
  <2>5. QED
    BY <2>1, <2>4 DEF FlushHostEvents
<1>4. QED
  BY <1>1, <1>2, <1>3, IInvAlways, PTL DEF Spec
=============================================================================
