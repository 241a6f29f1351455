-------------------------- MODULE SessionLinkLemmas --------------------------
(***************************************************************************)
(* Proofs about SessionLink for every set of sockets and payloads, every   *)
(* retention of receipts and every number of events and faults.            *)
(***************************************************************************)
EXTENDS SessionLink, SequenceTheorems, TLAPS

------------------------------------------------------------------------------
(* Frames in a queue *)

LEMMA AppendFrames ==
  ASSUME NEW q \in Seq(Frames), NEW f \in Frames
  PROVE  /\ Append(q, f) \in Seq(Frames)
         /\ FramesIn(Append(q, f)) \subseteq FramesIn(q) \union {f}
  BY DEF FramesIn

LEMMA ConcatFrames ==
  ASSUME NEW q \in Seq(Frames), NEW r \in Seq(Frames)
  PROVE  /\ q \o r \in Seq(Frames)
         /\ FramesIn(q \o r) \subseteq FramesIn(q) \union FramesIn(r)
<1>1. /\ q \o r \in Seq(Frames)
      /\ Len(q \o r) = Len(q) + Len(r)
      /\ \A i \in 1..Len(q) + Len(r) :
           (q \o r)[i] = IF i <= Len(q) THEN q[i] ELSE r[i - Len(q)]
  BY ConcatProperties
<1>2. ASSUME NEW i \in 1..Len(q \o r)
      PROVE  (q \o r)[i] \in FramesIn(q) \union FramesIn(r)
  <2>1. Len(q) \in Nat /\ Len(r) \in Nat
    OBVIOUS
  <2>2. CASE i <= Len(q)
    BY <1>1, <2>1, <2>2 DEF FramesIn
  <2>3. CASE i > Len(q)
    <3>1. i - Len(q) \in 1..Len(r)
      BY <1>1, <2>1, <2>3
    <3>2. (q \o r)[i] = r[i - Len(q)]
      BY <1>1, <2>1, <2>3
    <3>3. QED
      BY <3>1, <3>2 DEF FramesIn
  <2>4. QED
    BY <1>1, <2>1, <2>2, <2>3
<1>3. QED
  BY <1>1, <1>2 DEF FramesIn

LEMMA TailFrames ==
  ASSUME NEW q \in Seq(Frames), q # <<>>
  PROVE  /\ Tail(q) \in Seq(Frames)
         /\ FramesIn(Tail(q)) \subseteq FramesIn(q)
         /\ Head(q) \in FramesIn(q)
         /\ Head(q) \in Frames
<1>1. /\ Head(q) \in Frames
      /\ Tail(q) \in Seq(Frames)
      /\ Len(Tail(q)) = Len(q) - 1
      /\ \A i \in 1..Len(Tail(q)) : Tail(q)[i] = q[i + 1]
  BY HeadTailProperties
<1>2. Len(q) \in Nat \ {0} /\ Head(q) = q[1]
  OBVIOUS
<1>3. FramesIn(Tail(q)) \subseteq FramesIn(q)
  BY <1>1, <1>2 DEF FramesIn
<1>4. QED
  BY <1>1, <1>2, <1>3 DEF FramesIn

LEMMA FewFrames ==
  /\ <<>> \in Seq(Frames)
  /\ FramesIn(<<>>) = {}
  /\ \A f \in Frames : <<f>> \in Seq(Frames) /\ FramesIn(<<f>>) = {f}
<1>1. <<>> \in Seq(Frames) /\ FramesIn(<<>>) = {}
  BY DEF FramesIn
<1>2. ASSUME NEW f \in Frames PROVE <<f>> \in Seq(Frames) /\ FramesIn(<<f>>) = {f}
  <2>1. Len(<<f>>) = 1 /\ <<f>>[1] = f /\ <<f>> \in Seq(Frames)
    OBVIOUS
  <2>2. QED
    BY <2>1 DEF FramesIn
<1>3. QED
  BY <1>1, <1>2

------------------------------------------------------------------------------
(* What one step adds to the sockets *)

HostQueuesGrowBy(S) ==
  /\ toHost' \in [Conns -> Seq(Frames)]
  /\ \A c \in Conns : FramesIn(toHost'[c]) \subseteq FramesIn(toHost[c]) \union S

RunnerQueuesGrowBy(S) ==
  /\ toRunner' \in [Conns -> Seq(Frames)]
  /\ \A c \in Conns : FramesIn(toRunner'[c]) \subseteq FramesIn(toRunner[c]) \union S

(* WireInv survives a step whose new frames are good afterwards, if frames
   that were good before stay good. *)
LEMMA WireStep ==
  ASSUME NEW S, NEW T, WireInv,
         HostQueuesGrowBy(S), RunnerQueuesGrowBy(T),
         \A f \in S : HostFrameOK(f)',
         \A f \in T : RunnerFrameOK(f)',
         \A c \in Conns : \A f \in FramesIn(toHost[c]) : HostFrameOK(f) => HostFrameOK(f)',
         \A c \in Conns : \A f \in FramesIn(toRunner[c]) : RunnerFrameOK(f) => RunnerFrameOK(f)'
  PROVE  WireInv'
<1>1. ASSUME NEW c \in Conns, NEW f \in FramesIn(toHost'[c]) PROVE HostFrameOK(f)'
  BY DEF WireInv, HostQueuesGrowBy
<1>2. ASSUME NEW c \in Conns, NEW f \in FramesIn(toRunner'[c]) PROVE RunnerFrameOK(f)'
  BY DEF WireInv, RunnerQueuesGrowBy
<1>3. QED
  BY <1>1, <1>2 DEF WireInv

(* Nothing is added to queues that stay, lose their head or are emptied. *)
LEMMA HostQueuesSame ==
  ASSUME TypeOK, UNCHANGED toHost
  PROVE  HostQueuesGrowBy({})
BY DEF TypeOK, HostQueuesGrowBy

LEMMA RunnerQueuesSame ==
  ASSUME TypeOK, UNCHANGED toRunner
  PROVE  RunnerQueuesGrowBy({})
BY DEF TypeOK, RunnerQueuesGrowBy

LEMMA RunnerResetQueues ==
  ASSUME TypeOK, RunnerReset
  PROVE  RunnerQueuesGrowBy({})
<1>1. \A c \in Conns : toRunner'[c] = <<>> \/ toRunner'[c] = toRunner[c]
  BY DEF RunnerReset
<1>2. toRunner' \in [Conns -> Seq(Frames)]
  BY FewFrames DEF RunnerReset, TypeOK
<1>3. QED
  BY <1>1, <1>2, FewFrames DEF RunnerQueuesGrowBy

LEMMA HostResetQueues ==
  ASSUME HostReset
  PROVE  HostQueuesGrowBy({})
BY FewFrames DEF HostReset, HostQueuesGrowBy

LEMMA RunnerConsumeQueues ==
  ASSUME TypeOK, NEW type, RunnerReads(type), RunnerConsume
  PROVE  /\ rSock \in Conns
         /\ RunnerQueuesGrowBy({})
         /\ Head(toRunner[rSock]) \in Frames
         /\ Head(toRunner[rSock]) \in FramesIn(toRunner[rSock])
         /\ Head(toRunner[rSock]).type = type
<1>1. /\ rSock \in Conns
      /\ toRunner[rSock] \in Seq(Frames)
      /\ toRunner[rSock] # <<>>
  BY DEF TypeOK, RunnerReads
<1>2. \A c \in Conns : toRunner'[c] = IF c = rSock THEN Tail(toRunner[rSock]) ELSE toRunner[c]
  BY <1>1 DEF RunnerConsume, TypeOK
<1>3. toRunner' \in [Conns -> Seq(Frames)]
  BY <1>1, TailFrames DEF RunnerConsume, TypeOK
<1>4. RunnerQueuesGrowBy({})
  BY <1>1, <1>2, <1>3, TailFrames DEF RunnerQueuesGrowBy
<1>5. QED
  BY <1>1, <1>4, TailFrames DEF RunnerReads

LEMMA RunnerReadsHead ==
  ASSUME TypeOK, NEW type, RunnerReads(type)
  PROVE  /\ rSock \in Conns
         /\ Head(toRunner[rSock]) \in Frames
         /\ Head(toRunner[rSock]) \in FramesIn(toRunner[rSock])
         /\ Head(toRunner[rSock]).type = type
<1>1. /\ rSock \in Conns
      /\ toRunner[rSock] \in Seq(Frames)
      /\ toRunner[rSock] # <<>>
  BY DEF TypeOK, RunnerReads
<1>2. QED
  BY <1>1, TailFrames DEF RunnerReads

LEMMA HostReceivesHead ==
  ASSUME TypeOK, NEW type, HostReceives(type)
  PROVE  /\ hConn \in Conns
         /\ Head(toHost[hConn]) \in Frames
         /\ Head(toHost[hConn]) \in FramesIn(toHost[hConn])
         /\ Head(toHost[hConn]).type = type
<1>1. /\ hConn \in Conns
      /\ toHost[hConn] \in Seq(Frames)
      /\ toHost[hConn] # <<>>
  BY DEF TypeOK, HostReceives, HostReads
<1>2. QED
  BY <1>1, TailFrames DEF HostReceives

LEMMA HostConsumeQueues ==
  ASSUME TypeOK, NEW type, HostReceives(type), HostConsume
  PROVE  HostQueuesGrowBy({})
<1>1. /\ hConn \in Conns
      /\ toHost[hConn] \in Seq(Frames)
      /\ toHost[hConn] # <<>>
  BY DEF TypeOK, HostReceives, HostReads
<1>2. \A c \in Conns : toHost'[c] = IF c = hConn THEN Tail(toHost[hConn]) ELSE toHost[c]
  BY <1>1 DEF HostConsume, TypeOK
<1>3. toHost' \in [Conns -> Seq(Frames)]
  BY <1>1, TailFrames DEF HostConsume, TypeOK
<1>4. QED
  BY <1>1, <1>2, <1>3, TailFrames DEF HostQueuesGrowBy

LEMMA HostEmptiesQueues ==
  ASSUME TypeOK, NEW c, toHost' = [toHost EXCEPT ![c] = <<>>]
  PROVE  HostQueuesGrowBy({})
<1>1. \A d \in Conns : toHost'[d] = <<>> \/ toHost'[d] = toHost[d]
  BY DEF TypeOK
<1>2. toHost' \in [Conns -> Seq(Frames)]
  BY FewFrames DEF TypeOK
<1>3. QED
  BY <1>1, <1>2, FewFrames DEF HostQueuesGrowBy

(* A write adds at most what is written. *)
LEMMA RunnerWriteQueues ==
  ASSUME TypeOK, NEW c \in Conns, NEW r \in Seq(Frames),
         toHost' = RunnerWrite(c, r)
  PROVE  HostQueuesGrowBy(FramesIn(r))
<1>1. CASE ~HostOpen(c)
  BY <1>1 DEF RunnerWrite, TypeOK, HostQueuesGrowBy
<1>2. CASE HostOpen(c)
  <2>1. toHost' = [toHost EXCEPT ![c] = @ \o r]
    BY <1>2 DEF RunnerWrite
  <2>2. toHost[c] \in Seq(Frames)
    BY DEF TypeOK
  <2>3. /\ toHost[c] \o r \in Seq(Frames)
        /\ FramesIn(toHost[c] \o r) \subseteq FramesIn(toHost[c]) \union FramesIn(r)
    BY <2>2, ConcatFrames
  <2>4. \A d \in Conns : toHost'[d] = IF d = c THEN toHost[c] \o r ELSE toHost[d]
    BY <2>1 DEF TypeOK
  <2>5. toHost' \in [Conns -> Seq(Frames)]
    BY <2>1, <2>3 DEF TypeOK
  <2>6. QED
    BY <2>3, <2>4, <2>5 DEF HostQueuesGrowBy
<1>3. QED
  BY <1>1, <1>2

------------------------------------------------------------------------------
(* What the two flushes write *)

LEMMA HeadOfInterval ==
  ASSUME NEW a \in Nat, NEW n \in Nat, a..n # {}
  PROVE  HeadOf(a..n) = a
<1>1. a \in a..n /\ \A t \in a..n : a <= t
  OBVIOUS
<1>2. \A s \in a..n : (\A t \in a..n : s <= t) => s = a
  BY <1>1
<1>3. QED
  BY <1>1, <1>2 DEF HeadOf

LEMMA FrameType ==
  ASSUME NEW type \in FrameTypes, NEW seq \in Nat, NEW payload \in Payloads \union {NoPayload}
  PROVE  /\ Frame(type, seq, payload) \in Frames
         /\ Frame(type, seq, payload).type = type
         /\ Frame(type, seq, payload).seq = seq
         /\ Frame(type, seq, payload).payload = payload
BY DEF Frame, Frames

(* The runner's flush writes nothing, or the first event of its journal. *)
LEMMA FlushDurableFrames ==
  ASSUME NEW outstanding, NEW first \in Nat \ {0}, upLog \in Seq(Payloads)
  PROVE  /\ FlushDurable(outstanding, first..Len(upLog)) \in Seq(Frames)
         /\ \A f \in FramesIn(FlushDurable(outstanding, first..Len(upLog))) :
              /\ f.type = "durable"
              /\ f.seq \in 1..Len(upLog) /\ f.payload = upLog[f.seq]
              /\ \A s \in first..Len(upLog) : f.seq <= s
<1> DEFINE journal == first..Len(upLog)
<1>1. CASE outstanding = {} /\ journal # {}
  <2>1. HeadOf(journal) = first
    BY <1>1, HeadOfInterval
  <2>2. first \in 1..Len(upLog) /\ upLog[first] \in Payloads
    BY <1>1
  <2> DEFINE g == Frame("durable", first, upLog[first])
  <2>3. /\ g \in Frames /\ g.type = "durable" /\ g.seq = first /\ g.payload = upLog[first]
    BY <2>2, FrameType DEF FrameTypes
  <2>4. FlushDurable(outstanding, journal) = <<g>>
    BY <1>1, <2>1 DEF FlushDurable
  <2> HIDE DEF g
  <2>5. /\ FlushDurable(outstanding, journal) \in Seq(Frames)
        /\ FramesIn(FlushDurable(outstanding, journal)) = {g}
    BY <2>3, <2>4, FewFrames
  <2>6. \A s \in journal : first <= s
    OBVIOUS
  <2>7. QED
    BY <2>2, <2>3, <2>5, <2>6
<1>2. CASE ~(outstanding = {} /\ journal # {})
  BY <1>2, FewFrames DEF FlushDurable
<1>3. QED
  BY <1>1, <1>2

LEMMA SentAfterFlushType ==
  ASSUME NEW outstanding \in SUBSET Nat, NEW first \in Nat \ {0}, upLog \in Seq(Payloads)
  PROVE  SentAfterFlush(outstanding, first..Len(upLog)) \in SUBSET Nat
BY HeadOfInterval DEF SentAfterFlush

(* The host's flush writes nothing, the first event of its journal, or
   host.ready when there is none. *)
LEMMA FlushHostEventsFrames ==
  ASSUME NEW flight, NEW readySent, NEW first \in Nat \ {0}, downLog \in Seq(Payloads)
  PROVE  /\ FlushHostEvents(flight, readySent, first..Len(downLog)) \in Seq(Frames)
         /\ \A f \in FramesIn(FlushHostEvents(flight, readySent, first..Len(downLog))) :
              \/ /\ f.type = "host.event"
                 /\ f.seq \in 1..Len(downLog) /\ f.payload = downLog[f.seq]
                 /\ \A s \in first..Len(downLog) : f.seq <= s
              \/ /\ f.type = "host.ready"
                 /\ f.seq = Len(downLog)
                 /\ first..Len(downLog) = {}
<1> DEFINE journal == first..Len(downLog)
<1>1. CASE flight = NoFlight /\ journal # {}
  <2>1. HeadOf(journal) = first
    BY <1>1, HeadOfInterval
  <2>2. first \in 1..Len(downLog) /\ downLog[first] \in Payloads
    BY <1>1
  <2> DEFINE g == Frame("host.event", first, downLog[first])
  <2>3. g \in Frames /\ g.type = "host.event" /\ g.seq = first /\ g.payload = downLog[first]
    BY <2>2, FrameType DEF FrameTypes
  <2>4. FlushHostEvents(flight, readySent, journal) = <<g>>
    BY <1>1, <2>1 DEF FlushHostEvents
  <2> HIDE DEF g
  <2>5. /\ FlushHostEvents(flight, readySent, journal) \in Seq(Frames)
        /\ FramesIn(FlushHostEvents(flight, readySent, journal)) = {g}
    BY <2>3, <2>4, FewFrames
  <2>6. \A s \in journal : first <= s
    OBVIOUS
  <2>7. QED
    BY <2>2, <2>3, <2>5, <2>6
<1>2. CASE flight = NoFlight /\ journal = {} /\ ~readySent
  <2> DEFINE g == Frame("host.ready", Len(downLog), NoPayload)
  <2>1. g \in Frames /\ g.type = "host.ready" /\ g.seq = Len(downLog)
    BY FrameType DEF FrameTypes
  <2>2. FlushHostEvents(flight, readySent, journal) = <<g>>
    BY <1>2 DEF FlushHostEvents
  <2> HIDE DEF g
  <2>3. /\ FlushHostEvents(flight, readySent, journal) \in Seq(Frames)
        /\ FramesIn(FlushHostEvents(flight, readySent, journal)) = {g}
    BY <2>1, <2>2, FewFrames
  <2>4. QED
    BY <1>2, <2>1, <2>3
<1>3. CASE flight # NoFlight \/ (journal = {} /\ readySent)
  BY <1>3, FewFrames DEF FlushHostEvents
<1>4. QED
  BY <1>1, <1>2, <1>3

Flights == [seq : Nat, conn : Conns \union {NoConn}]

(* What a journal is: everything from some event on, or nothing. *)
Tailing(journal, n) == \E first \in Nat \ {0} : journal = first..n

(* A reply and a flush written by the host. *)
LEMMA HostWriteEffect ==
  ASSUME TypeOK, NEW c \in Conns, NEW reply \in Seq(Frames),
         NEW flight \in Flights, NEW readySent, NEW journal,
         Tailing(journal, Len(downLog)),
         HostWrite(c, reply, flight, readySent, journal)
  PROVE  /\ hInFlight' \in Flights
         /\ hReadySent' \in BOOLEAN
         /\ RunnerQueuesGrowBy(FramesIn(reply) \union
              FramesIn(FlushHostEvents(flight, readySent, journal)))
<1> PICK first \in Nat \ {0} : journal = first..Len(downLog)
  BY DEF Tailing
<1> DEFINE flush == FlushHostEvents(flight, readySent, journal)
<1>0. downLog \in Seq(Payloads)
  BY DEF TypeOK
<1>1. hInFlight' \in Flights
  <2>1. CASE flight = NoFlight /\ journal # {}
    BY <2>1, <1>0, HeadOfInterval DEF HostWrite, FlightAfterFlush, Flights
  <2>2. CASE ~(flight = NoFlight /\ journal # {})
    BY <2>2 DEF HostWrite, FlightAfterFlush
  <2>3. QED
    BY <2>1, <2>2
<1>2. hReadySent' \in BOOLEAN
  BY DEF HostWrite, ReadyAfterFlush
<1>3. flush \in Seq(Frames)
  BY <1>0, FlushHostEventsFrames
<1>4. toRunner[c] \in Seq(Frames)
  BY DEF TypeOK
<1> DEFINE written == toRunner[c] \o reply \o flush
<1>5. /\ written \in Seq(Frames)
      /\ FramesIn(written) \subseteq FramesIn(toRunner[c]) \union FramesIn(reply) \union FramesIn(flush)
  <2>1. /\ toRunner[c] \o reply \in Seq(Frames)
        /\ FramesIn(toRunner[c] \o reply) \subseteq FramesIn(toRunner[c]) \union FramesIn(reply)
    BY <1>4, ConcatFrames
  <2>2. /\ (toRunner[c] \o reply) \o flush \in Seq(Frames)
        /\ FramesIn((toRunner[c] \o reply) \o flush) \subseteq
             FramesIn(toRunner[c] \o reply) \union FramesIn(flush)
    BY <1>3, <2>1, ConcatFrames
  <2>3. QED
    BY <2>1, <2>2
<1>6. CASE rSock = c
  <2>1. toRunner' = [toRunner EXCEPT ![c] = written]
    BY <1>6 DEF HostWrite
  <2> HIDE DEF written
  <2>2. \A d \in Conns : toRunner'[d] = IF d = c THEN written ELSE toRunner[d]
    BY <2>1 DEF TypeOK
  <2>3. toRunner' \in [Conns -> Seq(Frames)]
    BY <2>1, <1>5 DEF TypeOK
  <2>4. QED
    BY <1>1, <1>2, <1>5, <2>2, <2>3 DEF RunnerQueuesGrowBy
<1>7. CASE rSock # c
  BY <1>1, <1>2, <1>7 DEF HostWrite, RunnerQueuesGrowBy, TypeOK
<1>8. QED
  BY <1>6, <1>7

(* The largest receipt is the number of commits: pruning keeps it. *)
LEMMA LastSequenceIsCommitCount ==
  ASSUME TypeOK, UpInv
  PROVE  LastSequence = Len(upApplied)
<1>1. Len(upApplied) \in Nat
  BY DEF TypeOK
<1>2. CASE upApplied = <<>>
  <2>1. receipts = {}
    BY <1>2 DEF UpInv
  <2>2. QED
    BY <1>2, <2>1 DEF LastSequence
<1>3. CASE upApplied # <<>>
  <2>1. PICK r \in receipts : r.seq = Len(upApplied)
    BY <1>3 DEF UpInv
  <2>2. \A q \in receipts : q.seq \in Nat /\ q.seq <= Len(upApplied)
    BY <1>1 DEF UpInv
  <2> DEFINE Greatest(n) == n \in {q.seq : q \in receipts} /\ \A q \in receipts : q.seq <= n
  <2>3. Greatest(Len(upApplied))
    BY <2>1, <2>2
  <2>4. \A n : Greatest(n) => n = Len(upApplied)
    BY <1>1, <2>1, <2>2
  <2>5. receipts # {}
    BY <2>1
  <2>6. LastSequence = CHOOSE n : Greatest(n)
    BY <2>5 DEF LastSequence
  <2>7. QED
    BY <2>3, <2>4, <2>6
<1>4. QED
  BY <1>2, <1>3

------------------------------------------------------------------------------
(* What each kind of database transaction does to the invariant *)

DiskInv == UpInv /\ DownInv

FramesStayOK ==
  \A f \in Frames : /\ HostFrameOK(f) => HostFrameOK(f)'
                    /\ RunnerFrameOK(f) => RunnerFrameOK(f)'

LEMMA DisksUntouched ==
  ASSUME TypeOK, DiskInv, UNCHANGED <<runnerDisk, hostDisk>>
  PROVE  DiskInv' /\ FramesStayOK
<1>1. /\ upLog' = upLog /\ upJournal' = upJournal /\ rLast' = rLast
      /\ downApplied' = downApplied /\ downLog' = downLog
      /\ downJournal' = downJournal /\ receipts' = receipts /\ upApplied' = upApplied
  BY DEF runnerDisk, hostDisk
<1>2. UpInv'
  BY <1>1 DEF DiskInv, UpInv, IsPrefixOf, Contiguous
<1>3. DownInv'
  BY <1>1 DEF DiskInv, DownInv, IsPrefixOf, Contiguous
<1>4. FramesStayOK
  BY <1>1 DEF FramesStayOK, HostFrameOK, RunnerFrameOK
<1>5. QED
  BY <1>2, <1>3, <1>4 DEF DiskInv

LEMMA RunnerAppends ==
  ASSUME TypeOK, DiskInv, NEW p \in Payloads,
         upLog' = Append(upLog, p),
         upJournal' = upJournal \union {Len(upLog) + 1},
         UNCHANGED <<rLast, downApplied, hostDisk>>
  PROVE  DiskInv' /\ FramesStayOK /\ upLog' \in Seq(Payloads) /\ upJournal' \in SUBSET Nat
<1>1. /\ upLog' \in Seq(Payloads)
      /\ Len(upLog') = Len(upLog) + 1
      /\ \A i \in 1..Len(upLog) : upLog'[i] = upLog[i]
      /\ Len(upLog) \in Nat /\ Len(upApplied) \in Nat
  BY AppendProperties DEF TypeOK
<1>2. /\ downLog' = downLog /\ downJournal' = downJournal
      /\ receipts' = receipts /\ upApplied' = upApplied
      /\ rLast' = rLast /\ downApplied' = downApplied
  BY DEF hostDisk
<1>3. Len(upApplied) <= Len(upLog)
  BY DEF DiskInv, UpInv, IsPrefixOf
<1>4. UpInv'
  <2>1. PICK first \in 1..(Len(upApplied) + 1) : upJournal = first..Len(upLog)
    BY DEF DiskInv, UpInv, Contiguous
  <2>2. upJournal' = first..Len(upLog')
    BY <1>1, <1>3, <2>1
  <2>3. Contiguous(upJournal, Len(upLog), Len(upApplied))'
    BY <1>2, <2>1, <2>2 DEF Contiguous
  <2>4. IsPrefixOf(upApplied, upLog)'
    BY <1>1, <1>2, <1>3 DEF DiskInv, UpInv, IsPrefixOf
  <2>5. \A r \in receipts' : r.seq \in 1..Len(upApplied') /\ r.payload = upLog'[r.seq]
    BY <1>1, <1>2, <1>3 DEF DiskInv, UpInv
  <2>6. QED
    BY <1>2, <2>3, <2>4, <2>5 DEF DiskInv, UpInv
<1>5. DownInv'
  BY <1>2 DEF DiskInv, DownInv, IsPrefixOf, Contiguous
<1>6. ASSUME NEW f \in Frames, HostFrameOK(f) PROVE HostFrameOK(f)'
  BY <1>1, <1>2, <1>6 DEF HostFrameOK, Frames
<1>7. ASSUME NEW f \in Frames, RunnerFrameOK(f) PROVE RunnerFrameOK(f)'
  BY <1>1, <1>2, <1>3, <1>7 DEF RunnerFrameOK, Frames
<1>8. upJournal' \in SUBSET Nat
  <2>1. Len(upLog) + 1 \in Nat /\ upJournal \subseteq Nat
    BY <1>1 DEF TypeOK
  <2>2. QED
    BY <2>1
<1>9. QED
  BY <1>1, <1>4, <1>5, <1>6, <1>7, <1>8 DEF DiskInv, FramesStayOK

LEMMA RunnerForgets ==
  ASSUME TypeOK, DiskInv, NEW seq \in Nat, seq <= Len(upApplied),
         \A s \in upJournal : seq <= s,
         upJournal' = upJournal \ {seq},
         UNCHANGED <<upLog, rLast, downApplied, hostDisk>>
  PROVE  DiskInv' /\ FramesStayOK
<1>1. /\ downLog' = downLog /\ downJournal' = downJournal
      /\ receipts' = receipts /\ upApplied' = upApplied
      /\ rLast' = rLast /\ downApplied' = downApplied /\ upLog' = upLog
  BY DEF hostDisk
<1>2. PICK first \in 1..(Len(upApplied) + 1) : upJournal = first..Len(upLog)
  BY DEF DiskInv, UpInv, Contiguous
<1>3. Len(upLog) \in Nat /\ Len(upApplied) \in Nat
  BY DEF TypeOK
<1>4. Contiguous(upJournal', Len(upLog), Len(upApplied))
  <2>1. CASE seq \in upJournal
    <3>1. seq = first
      BY <1>2, <1>3, <2>1
    <3>2. upJournal' = (first + 1)..Len(upLog)
      BY <1>2, <1>3, <3>1
    <3>3. first + 1 \in 1..(Len(upApplied) + 1)
      BY <1>3, <3>1
    <3>4. QED
      BY <3>2, <3>3 DEF Contiguous
  <2>2. CASE seq \notin upJournal
    BY <1>2, <2>2 DEF Contiguous
  <2>3. QED
    BY <2>1, <2>2
<1>5. UpInv'
  BY <1>1, <1>4 DEF DiskInv, UpInv, IsPrefixOf, Contiguous
<1>6. DownInv'
  BY <1>1 DEF DiskInv, DownInv, IsPrefixOf, Contiguous
<1>7. FramesStayOK
  BY <1>1 DEF FramesStayOK, HostFrameOK, RunnerFrameOK
<1>8. QED
  BY <1>5, <1>6, <1>7 DEF DiskInv

(* The host commits the next runner event: one more commit, its receipt kept,
   older receipts pruned. *)
LEMMA HostCommits ==
  ASSUME TypeOK, DiskInv, NEW f \in Frames, f.type = "durable", HostFrameOK(f),
         Fresh(f), CommitDurable(f),
         UNCHANGED <<runnerDisk, downLog, downJournal>>
  PROVE  /\ DiskInv' /\ FramesStayOK
         /\ upApplied' = Append(upApplied, upLog[Len(upApplied) + 1])
         /\ Len(upApplied) < Len(upLog)
         /\ upApplied' \in Seq(Payloads)
         /\ receipts' \in SUBSET [seq : Nat, payload : Payloads]
         /\ f.seq <= Len(upApplied')
<1>1. /\ upLog' = upLog /\ upJournal' = upJournal /\ rLast' = rLast
      /\ downApplied' = downApplied /\ downLog' = downLog /\ downJournal' = downJournal
  BY DEF runnerDisk
<1>2. /\ f.seq = Len(upApplied) + 1
      /\ f.seq \in 1..Len(upLog) /\ f.payload = upLog[f.seq] /\ f.payload \in Payloads
  BY LastSequenceIsCommitCount DEF Fresh, DiskInv, HostFrameOK, TypeOK
<1>3. /\ upApplied' = Append(upApplied, f.payload)
      /\ receipts' = {r \in receipts \union {[seq |-> f.seq, payload |-> f.payload]} :
                        f.seq < r.seq + Retention}
  BY DEF CommitDurable
<1>4. /\ upApplied' \in Seq(Payloads)
      /\ Len(upApplied') = Len(upApplied) + 1
      /\ \A i \in 1..Len(upApplied) : upApplied'[i] = upApplied[i]
      /\ upApplied'[Len(upApplied) + 1] = f.payload
      /\ Len(upApplied) \in Nat
  BY <1>2, <1>3, AppendProperties DEF TypeOK
<1>5. IsPrefixOf(upApplied, upLog)'
  BY <1>1, <1>2, <1>4 DEF DiskInv, UpInv, IsPrefixOf
<1>6. Contiguous(upJournal, Len(upLog), Len(upApplied))'
  BY <1>1, <1>4 DEF DiskInv, UpInv, Contiguous
<1>7. \A r \in receipts' : r.seq \in 1..Len(upApplied') /\ r.payload = upLog'[r.seq]
  BY <1>1, <1>2, <1>3, <1>4 DEF DiskInv, UpInv
<1>8. \E r \in receipts' : r.seq = Len(upApplied')
  <2>1. f.seq < f.seq + Retention
    BY <1>2, RetentionAssumption
  <2>2. [seq |-> f.seq, payload |-> f.payload] \in receipts'
    BY <1>3, <2>1
  <2>3. QED
    BY <1>2, <1>4, <2>2
<1>9. receipts' \in SUBSET [seq : Nat, payload : Payloads]
  BY <1>2, <1>3 DEF TypeOK
<1>10. UpInv'
  BY <1>5, <1>6, <1>7, <1>8 DEF UpInv
<1>11. DownInv'
  BY <1>1 DEF DiskInv, DownInv, IsPrefixOf, Contiguous
<1>12. FramesStayOK
  BY <1>1, <1>4 DEF FramesStayOK, HostFrameOK, RunnerFrameOK, Frames
<1>13. QED
  BY <1>2, <1>3, <1>4, <1>9, <1>10, <1>11, <1>12 DEF DiskInv

LEMMA HostAppends ==
  ASSUME TypeOK, DiskInv, NEW p \in Payloads,
         downLog' = Append(downLog, p),
         downJournal' = downJournal \union {Len(downLog) + 1},
         UNCHANGED <<receipts, upApplied, runnerDisk>>
  PROVE  DiskInv' /\ FramesStayOK /\ downLog' \in Seq(Payloads) /\ downJournal' \in SUBSET Nat
<1>1. /\ downLog' \in Seq(Payloads)
      /\ Len(downLog') = Len(downLog) + 1
      /\ \A i \in 1..Len(downLog) : downLog'[i] = downLog[i]
      /\ Len(downLog) \in Nat /\ Len(downApplied) \in Nat
  BY AppendProperties DEF TypeOK
<1>2. /\ upLog' = upLog /\ upJournal' = upJournal
      /\ receipts' = receipts /\ upApplied' = upApplied
      /\ rLast' = rLast /\ downApplied' = downApplied
  BY DEF runnerDisk
<1>3. Len(downApplied) <= Len(downLog)
  BY DEF DiskInv, DownInv, IsPrefixOf
<1>4. DownInv'
  <2>1. PICK first \in 1..(Len(downApplied) + 1) : downJournal = first..Len(downLog)
    BY DEF DiskInv, DownInv, Contiguous
  <2>2. downJournal' = first..Len(downLog')
    BY <1>1, <1>3, <2>1
  <2>3. Contiguous(downJournal, Len(downLog), Len(downApplied))'
    BY <1>2, <2>1, <2>2 DEF Contiguous
  <2>4. IsPrefixOf(downApplied, downLog)'
    BY <1>1, <1>2, <1>3 DEF DiskInv, DownInv, IsPrefixOf
  <2>5. QED
    BY <1>2, <2>3, <2>4 DEF DiskInv, DownInv
<1>5. UpInv'
  BY <1>2 DEF DiskInv, UpInv, IsPrefixOf, Contiguous
<1>6. ASSUME NEW f \in Frames, HostFrameOK(f) PROVE HostFrameOK(f)'
  BY <1>1, <1>2, <1>3, <1>6 DEF HostFrameOK, Frames
<1>7. ASSUME NEW f \in Frames, RunnerFrameOK(f) PROVE RunnerFrameOK(f)'
  BY <1>1, <1>2, <1>7 DEF RunnerFrameOK, Frames
<1>8. downJournal' \in SUBSET Nat
  <2>1. Len(downLog) + 1 \in Nat /\ downJournal \subseteq Nat
    BY <1>1 DEF TypeOK
  <2>2. QED
    BY <2>1
<1>9. QED
  BY <1>1, <1>4, <1>5, <1>6, <1>7, <1>8 DEF DiskInv, FramesStayOK

LEMMA HostForgets ==
  ASSUME TypeOK, DiskInv, NEW seq \in Nat, seq <= Len(downApplied),
         \A s \in downJournal : seq <= s,
         downJournal' = downJournal \ {seq},
         UNCHANGED <<downLog, receipts, upApplied, runnerDisk>>
  PROVE  DiskInv' /\ FramesStayOK
<1>1. /\ upLog' = upLog /\ upJournal' = upJournal
      /\ receipts' = receipts /\ upApplied' = upApplied
      /\ rLast' = rLast /\ downApplied' = downApplied /\ downLog' = downLog
  BY DEF runnerDisk
<1>2. PICK first \in 1..(Len(downApplied) + 1) : downJournal = first..Len(downLog)
  BY DEF DiskInv, DownInv, Contiguous
<1>3. Len(downLog) \in Nat /\ Len(downApplied) \in Nat
  BY DEF TypeOK
<1>4. Contiguous(downJournal', Len(downLog), Len(downApplied))
  <2>1. CASE seq \in downJournal
    <3>1. seq = first
      BY <1>2, <1>3, <2>1
    <3>2. downJournal' = (first + 1)..Len(downLog)
      BY <1>2, <1>3, <3>1
    <3>3. first + 1 \in 1..(Len(downApplied) + 1)
      BY <1>3, <3>1
    <3>4. QED
      BY <3>2, <3>3 DEF Contiguous
  <2>2. CASE seq \notin downJournal
    BY <1>2, <2>2 DEF Contiguous
  <2>3. QED
    BY <2>1, <2>2
<1>5. DownInv'
  BY <1>1, <1>4 DEF DiskInv, DownInv, IsPrefixOf, Contiguous
<1>6. UpInv'
  BY <1>1 DEF DiskInv, UpInv, IsPrefixOf, Contiguous
<1>7. FramesStayOK
  BY <1>1 DEF FramesStayOK, HostFrameOK, RunnerFrameOK
<1>8. QED
  BY <1>5, <1>6, <1>7 DEF DiskInv

(* The runner commits the next host event. *)
LEMMA RunnerCommits ==
  ASSUME TypeOK, DiskInv, NEW f \in Frames, f.type = "host.event", RunnerFrameOK(f),
         HostEventNext(f), CommitHostEvent(f),
         UNCHANGED <<upLog, upJournal, hostDisk>>
  PROVE  /\ DiskInv' /\ FramesStayOK
         /\ downApplied' = Append(downApplied, downLog[Len(downApplied) + 1])
         /\ Len(downApplied) < Len(downLog)
         /\ downApplied' \in Seq(Payloads)
         /\ rLast' \in Nat
         /\ f.seq <= Len(downApplied')
<1>1. /\ upLog' = upLog /\ upJournal' = upJournal /\ receipts' = receipts
      /\ upApplied' = upApplied /\ downLog' = downLog /\ downJournal' = downJournal
  BY DEF hostDisk
<1>2. /\ f.seq = Len(downApplied) + 1 /\ Len(downApplied) \in Nat
      /\ f.seq \in 1..Len(downLog) /\ f.payload = downLog[f.seq] /\ f.payload \in Payloads
  BY DEF HostEventNext, DiskInv, DownInv, RunnerFrameOK, TypeOK
<1>3. downApplied' = Append(downApplied, f.payload) /\ rLast' = f.seq
  BY DEF CommitHostEvent
<1>4. /\ downApplied' \in Seq(Payloads)
      /\ Len(downApplied') = Len(downApplied) + 1
      /\ \A i \in 1..Len(downApplied) : downApplied'[i] = downApplied[i]
      /\ downApplied'[Len(downApplied) + 1] = f.payload
  BY <1>2, <1>3, AppendProperties DEF TypeOK
<1>5. IsPrefixOf(downApplied, downLog)'
  BY <1>1, <1>2, <1>4 DEF DiskInv, DownInv, IsPrefixOf
<1>6. Contiguous(downJournal, Len(downLog), Len(downApplied))'
  BY <1>1, <1>2, <1>4 DEF DiskInv, DownInv, Contiguous
<1>7. DownInv'
  BY <1>2, <1>3, <1>4, <1>5, <1>6 DEF DownInv
<1>8. UpInv'
  BY <1>1 DEF DiskInv, UpInv, IsPrefixOf, Contiguous
<1>9. FramesStayOK
  BY <1>1, <1>2, <1>4 DEF FramesStayOK, HostFrameOK, RunnerFrameOK, Frames
<1>10. QED
  BY <1>2, <1>3, <1>4, <1>7, <1>8, <1>9 DEF DiskInv
=============================================================================
