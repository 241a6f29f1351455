--------------------------- MODULE DeliveryProofs ---------------------------
(***************************************************************************)
(* Delivery sends a message again only when a receipt was lost, writes     *)
(* only receipts that are true and misses no commit during a drain, for    *)
(* any number of messages, callers, attempts, failures and faults.         *)
(*                                                                         *)
(* A drain works from what it read before its awaits.  The argument is     *)
(* that there is one drain at a time, so that what it has queued still has *)
(* no receipt when its turn comes (DrainInv), that an acceptance is either *)
(* receipted, lost or the one just being awaited (SendInv), and that a     *)
(* message not yet taken up is queued or announced by dirty (HintInv).     *)
(***************************************************************************)
EXTENDS Delivery, FiniteSetTheorems, WellFoundedInduction, TLAPS

\* One drain at a time, and nobody else gives a receipt to what it has queued.
DrainInv ==
  /\ ~inflight => \A d \in Drains : ~active(d)
  /\ \A d, e \in Drains : active(d) /\ active(e) => d = e
  /\ \A d \in Drains : active(d) => drain[d].queue \subseteq {m \in rows : receipt[m] = "none"}
  /\ \A d \in Drains : accepted(d) => drain[d].queue # {}
  /\ ~hostUp => ~inflight /\ hinted = {}
  /\ inflight => ready

\* Where each acceptance and each failure has gone.
SendInv ==
  \A m \in Msgs :
    /\ sends[m] <= 1 + lost[m]
    /\ receipt[m] = "none" /\ ~Pending(m) => sends[m] <= lost[m]
    /\ Pending(m) => sends[m] > 0 /\ m \in tried
    /\ attempts[m] <= failures[m]

\* A message that is still to come has no receipt.
RowsInv ==
  /\ \E k \in 0 .. N : rows = 1 .. k
  /\ \A m \in Msgs : receipt[m] # "none" => m \in rows

\* What was announced and not taken up is queued, or will be read again.
HintInv ==
  \A m \in hinted \ tried :
    /\ m \in due /\ receipt[m] = "none" /\ inflight
    /\ dirty \/ \E d \in Drains : active(d) /\ m \in drain[d].queue

\* The inductive invariant.
IInv == TypeOK /\ DrainInv /\ SendInv /\ RowsInv /\ HintInv /\ ReceiptIsEarned

Drain == [stage: {"none", "sending", "accepted"}, queue: SUBSET Msgs]

-----------------------------------------------------------------------------
(* The head of a queue, and the number of messages. *)

LEMMA MinExists ==
  ASSUME NEW T \in SUBSET Nat, T # {}
  PROVE  \E x \in T : \A y \in T : x <= y
<1> DEFINE R == OpToRel(<, Nat)
<1>1. \A x, y \in Nat : <<x, y>> \in R <=> x < y
  BY DEF OpToRel
<1>2. IsWellFoundedOn(R, Nat)
  BY NatLessThanWellFounded
<1> HIDE DEF R
<1>3. PICK x \in T : \A y \in T : ~(<<y, x>> \in R)
  BY <1>2, WFMin
<1>4. ASSUME NEW y \in T PROVE x <= y
  <2>1. ~(<<y, x>> \in R)
    BY <1>3
  <2>2. x \in Nat /\ y \in Nat
    OBVIOUS
  <2>3. ~(y < x)
    BY <1>1, <2>1, <2>2
  <2> QED
    BY <2>2, <2>3
<1> QED
  BY <1>4

LEMMA HeadIsQueued ==
  ASSUME TypeOK, NEW d \in Drains, drain[d].queue # {}
  PROVE  head(d) \in drain[d].queue /\ head(d) \in Msgs
<1>1. drain[d].queue \in SUBSET Msgs
  BY DEF TypeOK
<1>2. drain[d].queue \in SUBSET Nat
  BY <1>1, CountsAssumption DEF Msgs
<1>3. \E m \in drain[d].queue : \A n \in drain[d].queue : m <= n
  BY <1>2, MinExists
<1> QED
  BY <1>1, <1>3 DEF head

\* The next message is not yet in the table, and the table stays an initial segment.
LEMMA NextRow ==
  ASSUME RowsInv, Cardinality(rows) + 1 \in Msgs
  PROVE  /\ Cardinality(rows) + 1 \notin rows
         /\ \E k \in 0 .. N : rows \cup {Cardinality(rows) + 1} = 1 .. k
<1>1. PICK k \in 0 .. N : rows = 1 .. k
  BY DEF RowsInv
<1>2. Cardinality(rows) = k
  BY <1>1, FS_Interval, CountsAssumption
<1>3. k + 1 \in 1 .. N /\ 1 .. k + 1 = (1 .. k) \cup {k + 1}
  BY <1>2, CountsAssumption DEF Msgs
<1> QED
  BY <1>1, <1>2, <1>3

-----------------------------------------------------------------------------
(* What the steps do to the drains. *)

\* A drain goes on to its next message.
LEMMA NextStep ==
  ASSUME TypeOK, DrainInv, NEW d \in Drains, active(d), drain[d].queue # {},
         drain' = [drain EXCEPT ![d] = next(d)]
  PROVE  /\ drain' \in [Drains -> Drain]
         /\ \A m : ~Pending(m)'
         /\ \A m : Pending(m) => m = head(d)
         /\ \A e \in Drains : (active(e)' <=> e = d) /\ ~accepted(e)'
         /\ drain'[d].queue = drain[d].queue \ {head(d)}
         /\ head(d) \in drain[d].queue /\ head(d) \in Msgs
<1>1. head(d) \in drain[d].queue /\ head(d) \in Msgs
  BY HeadIsQueued
<1>2. drain \in [Drains -> Drain]
  BY DEF TypeOK, Drain
<1>3. next(d) \in Drain /\ next(d).stage = "sending" /\ next(d).queue = drain[d].queue \ {head(d)}
  BY <1>2 DEF next, Drain
<1>4. \A e \in Drains : e # d => ~active(e)
  BY DEF DrainInv
<1>5. \A e \in Drains : drain'[e] = IF e = d THEN next(d) ELSE drain[e]
  BY <1>2
<1>6. \A e \in Drains : (active(e)' <=> e = d) /\ ~accepted(e)'
  BY <1>3, <1>4, <1>5 DEF active, accepted
<1>7. \A m : ~Pending(m)'
  BY <1>6 DEF Pending
<1>8. \A m : Pending(m) => m = head(d)
  BY <1>4 DEF Pending, accepted, active
<1>9. drain' \in [Drains -> Drain]
  BY <1>2, <1>3
<1> QED
  BY <1>1, <1>3, <1>5, <1>6, <1>7, <1>8, <1>9

\* A drain leaves, or the host with all of them.
LEMMA NoDrainStep ==
  ASSUME NEW d \in Drains, TypeOK, DrainInv, active(d),
         drain' = [drain EXCEPT ![d] = NoDrain]
  PROVE  /\ drain' \in [Drains -> Drain]
         /\ \A m : ~Pending(m)'
         /\ \A e \in Drains : ~active(e)'
<1>1. drain \in [Drains -> Drain] /\ NoDrain \in Drain /\ NoDrain.stage = "none"
  BY DEF TypeOK, Drain, NoDrain
<1>2. \A e \in Drains : e # d => ~active(e)
  BY DEF DrainInv
<1>3. \A e \in Drains : drain'[e] = IF e = d THEN NoDrain ELSE drain[e]
  BY <1>1
<1>4. \A e \in Drains : ~active(e)' /\ ~accepted(e)'
  BY <1>1, <1>2, <1>3 DEF active, accepted
<1>5. drain' \in [Drains -> Drain]
  BY <1>1
<1> QED
  BY <1>4, <1>5 DEF Pending

\* A call of deliverSessionMessages starts a drain, marks one dirty or finds
\* no adapter; it takes nothing from what is queued.
LEMMA DeliverStep ==
  ASSUME TypeOK, DrainInv, NEW D \in SUBSET Msgs, deliverSessionMessages(D),
         D \subseteq rows', rows \subseteq rows', hostUp, UNCHANGED <<hostUp, ready, receipt>>
  PROVE  /\ drain' \in [Drains -> Drain] /\ inflight' \in BOOLEAN /\ dirty' \in BOOLEAN
         /\ \A m : Pending(m)' <=> Pending(m)
         /\ DrainInv'
         /\ inflight => inflight' /\ (dirty => dirty') /\ drain' = drain
         /\ ready => inflight' /\ \A m \in D :
              receipt[m] = "none" => dirty' \/ \E d \in Drains : active(d)' /\ m \in drain'[d].queue
<1>0. drain \in [Drains -> Drain] /\ inflight \in BOOLEAN /\ dirty \in BOOLEAN
  BY DEF TypeOK, Drain
<1>1. CASE ~ready /\ UNCHANGED <<inflight, dirty, drain>>
  <2>1. ~inflight
    BY <1>1 DEF DrainInv
  <2>2. \A e \in Drains : (active(e)' <=> active(e)) /\ (accepted(e)' <=> accepted(e)) /\ head(e)' = head(e)
    BY <1>1 DEF active, accepted, head
  <2>3. \A m : Pending(m)' <=> Pending(m)
    BY <2>2 DEF Pending
  <2>4. DrainInv'
    BY <1>1, <2>2 DEF DrainInv
  <2> QED
    BY <1>0, <1>1, <2>1, <2>3, <2>4
<1>2. CASE ready /\ inflight /\ dirty' = TRUE /\ UNCHANGED <<inflight, drain>>
  <2>2. \A e \in Drains : (active(e)' <=> active(e)) /\ (accepted(e)' <=> accepted(e)) /\ head(e)' = head(e)
    BY <1>2 DEF active, accepted, head
  <2>3. \A m : Pending(m)' <=> Pending(m)
    BY <2>2 DEF Pending
  <2>4. DrainInv'
    BY <1>2, <2>2 DEF DrainInv
  <2> QED
    BY <1>0, <1>2, <2>3, <2>4
<1>3. ASSUME ready, ~inflight, inflight' = TRUE, dirty' = FALSE,
             NEW d \in Drains, ~active(d), drain' = [drain EXCEPT ![d] = DrainOf(D)]
      PROVE  /\ drain' \in [Drains -> Drain] /\ inflight' \in BOOLEAN /\ dirty' \in BOOLEAN
             /\ \A m : Pending(m)' <=> Pending(m)
             /\ DrainInv'
             /\ inflight => inflight' /\ (dirty => dirty') /\ drain' = drain
             /\ ready => inflight' /\ \A m \in D :
                  receipt[m] = "none" => dirty' \/ \E e \in Drains : active(e)' /\ m \in drain'[e].queue
  <2>1. /\ DrainOf(D) \in Drain /\ DrainOf(D).stage = "sending"
        /\ DrainOf(D).queue = {m \in D : receipt[m] = "none"}
    BY DEF DrainOf, Drain
  <2>2. \A e \in Drains : drain'[e] = IF e = d THEN DrainOf(D) ELSE drain[e]
    BY <1>0, <1>3
  <2>3. \A e \in Drains : ~active(e) /\ ~accepted(e)
    BY <1>3 DEF DrainInv, active, accepted
  <2>4. \A e \in Drains : (active(e)' <=> e = d) /\ ~accepted(e)'
    BY <2>1, <2>2, <2>3 DEF active, accepted
  <2>5. \A m : Pending(m)' <=> Pending(m)
    BY <2>3, <2>4 DEF Pending
  <2>6. drain'[d].queue = {m \in D : receipt[m] = "none"}
    BY <2>1, <2>2
  <2>7. DrainInv'
    BY <1>3, <2>4, <2>6 DEF DrainInv
  <2>8. drain' \in [Drains -> Drain]
    BY <1>0, <1>3, <2>1
  <2> QED
    BY <1>3, <2>4, <2>5, <2>6, <2>7, <2>8
<1> QED
  BY <1>1, <1>2, <1>3 DEF deliverSessionMessages

-----------------------------------------------------------------------------
(* Each action keeps the inductive invariant. *)

LEMMA InitIInv == Init => IInv
<1> SUFFICES ASSUME Init PROVE IInv
  OBVIOUS
<1>1. \A d \in Drains : drain[d] = NoDrain /\ ~active(d) /\ ~accepted(d)
  BY DEF Init, NoDrain, active, accepted
<1>2. TypeOK
  <2>1. NoDrain \in [stage: {"none", "sending", "accepted"}, queue: SUBSET Msgs]
    BY DEF NoDrain
  <2>2. drain \in [Drains -> [stage: {"none", "sending", "accepted"}, queue: SUBSET Msgs]]
    BY <2>1 DEF Init
  <2>3. bounces \in 0 .. MaxBounceBacks
    BY CountsAssumption DEF Init
  <2>4. receipt \in [Msgs -> {"none", "delivered", "failed"}]
    BY DEF Init
  <2>5. attempts \in [Msgs -> Nat] /\ sends \in [Msgs -> Nat] /\ lost \in [Msgs -> Nat] /\ failures \in [Msgs -> Nat] /\ faults \in Nat
    BY DEF Init
  <2>6. rows \in SUBSET Msgs /\ due \in SUBSET rows /\ bounced \in SUBSET Bounced /\ hinted \in SUBSET Msgs /\ tried \in SUBSET Msgs
    BY DEF Init
  <2>7. hostUp \in BOOLEAN /\ ready \in BOOLEAN /\ inflight \in BOOLEAN /\ dirty \in BOOLEAN
    BY DEF Init
  <2> QED
    BY <2>2, <2>3, <2>4, <2>5, <2>6, <2>7 DEF TypeOK
<1>3. DrainInv /\ HintInv
  BY <1>1 DEF Init, DrainInv, HintInv
<1>4. SendInv /\ ReceiptIsEarned
  BY <1>1 DEF Init, SendInv, ReceiptIsEarned, Pending
<1>5. RowsInv
  <2>1. 0 \in 0 .. N /\ 1 .. 0 = {}
    BY CountsAssumption
  <2> QED
    BY <2>1 DEF Init, RowsInv
<1> QED
  BY <1>2, <1>3, <1>4, <1>5 DEF IInv

LEMMA CommitStep ==
  ASSUME IInv, NEW now \in BOOLEAN, Commit(now)
  PROVE  IInv'
<1> DEFINE m == Cardinality(rows) + 1
           dueNow == IF now THEN due \cup {m} ELSE due
<1>1. /\ hostUp /\ m \in Msgs /\ rows' = rows \cup {m} /\ due' = dueNow
      /\ deliverSessionMessages(dueNow)
      /\ hinted' = IF ready /\ now THEN hinted \cup {m} ELSE hinted
      /\ UNCHANGED <<receipt, bounced, hostUp, ready, attempts, bounces, sends, lost, failures, tried, faults>>
  BY DEF Commit
<1>2. m \notin rows /\ \E k \in 0 .. N : rows' = 1 .. k
  BY <1>1, NextRow DEF IInv
<1>3. dueNow \in SUBSET Msgs /\ dueNow \subseteq rows'
  BY <1>1 DEF IInv, TypeOK
<1> HIDE DEF m, dueNow
<1>4. /\ drain' \in [Drains -> Drain] /\ inflight' \in BOOLEAN /\ dirty' \in BOOLEAN
      /\ \A n : Pending(n)' <=> Pending(n)
      /\ DrainInv'
      /\ inflight => inflight' /\ (dirty => dirty') /\ drain' = drain
      /\ ready => inflight' /\ \A n \in dueNow :
           receipt[n] = "none" => dirty' \/ \E d \in Drains : active(d)' /\ n \in drain'[d].queue
  BY <1>1, <1>3, DeliverStep DEF IInv
<1>5. TypeOK'
  <2>1. rows' \in SUBSET Msgs /\ hinted' \in SUBSET Msgs
    BY <1>1 DEF IInv, TypeOK
  <2> QED
    BY <1>1, <1>3, <1>4, <2>1 DEF IInv, TypeOK, Drain
<1>6. SendInv' /\ ReceiptIsEarned'
  BY <1>1, <1>4 DEF IInv, SendInv, ReceiptIsEarned
<1>7. RowsInv'
  BY <1>1, <1>2 DEF IInv, RowsInv
<1>8. HintInv'
  <2> SUFFICES ASSUME NEW n \in hinted' \ tried'
               PROVE  /\ n \in due' /\ receipt'[n] = "none" /\ inflight'
                      /\ dirty' \/ \E d \in Drains : active(d)' /\ n \in drain'[d].queue
    BY DEF HintInv
  <2>1. CASE n = m /\ ready /\ now
    <3>1. receipt[m] = "none" /\ m \in dueNow
      BY <1>1, <1>2, <2>1 DEF IInv, RowsInv, TypeOK, dueNow
    <3> QED
      BY <1>1, <1>4, <2>1, <3>1
  <2>2. CASE n \in hinted
    <3>1. /\ n \in due /\ receipt[n] = "none" /\ inflight
          /\ dirty \/ \E d \in Drains : active(d) /\ n \in drain[d].queue
      BY <1>1, <2>2 DEF IInv, HintInv
    <3>2. \A d \in Drains : active(d)' <=> active(d)
      BY <1>4, <3>1 DEF active
    <3>3. n \in dueNow
      BY <3>1 DEF dueNow
    <3> QED
      BY <1>1, <1>4, <3>1, <3>2, <3>3
  <2> QED
    BY <1>1, <2>1, <2>2
<1> QED
  BY <1>4, <1>5, <1>6, <1>7, <1>8 DEF IInv

\* A step that leaves the drains, the receipts and the counts alone.
LEMMA QuietStep ==
  ASSUME IInv, UNCHANGED <<rows, receipt, bounced, drain, inflight, dirty, attempts, bounces, history>>,
         due' \in SUBSET rows, due \subseteq due', ready' \in BOOLEAN, hostUp' \in BOOLEAN,
         ready => ready', hostUp => hostUp'
  PROVE  IInv'
<1>1. \A d \in Drains : (active(d)' <=> active(d)) /\ (accepted(d)' <=> accepted(d)) /\ head(d)' = head(d)
  BY DEF active, accepted, head
<1>2. \A m : Pending(m)' <=> Pending(m)
  BY <1>1 DEF Pending
<1>3. TypeOK'
  BY DEF IInv, TypeOK, history
<1>4. DrainInv'
  BY <1>1 DEF IInv, DrainInv, history
<1>5. SendInv' /\ ReceiptIsEarned'
  BY <1>2 DEF IInv, SendInv, ReceiptIsEarned, history
<1>6. RowsInv'
  BY DEF IInv, RowsInv
<1>7. HintInv'
  BY <1>1 DEF IInv, HintInv, history
<1> QED
  BY <1>3, <1>4, <1>5, <1>6, <1>7 DEF IInv

LEMMA OutsideSteps ==
  ASSUME IInv, (\E m \in Msgs : BecomesDue(m)) \/ AdapterReady \/ HostStarts \/ UNCHANGED vars
  PROVE  IInv'
<1>1. ASSUME NEW m \in Msgs, BecomesDue(m) PROVE IInv'
  BY <1>1, QuietStep DEF BecomesDue, memory, history, IInv, TypeOK
<1>2. CASE AdapterReady
  BY <1>2, QuietStep DEF AdapterReady, disk, history, IInv, TypeOK
<1>3. CASE HostStarts
  BY <1>3, QuietStep DEF HostStarts, disk, memory, history, IInv, TypeOK
<1>4. CASE UNCHANGED vars
  BY <1>4, QuietStep DEF vars, disk, memory, history, IInv, TypeOK
<1> QED
  BY <1>1, <1>2, <1>3, <1>4

LEMMA ScanStep ==
  ASSUME IInv, Scan
  PROVE  IInv'
<1>1. hostUp /\ ready /\ deliverSessionMessages(due) /\ UNCHANGED <<disk, hostUp, ready, attempts, bounces, history>>
  BY DEF Scan
<1>2. due \in SUBSET Msgs
  BY DEF IInv, TypeOK
<1>3. UNCHANGED <<hostUp, ready, receipt>> /\ due \subseteq rows' /\ rows \subseteq rows'
  BY <1>1 DEF disk, IInv, TypeOK
<1>4. /\ drain' \in [Drains -> Drain] /\ inflight' \in BOOLEAN /\ dirty' \in BOOLEAN
      /\ \A m : Pending(m)' <=> Pending(m)
      /\ DrainInv'
      /\ inflight => inflight' /\ (dirty => dirty') /\ drain' = drain
      /\ ready => inflight' /\ \A m \in due :
           receipt[m] = "none" => dirty' \/ \E d \in Drains : active(d)' /\ m \in drain'[d].queue
  BY <1>1, <1>2, <1>3, DeliverStep DEF IInv
<1>5. TypeOK'
  BY <1>1, <1>4 DEF IInv, TypeOK, Drain, disk, history
<1>6. SendInv' /\ ReceiptIsEarned'
  BY <1>1, <1>4 DEF IInv, SendInv, ReceiptIsEarned, disk, history
<1>7. RowsInv'
  BY <1>1 DEF IInv, RowsInv, disk
<1>8. HintInv'
  BY <1>1, <1>4 DEF IInv, HintInv, disk, history
<1> QED
  BY <1>4, <1>5, <1>6, <1>7, <1>8 DEF IInv

\* A drain has done with its head: what it and the tables say of the rest stays true.
LEMMA HeadDone ==
  ASSUME IInv, NEW d \in Drains, active(d), drain[d].queue # {},
         drain' = [drain EXCEPT ![d] = next(d)],
         \A m \in Msgs : m # head(d) => receipt'[m] = receipt[m],
         UNCHANGED <<rows, due, hostUp, ready, inflight, dirty, hinted>>,
         tried \subseteq tried', head(d) \in tried'
  PROVE  DrainInv' /\ RowsInv' /\ HintInv'
<1>1. TypeOK /\ DrainInv /\ RowsInv /\ HintInv
  BY DEF IInv
<1>2. /\ \A e \in Drains : (active(e)' <=> e = d) /\ ~accepted(e)'
      /\ drain'[d].queue = drain[d].queue \ {head(d)}
      /\ head(d) \in drain[d].queue /\ head(d) \in Msgs
  BY <1>1, NextStep
<1>3. drain[d].queue \subseteq {m \in rows : receipt[m] = "none"}
  BY <1>1 DEF DrainInv
<1>4. inflight /\ hostUp
  BY <1>1 DEF DrainInv, TypeOK
<1>5. rows \subseteq Msgs
  BY <1>1 DEF TypeOK
<1>6. DrainInv'
  <2>1. \A e \in Drains : active(e)' => drain'[e].queue \subseteq {m \in rows' : receipt'[m] = "none"}
    BY <1>2, <1>3, <1>5
  <2> QED
    BY <1>1, <1>2, <1>4, <2>1 DEF DrainInv
<1>7. RowsInv'
  BY <1>1, <1>2, <1>3 DEF RowsInv
<1>8. HintInv'
  <2> SUFFICES ASSUME NEW n \in hinted' \ tried'
               PROVE  /\ n \in due' /\ receipt'[n] = "none" /\ inflight'
                      /\ dirty' \/ \E e \in Drains : active(e)' /\ n \in drain'[e].queue
    BY DEF HintInv
  <2>1. n \in Msgs /\ n # head(d)
    BY <1>1 DEF TypeOK
  <2>2. /\ n \in due /\ receipt[n] = "none" /\ inflight
        /\ dirty \/ \E e \in Drains : active(e) /\ n \in drain[e].queue
    BY <1>1 DEF HintInv
  <2>3. \A e \in Drains : active(e) => e = d
    BY <1>1 DEF DrainInv
  <2> QED
    BY <1>2, <2>1, <2>2, <2>3
<1> QED
  BY <1>6, <1>7, <1>8

LEMMA ChannelAcceptsStep ==
  ASSUME IInv, NEW d \in Drains, ChannelAccepts(d)
  PROVE  IInv'
<1>1. /\ drain[d].stage = "sending" /\ drain[d].queue # {} /\ active(d)
      /\ drain' = [drain EXCEPT ![d].stage = "accepted"]
      /\ sends' = [sends EXCEPT ![head(d)] = @ + 1]
      /\ tried' = tried \cup {head(d)}
      /\ UNCHANGED <<rows, due, receipt, bounced, hostUp, ready, inflight, dirty, attempts, bounces, lost, failures, hinted, faults>>
  BY DEF ChannelAccepts, sending, active, disk
<1>2. TypeOK /\ DrainInv /\ SendInv /\ RowsInv /\ HintInv /\ ReceiptIsEarned
  BY DEF IInv
<1>3. head(d) \in drain[d].queue /\ head(d) \in Msgs
  BY <1>1, <1>2, HeadIsQueued
<1>4. drain \in [Drains -> Drain]
  BY <1>2 DEF TypeOK, Drain
<1>5. /\ \A e \in Drains : drain'[e].queue = drain[e].queue
      /\ drain'[d].stage = "accepted" /\ \A e \in Drains : e # d => drain'[e] = drain[e]
  BY <1>1, <1>4 DEF Drain
<1>6. \A e \in Drains : active(e) => e = d
  BY <1>1, <1>2 DEF DrainInv
<1>7. \A e \in Drains : (active(e)' <=> e = d) /\ (accepted(e)' <=> e = d) /\ head(e)' = head(e)
  BY <1>1, <1>5, <1>6 DEF active, accepted, head
<1>8. \A m : ~Pending(m) /\ (Pending(m)' <=> m = head(d))
  BY <1>1, <1>6, <1>7 DEF Pending, accepted, active
<1>9. receipt[head(d)] = "none" /\ head(d) \in rows
  BY <1>1, <1>2, <1>3 DEF DrainInv
<1>10. TypeOK'
  <2>1. drain' \in [Drains -> Drain]
    BY <1>1, <1>4 DEF Drain
  <2>2. sends' \in [Msgs -> Nat] /\ tried' \in SUBSET Msgs
    BY <1>1, <1>2, <1>3 DEF TypeOK
  <2> QED
    BY <1>1, <1>2, <2>1, <2>2 DEF TypeOK, Drain
<1>11. DrainInv'
  BY <1>1, <1>2, <1>5, <1>7 DEF DrainInv
<1>12. SendInv'
  <2> SUFFICES ASSUME NEW m \in Msgs
               PROVE  /\ sends'[m] <= 1 + lost'[m]
                      /\ receipt'[m] = "none" /\ ~Pending(m)' => sends'[m] <= lost'[m]
                      /\ Pending(m)' => sends'[m] > 0 /\ m \in tried'
                      /\ attempts'[m] <= failures'[m]
    BY DEF SendInv
  <2>1. /\ sends[m] <= 1 + lost[m] /\ attempts[m] <= failures[m]
        /\ receipt[m] = "none" => sends[m] <= lost[m]
    BY <1>2, <1>8 DEF SendInv
  <2>2. sends[m] \in Nat /\ lost[m] \in Nat
    BY <1>2 DEF TypeOK
  <2>3. sends'[m] = IF m = head(d) THEN sends[m] + 1 ELSE sends[m]
    BY <1>1, <1>2 DEF TypeOK
  <2>4. CASE m = head(d)
    BY <1>1, <1>8, <1>9, <2>1, <2>2, <2>3, <2>4
  <2>5. CASE m # head(d)
    BY <1>1, <1>8, <2>1, <2>3, <2>5
  <2> QED
    BY <2>4, <2>5
<1>13. ReceiptIsEarned'
  <2>1. \A m \in Msgs : sends[m] \in Nat /\ sends'[m] >= sends[m]
    BY <1>1, <1>2, <1>3 DEF TypeOK
  <2> QED
    BY <1>1, <1>2, <2>1 DEF ReceiptIsEarned, TypeOK
<1>14. RowsInv' /\ HintInv'
  <2>1. \A e \in Drains : active(e)' <=> active(e)
    BY <1>1, <1>6, <1>7
  <2> QED
    BY <1>1, <1>2, <1>5, <2>1 DEF RowsInv, HintInv
<1> QED
  BY <1>10, <1>11, <1>12, <1>13, <1>14 DEF IInv

\* An accepted message has been counted and taken up.
LEMMA AcceptedHead ==
  ASSUME IInv, NEW d \in Drains, drain[d].stage = "accepted"
  PROVE  /\ active(d) /\ drain[d].queue # {} /\ head(d) \in Msgs
         /\ Pending(head(d)) /\ sends[head(d)] > 0 /\ head(d) \in tried
<1>1. active(d) /\ drain[d].queue # {} /\ Pending(head(d))
  BY DEF IInv, DrainInv, active, accepted, Pending
<1>2. head(d) \in Msgs
  BY <1>1, HeadIsQueued DEF IInv
<1> QED
  BY <1>1, <1>2 DEF IInv, SendInv

LEMMA RecordDeliveredStep ==
  ASSUME IInv, NEW d \in Drains, RecordDelivered(d)
  PROVE  IInv'
<1>1. /\ drain[d].stage = "accepted"
      /\ receipt' = [receipt EXCEPT ![head(d)] = IF @ = "none" THEN "delivered" ELSE @]
      /\ attempts' = [attempts EXCEPT ![head(d)] = 0]
      /\ drain' = [drain EXCEPT ![d] = next(d)]
      /\ UNCHANGED <<rows, due, bounced, hostUp, ready, inflight, dirty, bounces,
                     sends, lost, failures, hinted, tried, faults>>
  BY DEF RecordDelivered, history
<1>2. TypeOK /\ DrainInv /\ SendInv /\ ReceiptIsEarned
  BY DEF IInv
<1>3. /\ active(d) /\ drain[d].queue # {} /\ head(d) \in Msgs
      /\ Pending(head(d)) /\ sends[head(d)] > 0 /\ head(d) \in tried
  BY <1>1, AcceptedHead
<1>4. /\ drain' \in [Drains -> Drain]
      /\ \A m : ~Pending(m)'
      /\ \A m : Pending(m) => m = head(d)
  BY <1>1, <1>2, <1>3, NextStep
<1>5. \A m \in Msgs : receipt'[m] = IF m = head(d) /\ receipt[m] = "none" THEN "delivered" ELSE receipt[m]
  BY <1>1, <1>2 DEF TypeOK
<1>6. \A m \in Msgs : attempts'[m] = IF m = head(d) THEN 0 ELSE attempts[m]
  BY <1>1, <1>2 DEF TypeOK
<1>7. TypeOK'
  BY <1>1, <1>2, <1>4 DEF TypeOK, Drain
<1>8. DrainInv' /\ RowsInv' /\ HintInv'
  BY <1>1, <1>3, <1>5, HeadDone
<1>9. SendInv'
  <2> SUFFICES ASSUME NEW m \in Msgs
               PROVE  /\ sends[m] <= 1 + lost[m]
                      /\ receipt'[m] = "none" => sends[m] <= lost[m]
                      /\ attempts'[m] <= failures[m]
    BY <1>1, <1>4 DEF SendInv
  <2>1. /\ sends[m] <= 1 + lost[m] /\ attempts[m] <= failures[m]
        /\ receipt[m] = "none" /\ m # head(d) => sends[m] <= lost[m]
    BY <1>2, <1>4 DEF SendInv
  <2>2. receipt'[m] = "none" => receipt[m] = "none" /\ m # head(d)
    BY <1>5
  <2>3. attempts'[m] <= failures[m]
    BY <1>2, <1>6, <2>1 DEF TypeOK
  <2> QED
    BY <2>1, <2>2, <2>3
<1>10. ReceiptIsEarned'
  BY <1>1, <1>2, <1>3, <1>5 DEF ReceiptIsEarned
<1> QED
  BY <1>7, <1>8, <1>9, <1>10 DEF IInv

\* A failure of the head, at the adapter or after it: it is tried again, or
\* its receipt says failed and every attempt has been made.
LEMMA FailedHead ==
  ASSUME IInv, NEW d \in Drains, active(d), drain[d].queue # {}, Caught(d),
         failures' = [failures EXCEPT ![head(d)] = @ + 1],
         lost' = IF accepted(d) THEN [lost EXCEPT ![head(d)] = @ + 1] ELSE lost,
         tried' = tried \cup {head(d)}, faults' \in Nat,
         UNCHANGED <<rows, due, hostUp, ready, inflight, dirty, sends, hinted>>
  PROVE  IInv'
<1>1. TypeOK /\ DrainInv /\ SendInv /\ ReceiptIsEarned
  BY DEF IInv
<1>2. drain' = [drain EXCEPT ![d] = next(d)]
  BY DEF Caught
<1>3. /\ drain' \in [Drains -> Drain]
      /\ \A m : ~Pending(m)'
      /\ \A m : Pending(m) => m = head(d)
      /\ head(d) \in Msgs
  BY <1>1, <1>2, NextStep
<1>4. Pending(head(d)) <=> accepted(d)
  BY <1>1 DEF Pending, DrainInv, accepted, active
<1>5. \/ /\ attempts' = [attempts EXCEPT ![head(d)] = @ + 1]
         /\ UNCHANGED <<receipt, bounced, bounces>>
      \/ /\ attempts[head(d)] + 1 >= MaxAttempts
         /\ attempts' = [attempts EXCEPT ![head(d)] = 0]
         /\ receipt' = [receipt EXCEPT ![head(d)] = IF @ = "none" THEN "failed" ELSE @]
         /\ \/ /\ head(d) \in Bounced /\ bounces < MaxBounceBacks
               /\ bounced' = bounced \cup {head(d)} /\ bounces' = bounces + 1
            \/ UNCHANGED <<bounced, bounces>>
  <2>1. attempts[head(d)] \in Nat
    BY <1>1, <1>3 DEF TypeOK
  <2>2. attempts[head(d)] + 1 < MaxAttempts \/ attempts[head(d)] + 1 >= MaxAttempts
    BY <2>1, CountsAssumption
  <2> QED
    BY <2>1, <2>2, CountsAssumption DEF Caught
<1>6. /\ attempts' \in [Msgs -> Nat]
      /\ \A m \in Msgs : attempts'[m] <= IF m = head(d) THEN attempts[m] + 1 ELSE attempts[m]
  BY <1>1, <1>3, <1>5 DEF TypeOK
<1>7. /\ receipt' \in [Msgs -> {"none", "delivered", "failed"}]
      /\ \A m \in Msgs : \/ receipt'[m] = receipt[m]
                         \/ /\ m = head(d) /\ receipt[m] = "none" /\ receipt'[m] = "failed"
                            /\ attempts[m] + 1 >= MaxAttempts
  BY <1>1, <1>3, <1>5 DEF TypeOK
<1>8. bounced' \in SUBSET Bounced /\ bounces' \in 0 .. MaxBounceBacks
  BY <1>1, <1>5, CountsAssumption DEF TypeOK
<1>9. /\ lost' \in [Msgs -> Nat]
      /\ \A m \in Msgs : lost'[m] = IF m = head(d) /\ accepted(d) THEN lost[m] + 1 ELSE lost[m]
  BY <1>1, <1>3 DEF TypeOK
<1>10. /\ failures' \in [Msgs -> Nat]
       /\ \A m \in Msgs : failures'[m] = IF m = head(d) THEN failures[m] + 1 ELSE failures[m]
  BY <1>1, <1>3 DEF TypeOK
<1>11. TypeOK'
  <2>1. tried' \in SUBSET Msgs
    BY <1>1, <1>3 DEF TypeOK
  <2> QED
    BY <1>1, <1>3, <1>6, <1>7, <1>8, <1>9, <1>10, <2>1 DEF TypeOK, Drain
<1>12. DrainInv' /\ RowsInv' /\ HintInv'
  BY <1>2, <1>7, HeadDone
<1>13. SendInv'
  <2> SUFFICES ASSUME NEW m \in Msgs
               PROVE  /\ sends[m] <= 1 + lost'[m]
                      /\ receipt'[m] = "none" => sends[m] <= lost'[m]
                      /\ attempts'[m] <= failures'[m]
    BY <1>3 DEF SendInv
  <2>1. sends[m] \in Nat /\ lost[m] \in Nat /\ attempts[m] \in Nat /\ failures[m] \in Nat /\ attempts'[m] \in Nat
    BY <1>1, <1>6 DEF TypeOK
  <2>2. /\ sends[m] <= 1 + lost[m] /\ attempts[m] <= failures[m]
        /\ receipt[m] = "none" /\ ~(m = head(d) /\ accepted(d)) => sends[m] <= lost[m]
    BY <1>1, <1>3, <1>4 DEF SendInv
  <2>3. attempts'[m] <= failures'[m]
    BY <1>6, <1>10, <2>1, <2>2
  <2>4. receipt'[m] = "none" => receipt[m] = "none"
    BY <1>7
  <2> QED
    BY <1>9, <2>1, <2>2, <2>3, <2>4
<1>14. ReceiptIsEarned'
  <2> SUFFICES ASSUME NEW m \in Msgs
               PROVE  /\ receipt'[m] = "delivered" => sends[m] > 0
                      /\ receipt'[m] = "failed" => failures'[m] >= MaxAttempts
    BY DEF ReceiptIsEarned
  <2>1. attempts[m] \in Nat /\ failures[m] \in Nat /\ failures'[m] >= failures[m]
    BY <1>1, <1>10 DEF TypeOK
  <2>2. attempts[m] <= failures[m]
    BY <1>1 DEF SendInv
  <2>3. CASE receipt'[m] = receipt[m]
    BY <1>1, <2>1, <2>3, <1>10, CountsAssumption DEF ReceiptIsEarned, TypeOK
  <2>4. CASE m = head(d) /\ receipt'[m] = "failed" /\ attempts[m] + 1 >= MaxAttempts
    BY <1>10, <2>1, <2>2, <2>4, CountsAssumption
  <2> QED
    BY <1>7, <2>3, <2>4
<1> QED
  BY <1>11, <1>12, <1>13, <1>14 DEF IInv

LEMMA FailureSteps ==
  ASSUME IInv, NEW d \in Drains, SendFails(d) \/ RecordFails(d)
  PROVE  IInv'
<1>1. faults \in Nat
  BY DEF IInv, TypeOK
<1>2. CASE SendFails(d)
  <2>1. active(d) /\ ~accepted(d) /\ drain[d].queue # {}
    BY <1>2 DEF SendFails, sending, active, accepted
  <2> QED
    BY <1>1, <1>2, <2>1, FailedHead DEF SendFails
<1>3. CASE RecordFails(d)
  <2>1. active(d) /\ accepted(d) /\ drain[d].queue # {} /\ head(d) \in tried
    BY <1>3, AcceptedHead DEF RecordFails, accepted
  <2>2. tried' = tried \cup {head(d)}
    BY <1>3, <2>1 DEF RecordFails
  <2>3. /\ Caught(d) /\ faults' \in Nat
        /\ lost' = [lost EXCEPT ![head(d)] = @ + 1] /\ failures' = [failures EXCEPT ![head(d)] = @ + 1]
        /\ UNCHANGED <<rows, due, hostUp, ready, inflight, dirty, sends, hinted>>
    BY <1>1, <1>3 DEF RecordFails
  <2> QED
    BY <2>1, <2>2, <2>3, FailedHead
<1> QED
  BY <1>2, <1>3

LEMMA DrainThrowsStep ==
  ASSUME IInv, NEW d \in Drains, DrainThrows(d)
  PROVE  IInv'
<1>1. /\ drain[d].stage \in {"sending", "accepted"} /\ active(d) /\ drain[d].queue # {}
      /\ attempts' = [attempts EXCEPT ![head(d)] = @ + 1]
      /\ lost' = [lost EXCEPT ![head(d)] = IF accepted(d) THEN @ + 1 ELSE @]
      /\ failures' = [failures EXCEPT ![head(d)] = @ + 1]
      /\ drain' = [drain EXCEPT ![d] = NoDrain]
      /\ inflight' = FALSE /\ hinted' = {} /\ faults' = faults + 1
      /\ UNCHANGED <<rows, due, receipt, bounced, hostUp, ready, dirty, bounces, sends, tried>>
  BY DEF DrainThrows, sending, active, accepted, disk, IInv, DrainInv
<1>2. TypeOK /\ DrainInv /\ SendInv /\ RowsInv /\ ReceiptIsEarned
  BY DEF IInv
<1>3. head(d) \in Msgs
  BY <1>1, <1>2, HeadIsQueued
<1>4. /\ drain' \in [Drains -> Drain]
      /\ \A m : ~Pending(m)'
      /\ \A e \in Drains : ~active(e)'
  BY <1>1, <1>2, NoDrainStep
<1>5. /\ \A m : Pending(m) => m = head(d)
      /\ Pending(head(d)) <=> accepted(d)
  BY <1>1, <1>2 DEF Pending, DrainInv, accepted, active
<1>6. /\ attempts' \in [Msgs -> Nat]
      /\ \A m \in Msgs : attempts'[m] = IF m = head(d) THEN attempts[m] + 1 ELSE attempts[m]
  BY <1>1, <1>2, <1>3 DEF TypeOK
<1>7. /\ lost' \in [Msgs -> Nat]
       /\ \A m \in Msgs : lost'[m] = IF m = head(d) /\ accepted(d) THEN lost[m] + 1 ELSE lost[m]
  <2>1. lost \in [Msgs -> Nat] /\ lost' = [lost EXCEPT ![head(d)] = IF accepted(d) THEN @ + 1 ELSE @]
    BY <1>1, <1>2 DEF TypeOK
  <2>2. CASE accepted(d)
    <3>1. lost' = [lost EXCEPT ![head(d)] = @ + 1]
      BY <2>1, <2>2
    <3> QED
      BY <1>3, <2>1, <2>2, <3>1
  <2>3. CASE ~accepted(d)
    <3>1. lost' = lost
      BY <1>3, <2>1, <2>3
    <3> QED
      BY <1>3, <2>1, <2>3, <3>1
  <2> QED
    BY <2>2, <2>3
<1>8. /\ failures' \in [Msgs -> Nat]
       /\ \A m \in Msgs : failures'[m] = IF m = head(d) THEN failures[m] + 1 ELSE failures[m]
  BY <1>1, <1>2, <1>3 DEF TypeOK
<1>9. TypeOK'
  <2>1. faults' \in Nat /\ inflight' \in BOOLEAN /\ hinted' \in SUBSET Msgs
    <3>1. faults' = faults + 1 /\ inflight' = FALSE /\ hinted' = {}
      BY <1>1
    <3>2. faults' \in Nat
      BY <1>2, <3>1 DEF TypeOK
    <3>3. hinted' \in SUBSET Msgs
      BY <3>1
    <3> QED
      BY <3>1, <3>2, <3>3
  <2>2. drain' \in [Drains -> [stage: {"none", "sending", "accepted"}, queue: SUBSET Msgs]]
    BY <1>4 DEF Drain
  <2>3. attempts' \in [Msgs -> Nat] /\ lost' \in [Msgs -> Nat] /\ failures' \in [Msgs -> Nat]
    BY <1>6, <1>7, <1>8
  <2>4. UNCHANGED <<rows, due, receipt, bounced, hostUp, ready, dirty, bounces, sends, tried>>
    BY <1>1
  <2> QED
    BY <1>2, <2>1, <2>2, <2>3, <2>4 DEF TypeOK
<1>10. DrainInv' /\ HintInv'
  BY <1>1, <1>2, <1>4 DEF DrainInv, HintInv, accepted, active
<1>11. SendInv'
  <2> SUFFICES ASSUME NEW m \in Msgs
               PROVE  /\ sends[m] <= 1 + lost'[m]
                      /\ receipt[m] = "none" => sends[m] <= lost'[m]
                      /\ attempts'[m] <= failures'[m]
    BY <1>1, <1>4 DEF SendInv
  <2>1. sends[m] \in Nat /\ lost[m] \in Nat /\ attempts[m] \in Nat /\ failures[m] \in Nat
    BY <1>2 DEF TypeOK
  <2>2. /\ sends[m] <= 1 + lost[m] /\ attempts[m] <= failures[m]
        /\ receipt[m] = "none" /\ ~(m = head(d) /\ accepted(d)) => sends[m] <= lost[m]
    BY <1>2, <1>5 DEF SendInv
  <2> QED
    BY <1>6, <1>7, <1>8, <2>1, <2>2
<1>12. ReceiptIsEarned'
  <2>1. \A m \in Msgs : failures[m] \in Nat /\ failures'[m] >= failures[m]
    BY <1>2, <1>8 DEF TypeOK
  <2> QED
    BY <1>1, <1>2, <1>8, <2>1, CountsAssumption DEF ReceiptIsEarned
<1>13. RowsInv'
  BY <1>1, <1>2 DEF RowsInv
<1> QED
  BY <1>9, <1>10, <1>11, <1>12, <1>13 DEF IInv

LEMMA DrainEndsStep ==
  ASSUME IInv, NEW d \in Drains, DrainEnds(d)
  PROVE  IInv'
<1>1. /\ active(d) /\ ~accepted(d) /\ drain[d].queue = {} /\ dirty' = FALSE
      /\ UNCHANGED <<disk, hostUp, ready, attempts, bounces, history>>
  BY DEF DrainEnds, active, accepted
<1>2. TypeOK /\ DrainInv /\ SendInv /\ RowsInv /\ HintInv /\ ReceiptIsEarned
  BY DEF IInv
<1>3. drain \in [Drains -> Drain]
  BY <1>2 DEF TypeOK, Drain
<1>4. \A e \in Drains : e # d => ~active(e) /\ ~accepted(e)
  BY <1>1, <1>2 DEF DrainInv, active, accepted
<1>5. \A m : ~Pending(m)
  BY <1>1, <1>4 DEF Pending
<1>6. SUFFICES /\ drain' \in [Drains -> Drain] /\ inflight' \in BOOLEAN
               /\ \A m : ~Pending(m)'
               /\ DrainInv' /\ HintInv'
  <2> SUFFICES ASSUME drain' \in [Drains -> Drain], inflight' \in BOOLEAN,
                      \A m : ~Pending(m)', DrainInv', HintInv'
               PROVE  IInv'
    OBVIOUS
  <2>1. TypeOK'
    BY <1>1, <1>2 DEF TypeOK, Drain, disk, history
  <2>2. SendInv' /\ ReceiptIsEarned' /\ RowsInv'
    BY <1>1, <1>2, <1>5 DEF SendInv, ReceiptIsEarned, RowsInv, disk, history
  <2> QED
    BY <2>1, <2>2 DEF IInv
<1>7. CASE dirty
  <2>1. drain' = [drain EXCEPT ![d] = DrainOf(due)] /\ UNCHANGED inflight
    BY <1>7 DEF DrainEnds
  <2>2. due \in SUBSET Msgs /\ due \subseteq rows
    BY <1>2 DEF TypeOK
  <2>3. /\ DrainOf(due) \in Drain /\ DrainOf(due).stage = "sending"
        /\ DrainOf(due).queue = {m \in due : receipt[m] = "none"}
    BY <2>2 DEF DrainOf, Drain
  <2>4. \A e \in Drains : drain'[e] = IF e = d THEN DrainOf(due) ELSE drain[e]
    BY <1>3, <2>1
  <2>5. \A e \in Drains : (active(e)' <=> e = d) /\ ~accepted(e)'
    BY <1>4, <2>3, <2>4 DEF active, accepted
  <2>6. drain'[d].queue = {m \in due : receipt[m] = "none"}
    BY <2>3, <2>4
  <2>7. DrainInv'
    BY <1>1, <1>2, <2>1, <2>2, <2>5, <2>6 DEF DrainInv, disk, history
  <2>8. HintInv'
    BY <1>1, <1>2, <2>1, <2>5, <2>6 DEF HintInv, disk, history
  <2>9. drain' \in [Drains -> Drain] /\ inflight' \in BOOLEAN
    BY <1>2, <1>3, <2>1, <2>3 DEF TypeOK
  <2> QED
    BY <2>5, <2>7, <2>8, <2>9 DEF Pending
<1>8. CASE ~dirty
  <2>1. drain' = [drain EXCEPT ![d] = NoDrain] /\ inflight' = FALSE
    BY <1>8 DEF DrainEnds
  <2>2. /\ drain' \in [Drains -> Drain]
        /\ \A m : ~Pending(m)'
        /\ \A e \in Drains : ~active(e)'
    BY <1>1, <1>2, <2>1, NoDrainStep
  <2>3. DrainInv'
    BY <1>1, <1>2, <2>1, <2>2 DEF DrainInv, active, accepted, history
  <2>4. hinted \subseteq tried
    BY <1>1, <1>2, <1>4, <1>8 DEF HintInv
  <2>5. HintInv'
    BY <1>1, <2>4 DEF HintInv, history
  <2> QED
    BY <2>1, <2>2, <2>3, <2>5
<1> QED
  BY <1>7, <1>8

\* A stop loses the acceptance being awaited, and only that one.
LEMMA HostStopsStep ==
  ASSUME IInv, HostStops
  PROVE  IInv'
<1> DEFINE AcceptedFor(n) == {d \in Drains : drain[d].stage = "accepted" /\ head(d) = n}
<1>1. /\ faults' = faults + 1 /\ hostUp' = FALSE
      /\ ready' = FALSE /\ inflight' = FALSE /\ dirty' = FALSE
      /\ lost' = [n \in Msgs |-> lost[n] + Cardinality(AcceptedFor(n))]
      /\ drain' = [d \in Drains |-> NoDrain]
      /\ attempts' = [n \in Msgs |-> 0] /\ bounces' = 0
      /\ hinted' = {} /\ tried' = {}
      /\ UNCHANGED <<receipt, bounced, sends, failures>>
  BY DEF HostStops
<1>2. TypeOK /\ DrainInv /\ SendInv /\ RowsInv /\ ReceiptIsEarned
  BY DEF IInv
<1>3. /\ rows' \in SUBSET Msgs /\ due' \in SUBSET rows'
      /\ rows \subseteq rows' /\ \E k \in 0 .. N : rows' = 1 .. k
  <2>1. CASE UNCHANGED <<rows, due>>
    BY <1>2, <2>1 DEF TypeOK, RowsInv
  <2>2. CASE /\ Cardinality(rows) + 1 \in Msgs /\ rows' = rows \cup {Cardinality(rows) + 1}
             /\ due' \in {due, due \cup {Cardinality(rows) + 1}}
    <3>1. \E k \in 0 .. N : rows' = 1 .. k
      BY <1>2, <2>2, NextRow
    <3>2. rows' \in SUBSET Msgs /\ due' \in SUBSET rows' /\ rows \subseteq rows'
      BY <1>2, <2>2 DEF TypeOK
    <3> QED
      BY <3>1, <3>2
  <2> QED
    BY <2>1, <2>2 DEF HostStops
<1>4. \A n \in Msgs : Cardinality(AcceptedFor(n)) = IF Pending(n) THEN 1 ELSE 0
  <2> SUFFICES ASSUME NEW n \in Msgs
               PROVE  Cardinality(AcceptedFor(n)) = IF Pending(n) THEN 1 ELSE 0
    OBVIOUS
  <2>1. CASE ~Pending(n)
    <3>1. AcceptedFor(n) = {}
      BY <2>1 DEF Pending, accepted
    <3> QED
      BY <2>1, <3>1, FS_EmptySet
  <2>2. CASE Pending(n)
    <3>1. PICK d \in Drains : accepted(d) /\ head(d) = n
      BY <2>2 DEF Pending
    <3>2. \A e \in Drains : accepted(e) => e = d
      BY <1>2, <3>1 DEF DrainInv, accepted, active
    <3>3. AcceptedFor(n) = {d}
      BY <3>1, <3>2 DEF accepted
    <3> QED
      BY <2>2, <3>3, FS_Singleton
  <2> QED
    BY <2>1, <2>2
<1> HIDE DEF AcceptedFor
<1>5. /\ lost' \in [Msgs -> Nat]
      /\ \A n \in Msgs : lost'[n] = IF Pending(n) THEN lost[n] + 1 ELSE lost[n]
  <2>1. \A n \in Msgs : lost[n] \in Nat
    BY <1>2 DEF TypeOK
  <2>2. \A n \in Msgs : lost[n] + Cardinality(AcceptedFor(n)) = IF Pending(n) THEN lost[n] + 1 ELSE lost[n]
    BY <1>4, <2>1
  <2> QED
    BY <1>1, <2>1, <2>2
<1>6. \A d \in Drains : ~active(d)' /\ ~accepted(d)'
  BY <1>1 DEF active, accepted, NoDrain
<1>7. TypeOK'
  <2>1. drain' \in [Drains -> [stage: {"none", "sending", "accepted"}, queue: SUBSET Msgs]]
    <3>1. NoDrain \in [stage: {"none", "sending", "accepted"}, queue: SUBSET Msgs]
      BY DEF NoDrain
    <3> QED
      BY <1>1, <3>1
  <2>2. attempts' \in [Msgs -> Nat] /\ bounces' \in 0 .. MaxBounceBacks /\ faults' \in Nat
    BY <1>1, <1>2, CountsAssumption DEF TypeOK
  <2>3. hostUp' \in BOOLEAN /\ ready' \in BOOLEAN /\ inflight' \in BOOLEAN /\ dirty' \in BOOLEAN
    BY <1>1
  <2>4. hinted' \in SUBSET Msgs /\ tried' \in SUBSET Msgs
    BY <1>1
  <2>5. UNCHANGED <<receipt, bounced, sends, failures>>
    BY <1>1
  <2> QED
    BY <1>2, <1>3, <1>5, <2>1, <2>2, <2>3, <2>4, <2>5 DEF TypeOK
<1>8. DrainInv' /\ HintInv'
  BY <1>1, <1>6 DEF DrainInv, HintInv
<1>9. SendInv'
  <2> SUFFICES ASSUME NEW m \in Msgs
               PROVE  /\ sends[m] <= 1 + lost'[m]
                      /\ receipt[m] = "none" => sends[m] <= lost'[m]
                      /\ attempts'[m] <= failures[m]
    BY <1>1, <1>6 DEF SendInv, Pending
  <2>1. sends[m] \in Nat /\ lost[m] \in Nat /\ failures[m] \in Nat /\ attempts'[m] = 0
    BY <1>1, <1>2 DEF TypeOK
  <2>2. /\ sends[m] <= 1 + lost[m]
        /\ receipt[m] = "none" /\ ~Pending(m) => sends[m] <= lost[m]
    BY <1>2 DEF SendInv
  <2> QED
    BY <1>5, <2>1, <2>2
<1>10. RowsInv' /\ ReceiptIsEarned'
  BY <1>1, <1>2, <1>3 DEF RowsInv, ReceiptIsEarned
<1> QED
  BY <1>7, <1>8, <1>9, <1>10 DEF IInv

LEMMA NextIInv == IInv /\ [Next]_vars => IInv'
<1> SUFFICES ASSUME IInv, [Next]_vars PROVE IInv'
  OBVIOUS
<1>1. ASSUME NEW now \in BOOLEAN, Commit(now) PROVE IInv'
  BY <1>1, CommitStep
<1>2. CASE (\E m \in Msgs : BecomesDue(m)) \/ AdapterReady \/ HostStarts \/ UNCHANGED vars
  BY <1>2, OutsideSteps
<1>3. CASE Scan
  BY <1>3, ScanStep
<1>4. ASSUME NEW d \in Drains, ChannelAccepts(d) PROVE IInv'
  BY <1>4, ChannelAcceptsStep
<1>5. ASSUME NEW d \in Drains, RecordDelivered(d) PROVE IInv'
  BY <1>5, RecordDeliveredStep
<1>6. ASSUME NEW d \in Drains, SendFails(d) \/ RecordFails(d) PROVE IInv'
  BY <1>6, FailureSteps
<1>7. ASSUME NEW d \in Drains, DrainThrows(d) PROVE IInv'
  BY <1>7, DrainThrowsStep
<1>8. ASSUME NEW d \in Drains, DrainEnds(d) PROVE IInv'
  BY <1>8, DrainEndsStep
<1>9. CASE HostStops
  BY <1>9, HostStopsStep
<1> QED
  BY <1>1, <1>2, <1>3, <1>4, <1>5, <1>6, <1>7, <1>8, <1>9 DEF Next

-----------------------------------------------------------------------------
\* The inductive invariant holds in every reachable state.
THEOREM IInvAlways == Spec => []IInv
<1> QED
  BY InitIInv, NextIInv, PTL DEF Spec

\* Every variable keeps its type.
THEOREM TypeOKAlways == Spec => []TypeOK
<1>1. IInv => TypeOK
  BY DEF IInv
<1> QED
  BY <1>1, IInvAlways, PTL

\* Overlapping commits, scans and re-drains of a session (inflightDeliveries,
\* dirtyDeliveries) never send a message again: only an acceptance whose
\* markDelivered was lost to a stop or a failed write is repeated.
THEOREM NoDuplicateSendAlways == Spec => []NoDuplicateSend
<1>1. IInv => NoDuplicateSend
  BY DEF IInv, SendInv, NoDuplicateSend
<1> QED
  BY <1>1, IInvAlways, PTL

\* A message recorded as delivered was taken by the channel, one recorded as
\* failed has had its MAX_DELIVERY_ATTEMPTS failures, although deliveryAttempts
\* is forgotten at each stop.
THEOREM ReceiptIsEarnedAlways == Spec => []ReceiptIsEarned
<1>1. IInv => ReceiptIsEarned
  BY DEF IInv
<1> QED
  BY <1>1, IInvAlways, PTL

\* A commit that finds delivery ready has its message taken up before the
\* session has no drain: a call during a drain is not lost (dirtyDeliveries).
THEOREM HintIsNotLostAlways == Spec => []HintIsNotLost
<1>1. IInv => HintIsNotLost
  <2> SUFFICES ASSUME IInv, hostUp, ~inflight PROVE hinted \subseteq tried
    BY DEF HintIsNotLost
  <2> QED
    BY DEF IInv, HintInv
<1> QED
  BY <1>1, IInvAlways, PTL

-----------------------------------------------------------------------------
(* Refinement: delivery is an outbox. *)

\* The message m moves, and no other.
LEMMA OneMoves ==
  ASSUME NEW m \in Msgs, NEW from, NEW to, Fate[m] = from, Fate'[m] = to,
         \A n \in Msgs : n # m => Fate'[n] = Fate[n]
  PROVE  Out!Move(m, from, to)
<1>1. DOMAIN Fate = Msgs /\ Fate = [n \in Msgs |-> Fate[n]]
  BY DEF Fate
<1>2. Fate' = [n \in Msgs |-> Fate'[n]]
  BY DEF Fate
<1> QED
  BY <1>1, <1>2 DEF Out!Move

LEMMA NothingMoves ==
  ASSUME \A m \in Msgs : Fate'[m] = Fate[m], UNCHANGED <<sends, lost>>
  PROVE  UNCHANGED Out!vars
<1>1. Fate = [n \in Msgs |-> Fate[n]] /\ Fate' = [n \in Msgs |-> Fate'[n]]
  BY DEF Fate
<1> QED
  BY <1>1 DEF Out!vars

\* A step that changes no receipt and awaits the same acceptances.
LEMMA SameFates ==
  ASSUME \A m \in Msgs : receipt'[m] = receipt[m] /\ (Pending(m)' <=> Pending(m)),
         UNCHANGED <<sends, lost>>
  PROVE  UNCHANGED Out!vars
<1>1. \A m \in Msgs : Fate'[m] = Fate[m]
  BY DEF Fate
<1> QED
  BY <1>1, NothingMoves

\* While the head of a drain is under way, its receipt is still to come and
\* no other message is under way.
LEMMA HeadFate ==
  ASSUME IInv, NEW d \in Drains, active(d), drain[d].queue # {}
  PROVE  /\ head(d) \in Msgs
         /\ Fate[head(d)] = IF accepted(d) THEN "accepted" ELSE "waiting"
         /\ receipt[head(d)] = "none"
         /\ \A m \in Msgs : Pending(m) <=> accepted(d) /\ m = head(d)
<1>1. TypeOK /\ DrainInv
  BY DEF IInv
<1>2. head(d) \in drain[d].queue /\ head(d) \in Msgs
  BY <1>1, HeadIsQueued
<1>3. receipt[head(d)] = "none"
  BY <1>1, <1>2 DEF DrainInv
<1>4. \A m \in Msgs : Pending(m) <=> accepted(d) /\ m = head(d)
  BY <1>1 DEF Pending, DrainInv, accepted, active
<1> QED
  BY <1>2, <1>3, <1>4 DEF Fate

LEMMA DeliverFates ==
  ASSUME IInv, (\E now \in BOOLEAN : Commit(now)) \/ Scan
  PROVE  UNCHANGED Out!vars
<1>1. PICK D \in SUBSET Msgs : /\ deliverSessionMessages(D) /\ D \subseteq rows'
                               /\ rows \subseteq rows' /\ hostUp
                               /\ UNCHANGED <<hostUp, ready, receipt, sends, lost>>
  <2>1. ASSUME NEW now \in BOOLEAN, Commit(now)
        PROVE  \E D \in SUBSET Msgs : /\ deliverSessionMessages(D) /\ D \subseteq rows'
                                      /\ rows \subseteq rows' /\ hostUp
                                      /\ UNCHANGED <<hostUp, ready, receipt, sends, lost>>
    <3> DEFINE D == IF now THEN due \cup {Cardinality(rows) + 1} ELSE due
    <3>1. D \in SUBSET Msgs /\ D \subseteq rows' /\ rows \subseteq rows'
      BY <2>1 DEF Commit, IInv, TypeOK
    <3> QED
      BY <2>1, <3>1 DEF Commit
  <2>2. CASE Scan
    BY <2>2 DEF Scan, disk, history, IInv, TypeOK
  <2> QED
    BY <2>1, <2>2
<1>2. \A m : Pending(m)' <=> Pending(m)
  BY <1>1, DeliverStep DEF IInv
<1> QED
  BY <1>1, <1>2, SameFates

LEMMA OutsideFates ==
  ASSUME IInv, (\E m \in Msgs : BecomesDue(m)) \/ AdapterReady \/ HostStarts \/ UNCHANGED vars
  PROVE  UNCHANGED Out!vars
<1>1. UNCHANGED <<receipt, drain, sends, lost>>
  BY DEF BecomesDue, AdapterReady, HostStarts, vars, disk, memory, history
<1>2. \A m : Pending(m)' <=> Pending(m)
  BY <1>1 DEF Pending, accepted, head
<1> QED
  BY <1>1, <1>2, SameFates

LEMMA AcceptFates ==
  ASSUME IInv, NEW d \in Drains, ChannelAccepts(d)
  PROVE  Out!Accept(head(d))
<1>1. /\ active(d) /\ ~accepted(d) /\ drain[d].queue # {}
      /\ drain' = [drain EXCEPT ![d].stage = "accepted"]
      /\ sends' = [sends EXCEPT ![head(d)] = @ + 1]
      /\ UNCHANGED <<receipt, lost>>
  BY DEF ChannelAccepts, sending, active, accepted, disk
<1>2. /\ head(d) \in Msgs /\ Fate[head(d)] = "waiting" /\ receipt[head(d)] = "none"
      /\ \A m \in Msgs : ~Pending(m)
  BY <1>1, HeadFate
<1>3. drain \in [Drains -> Drain] /\ \A e \in Drains : ~accepted(e)
  BY <1>1 DEF IInv, TypeOK, Drain, DrainInv, accepted, active
<1>4. \A e \in Drains : (accepted(e)' <=> e = d) /\ head(e)' = head(e)
  BY <1>1, <1>3 DEF accepted, head, Drain
<1>5. \A m \in Msgs : Pending(m)' <=> m = head(d)
  BY <1>4 DEF Pending
<1>6. /\ Fate'[head(d)] = "accepted"
      /\ \A n \in Msgs : n # head(d) => Fate'[n] = Fate[n]
  BY <1>1, <1>2, <1>5 DEF Fate
<1>7. \A n \in Msgs : Fate[n] # "accepted"
  BY <1>2 DEF Fate, IInv, TypeOK
<1> QED
  BY <1>1, <1>2, <1>6, <1>7, OneMoves DEF Out!Accept

LEMMA ConfirmFates ==
  ASSUME IInv, NEW d \in Drains, RecordDelivered(d)
  PROVE  Out!Confirm(head(d))
<1>1. /\ active(d) /\ accepted(d) /\ drain[d].queue # {}
      /\ drain' = [drain EXCEPT ![d] = next(d)]
      /\ receipt' = [receipt EXCEPT ![head(d)] = IF @ = "none" THEN "delivered" ELSE @]
      /\ UNCHANGED <<sends, lost>>
  BY AcceptedHead DEF RecordDelivered, accepted, history
<1>2. /\ head(d) \in Msgs /\ Fate[head(d)] = "accepted" /\ receipt[head(d)] = "none"
      /\ \A m \in Msgs : Pending(m) => m = head(d)
  BY <1>1, HeadFate
<1>3. \A m : ~Pending(m)'
  BY <1>1, NextStep DEF IInv
<1>4. \A m \in Msgs : receipt'[m] = IF m = head(d) THEN "delivered" ELSE receipt[m]
  BY <1>1, <1>2 DEF IInv, TypeOK
<1>5. /\ Fate'[head(d)] = "delivered"
      /\ \A n \in Msgs : n # head(d) => Fate'[n] = Fate[n]
  BY <1>2, <1>3, <1>4 DEF Fate
<1> QED
  BY <1>1, <1>2, <1>5, OneMoves DEF Out!Confirm

LEMMA FailureFates ==
  ASSUME IInv, NEW d \in Drains, SendFails(d) \/ RecordFails(d) \/ DrainThrows(d)
  PROVE  Out!Lose(head(d)) \/ Out!GiveUp(head(d)) \/ UNCHANGED Out!vars
<1>0. TypeOK /\ DrainInv
  BY DEF IInv
<1>1. /\ active(d) /\ drain[d].queue # {} /\ sends' = sends
      /\ drain' = [drain EXCEPT ![d] = next(d)] \/ drain' = [drain EXCEPT ![d] = NoDrain]
      /\ \/ receipt' = receipt
         \/ receipt' = [receipt EXCEPT ![head(d)] = IF @ = "none" THEN "failed" ELSE @]
      /\ lost' = IF accepted(d) THEN [lost EXCEPT ![head(d)] = @ + 1] ELSE lost
  <2>1. CASE SendFails(d)
    BY <2>1 DEF SendFails, sending, active, accepted, Caught
  <2>2. CASE RecordFails(d)
    BY <2>2, AcceptedHead DEF RecordFails, accepted, Caught
  <2>3. CASE DrainThrows(d)
    <3>1. /\ sends' = sends /\ receipt' = receipt
          /\ drain' = [drain EXCEPT ![d] = NoDrain]
          /\ lost' = [lost EXCEPT ![head(d)] = IF accepted(d) THEN @ + 1 ELSE @]
          /\ sending(d) \/ accepted(d)
      BY <2>3 DEF DrainThrows, disk, accepted
    <3>2. active(d) /\ drain[d].queue # {}
      BY <3>1, AcceptedHead DEF sending, active, accepted
    <3>3. lost \in [Msgs -> Nat] /\ head(d) \in Msgs
      BY <1>0, <3>2, HeadFate DEF TypeOK
    <3>4. lost' = IF accepted(d) THEN [lost EXCEPT ![head(d)] = @ + 1] ELSE lost
      BY <3>1, <3>3
    <3> QED
      BY <3>1, <3>2, <3>4
  <2> QED
    BY <2>1, <2>2, <2>3
<1>2. /\ head(d) \in Msgs /\ Fate[head(d)] = IF accepted(d) THEN "accepted" ELSE "waiting"
      /\ receipt[head(d)] = "none"
      /\ \A m \in Msgs : Pending(m) <=> accepted(d) /\ m = head(d)
  BY <1>1, HeadFate
<1>3. \A m : ~Pending(m)'
  BY <1>0, <1>1, NextStep, NoDrainStep
<1>4. /\ receipt'[head(d)] \in {"none", "failed"}
      /\ \A m \in Msgs : m # head(d) => receipt'[m] = receipt[m]
  BY <1>0, <1>1, <1>2 DEF TypeOK
<1>5. /\ Fate'[head(d)] = IF receipt'[head(d)] = "failed" THEN "failed" ELSE "waiting"
      /\ \A n \in Msgs : n # head(d) => Fate'[n] = Fate[n]
  BY <1>2, <1>3, <1>4 DEF Fate
<1>6. CASE accepted(d)
  <2>1. \E to \in {"waiting", "failed"} : Out!Move(head(d), "accepted", to)
    BY <1>2, <1>5, <1>6, OneMoves
  <2> QED
    BY <1>1, <1>6, <2>1 DEF Out!Lose
<1>7. CASE ~accepted(d) /\ receipt'[head(d)] = "failed"
  <2>1. Out!Move(head(d), "waiting", "failed")
    BY <1>2, <1>5, <1>7, OneMoves
  <2> QED
    BY <1>1, <1>7, <2>1 DEF Out!GiveUp
<1>8. CASE ~accepted(d) /\ receipt'[head(d)] = "none"
  <2>1. \A n \in Msgs : Fate'[n] = Fate[n]
    BY <1>2, <1>5, <1>8
  <2> QED
    BY <1>1, <1>8, <2>1, NothingMoves
<1> QED
  BY <1>4, <1>6, <1>7, <1>8

LEMMA DrainEndsFates ==
  ASSUME IInv, NEW d \in Drains, DrainEnds(d)
  PROVE  UNCHANGED Out!vars
<1>1. /\ active(d) /\ ~accepted(d) /\ drain[d].queue = {}
      /\ UNCHANGED <<receipt, sends, lost>>
      /\ \/ drain' = [drain EXCEPT ![d] = DrainOf(due)]
         \/ drain' = [drain EXCEPT ![d] = NoDrain]
  BY DEF DrainEnds, active, accepted, disk, history
<1>2. drain \in [Drains -> Drain]
  BY DEF IInv, TypeOK, Drain
<1>3. \A e \in Drains : ~accepted(e)
  BY <1>1 DEF IInv, DrainInv, accepted, active
<1>4. \A e \in Drains : ~accepted(e)'
  BY <1>1, <1>2, <1>3 DEF accepted, DrainOf, NoDrain
<1>5. \A m : Pending(m)' <=> Pending(m)
  BY <1>3, <1>4 DEF Pending
<1> QED
  BY <1>1, <1>5, SameFates

\* A stop loses the acceptance being awaited, if there is one.
LEMMA StopFates ==
  ASSUME IInv, HostStops
  PROVE  (\E m \in Msgs : Out!Lose(m)) \/ UNCHANGED Out!vars
<1>0. TypeOK /\ DrainInv
  BY DEF IInv
<1>1. /\ drain' = [d \in Drains |-> NoDrain]
      /\ lost' = [n \in Msgs |-> lost[n] + Cardinality({d \in Drains : drain[d].stage = "accepted" /\ head(d) = n})]
      /\ UNCHANGED <<receipt, sends>>
  BY DEF HostStops
<1>2. \A m : ~Pending(m)'
  BY <1>1 DEF Pending, accepted, NoDrain
<1>3. CASE \E d \in Drains : accepted(d)
  <2>1. PICK d \in Drains : accepted(d)
    BY <1>3
  <2>2. active(d) /\ drain[d].queue # {}
    BY <2>1, AcceptedHead DEF accepted
  <2>3. /\ head(d) \in Msgs /\ Fate[head(d)] = "accepted" /\ receipt[head(d)] = "none"
        /\ \A m \in Msgs : Pending(m) <=> m = head(d)
    BY <2>1, <2>2, HeadFate
  <2>4. \A n \in Msgs : {e \in Drains : drain[e].stage = "accepted" /\ head(e) = n}
                          = IF n = head(d) THEN {d} ELSE {}
    BY <1>0, <2>1, <2>2 DEF DrainInv, accepted, active
  <2>5. \A n \in Msgs : lost[n] \in Nat
    BY <1>0 DEF TypeOK
  <2>6. \A n \in Msgs : lost'[n] = IF n = head(d) THEN lost[n] + 1 ELSE lost[n]
    <3>1. Cardinality({}) = 0 /\ Cardinality({d}) = 1
      BY FS_EmptySet, FS_Singleton
    <3>2. ASSUME NEW n \in Msgs
          PROVE  lost'[n] = lost[n] + IF n = head(d) THEN 1 ELSE 0
      <4>1. lost'[n] = lost[n] + Cardinality({e \in Drains : drain[e].stage = "accepted" /\ head(e) = n})
        BY <1>1
      <4> QED
        BY <2>4, <3>1, <4>1
    <3> QED
      BY <2>5, <3>2
  <2>7. lost' = [lost EXCEPT ![head(d)] = @ + 1]
    BY <1>0, <1>1, <2>6 DEF TypeOK
  <2>8. /\ Fate'[head(d)] = "waiting"
        /\ \A n \in Msgs : n # head(d) => Fate'[n] = Fate[n]
    BY <1>1, <1>2, <2>3 DEF Fate
  <2>9. Out!Move(head(d), "accepted", "waiting")
    BY <2>3, <2>8, OneMoves
  <2> QED
    BY <1>1, <2>3, <2>7, <2>9 DEF Out!Lose
<1>4. CASE \A d \in Drains : ~accepted(d)
  <2>1. \A n \in Msgs : {d \in Drains : drain[d].stage = "accepted" /\ head(d) = n} = {}
    BY <1>4 DEF accepted
  <2>2. \A n \in Msgs : lost[n] \in Nat /\ lost'[n] = lost[n]
    BY <1>0, <1>1, <2>1, FS_EmptySet DEF TypeOK
  <2>3. lost' = lost
    BY <1>0, <1>1, <2>2 DEF TypeOK
  <2>4. \A m : ~Pending(m)
    BY <1>4 DEF Pending
  <2> QED
    BY <1>1, <1>2, <2>3, <2>4, SameFates
<1> QED
  BY <1>3, <1>4

LEMMA OutStep ==
  ASSUME IInv, [Next]_vars
  PROVE  [Out!Next]_(Out!vars)
<1>1. CASE (\E now \in BOOLEAN : Commit(now)) \/ Scan
  BY <1>1, DeliverFates
<1>2. CASE (\E m \in Msgs : BecomesDue(m)) \/ AdapterReady \/ HostStarts \/ UNCHANGED vars
  BY <1>2, OutsideFates
<1>3. ASSUME NEW d \in Drains, active(d), drain[d].queue # {}
      PROVE  head(d) \in Msgs
  BY <1>3, HeadFate
<1>4. ASSUME NEW d \in Drains, ChannelAccepts(d) \/ RecordDelivered(d)
      PROVE  Out!Next
  <2>1. active(d) /\ drain[d].queue # {}
    BY <1>4, AcceptedHead DEF ChannelAccepts, RecordDelivered, sending, active
  <2> QED
    BY <1>3, <1>4, <2>1, AcceptFates, ConfirmFates DEF Out!Next
<1>5. ASSUME NEW d \in Drains, SendFails(d) \/ RecordFails(d) \/ DrainThrows(d)
      PROVE  Out!Next \/ UNCHANGED Out!vars
  <2>1. active(d) /\ drain[d].queue # {}
    BY <1>5, AcceptedHead DEF SendFails, RecordFails, DrainThrows, sending, active
  <2> QED
    BY <1>3, <1>5, <2>1, FailureFates DEF Out!Next
<1>6. ASSUME NEW d \in Drains, DrainEnds(d) PROVE UNCHANGED Out!vars
  BY <1>6, DrainEndsFates
<1>7. CASE HostStops
  BY <1>7, StopFates DEF Out!Next
<1> QED
  BY <1>1, <1>2, <1>4, <1>5, <1>6, <1>7 DEF Next

\* Every behaviour of delivery is one of the outbox: each acceptance of the
\* channel is receipted or counted as lost, exactly once, one at a time, and
\* a message that has its receipt is left alone, whatever drains, scans,
\* failed writes and stops there are.
THEOREM OutboxRefinement == Spec => ImplementsOutbox
<1>1. Init => Out!Init
  BY DEF Init, Out!Init, Fate, Pending, accepted, NoDrain
<1>2. IInv /\ [Next]_vars => [Out!Next]_(Out!vars)
  BY OutStep
<1> QED
  BY <1>1, <1>2, IInvAlways, PTL DEF Spec, ImplementsOutbox, Out!Spec
=============================================================================
