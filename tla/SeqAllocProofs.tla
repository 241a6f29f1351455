--------------------------- MODULE SeqAllocProofs ---------------------------
(***************************************************************************)
(* For every value of the constants: a number names one message on both    *)
(* sides of the session link, and an output is rejected only above a       *)
(* number the host used for no row.                                        *)
(***************************************************************************)
EXTENDS SeqAlloc, TLAPS

HostRows == hostIn \cup hostOut

\* The counter is above every even number in use, and the number of a
\* pending insertion is in no row yet.
EvenBound ==
  /\ Even(lastEven)
  /\ \A h \in HostRows : Even(h.seq) => h.seq <= lastEven
  /\ \A h \in hostIn : Even(h.seq)
  /\ op # NoOp => op.seq = lastEven /\ \A h \in HostRows : h.seq # lastEven

HostUnique == \A g, h \in HostRows : g.seq = h.seq => g.id = h.id

\* What the runner knows of the host's rows comes from the host's rows, and
\* its floor and the floors on the way are even numbers allocated before.
InFlight ==
  /\ runIn \subseteq hostIn
  /\ Even(floor) /\ floor <= lastEven
  /\ \A i \in 1 .. Len(hostEvents) :
       /\ hostEvents[i].type = "row" => hostEvents[i].row \in hostIn
       /\ hostEvents[i].type = "floor" =>
            Even(hostEvents[i].seq) /\ hostEvents[i].seq <= lastEven

\* The runner's outputs are the host's copies of them and, above these, in
\* increasing order, the ones in its journal.
Outputs ==
  /\ \A r \in runOut : r \in hostOut \/ (\E i \in 1 .. Len(runEvents) : r = runEvents[i])
  /\ \A h \in hostOut : ~Even(h.seq) => h \in runOut
  /\ \A i \in 1 .. Len(runEvents) :
       /\ runEvents[i] \in runOut
       /\ ~Even(runEvents[i].seq)
       /\ \A h \in hostOut : ~Even(h.seq) => h.seq < runEvents[i].seq
  /\ \A i, j \in 1 .. Len(runEvents) : i < j => runEvents[i].seq < runEvents[j].seq

\* Every journaled output is the number after one that is allocated, that
\* the host has, or that is before it in the journal.
NoGaps ==
  \A i \in 1 .. Len(runEvents) :
    \/ runEvents[i].seq <= lastEven + 1
    \/ \E h \in hostOut : ~Even(h.seq) /\ runEvents[i].seq <= h.seq + 2
    \/ \E j \in 1 .. i - 1 : runEvents[i].seq <= runEvents[j].seq + 2

IInv == TypeOK /\ EvenBound /\ HostUnique /\ InFlight /\ Outputs /\ NoGaps

-----------------------------------------------------------------------------
\* The parity of a number and of the ones next to it
LEMMA Parity ==
  ASSUME NEW n \in Nat
  PROVE  /\ Even(n) => Even(n + 2) /\ ~Even(n + 1)
         /\ ~Even(n) => ~Even(n + 2) /\ Even(n + 1)
BY SMT DEF Even

\* NextOdd returns an odd number, by one or two above its argument.
LEMMA NextOddIsOdd ==
  ASSUME NEW m \in Nat
  PROVE  /\ NextOdd(m) \in Nat /\ ~Even(NextOdd(m)) /\ m < NextOdd(m)
         /\ Even(m) => NextOdd(m) = m + 1
         /\ ~Even(m) => NextOdd(m) = m + 2
BY Parity DEF NextOdd

\* Rows and journaled rows have natural numbers as their numbers.
LEMMA SeqsAreNat ==
  ASSUME TypeOK
  PROVE  /\ \A h \in hostIn \cup hostOut \cup runIn \cup runOut : h \in Row /\ h.seq \in Nat
         /\ Len(runEvents) \in Nat /\ Len(hostEvents) \in Nat
         /\ \A i \in 1 .. Len(runEvents) : runEvents[i] \in Row /\ runEvents[i].seq \in Nat
<1>1. \A i \in 1 .. Len(runEvents) : runEvents[i] \in Row
  <2>1. runEvents \in Seq(Row)
    BY DEF TypeOK
  <2> QED BY <2>1
<1>2. \A r \in Row : r.seq \in Nat
  BY DEF Row
<1>3. Len(runEvents) \in Nat /\ Len(hostEvents) \in Nat
  BY DEF TypeOK
<1> QED BY <1>1, <1>2, <1>3 DEF TypeOK

LEMMA InitIInv == Init => IInv
BY DEF Init, IInv, TypeOK, EvenBound, HostRows, HostUnique, InFlight, Outputs, NoGaps, Even

LEMMA AllocateIInv ==
  ASSUME IInv, NEW table \in {"in", "out"}, NEW id \in HostIds, Allocate(table, id)
  PROVE  IInv'
<1> USE DEF IInv
<1>0. lastEven \in Nat /\ lastEven' = lastEven + 2 /\ lastEven' \in Nat /\ Even(lastEven')
  BY Parity DEF TypeOK, EvenBound, Allocate, NextEven
<1>1. \A h \in HostRows : h.seq \in Nat
  BY DEF HostRows, TypeOK, Row
<1>2. TypeOK'
  <2>1. Floor(lastEven') \in HostEvent
    BY <1>0 DEF Floor, HostEvent
  <2>2. op' \in Op
    BY <1>0 DEF Allocate, Op, NextEven
  <2> QED BY <1>0, <2>1, <2>2 DEF TypeOK, Allocate, NextEven, runnerVars
<1>3. HostRows' = HostRows
  BY DEF Allocate, HostRows
<1>4. EvenBound'
  <2>1. \A h \in HostRows : Even(h.seq) => h.seq <= lastEven
    BY DEF EvenBound
  <2>2. \A h \in HostRows : h.seq # lastEven'
    BY <1>0, <1>1, <2>1
  <2>3. op'.seq = lastEven'
    BY DEF Allocate
  <2> QED BY <1>0, <1>1, <1>3, <2>1, <2>2, <2>3 DEF EvenBound, Allocate
<1>5. HostUnique'
  BY <1>3 DEF HostUnique
<1>6. InFlight'
  <2>1. hostEvents' = Append(hostEvents, Floor(lastEven')) /\ hostEvents \in Seq(HostEvent)
    BY <1>0 DEF Allocate, NextEven, TypeOK
  <2>2. ASSUME NEW i \in 1 .. Len(hostEvents')
        PROVE  \/ hostEvents'[i] = hostEvents[i] /\ i \in 1 .. Len(hostEvents)
               \/ hostEvents'[i] = Floor(lastEven')
    BY <2>1
  <2>3. \A i \in 1 .. Len(hostEvents) : hostEvents[i].type = "floor" => hostEvents[i].seq \in Nat
    BY <2>1 DEF HostEvent
  <2>4. ASSUME NEW i \in 1 .. Len(hostEvents')
        PROVE  /\ hostEvents'[i].type = "row" => hostEvents'[i].row \in hostIn'
               /\ hostEvents'[i].type = "floor" =>
                    Even(hostEvents'[i].seq) /\ hostEvents'[i].seq <= lastEven'
    <3>1. CASE hostEvents'[i] = hostEvents[i] /\ i \in 1 .. Len(hostEvents)
      BY <1>0, <2>3, <3>1 DEF InFlight, Allocate
    <3>2. CASE hostEvents'[i] = Floor(lastEven')
      BY <1>0, <3>2 DEF Floor
    <3> QED BY <2>2, <3>1, <3>2
  <2>5. floor \in Nat /\ floor' = floor
    BY DEF TypeOK, Allocate, runnerVars
  <2> QED BY <1>0, <2>4, <2>5 DEF InFlight, Allocate, runnerVars
<1>7. Outputs'
  BY DEF Outputs, Allocate, runnerVars
<1>8. NoGaps'
  <2>1. runEvents' = runEvents /\ hostOut' = hostOut
    BY DEF Allocate, runnerVars
  <2>2. \A i \in 1 .. Len(runEvents) : runEvents[i].seq \in Nat
    BY SeqsAreNat
  <2>3. ASSUME NEW i \in 1 .. Len(runEvents), runEvents[i].seq <= lastEven + 1
        PROVE  runEvents[i].seq <= lastEven' + 1
    BY <1>0, <2>2, <2>3
  <2> HIDE DEF IInv
  <2>4. NoGaps
    BY DEF IInv
  <2> QED BY <2>1, <2>3, <2>4 DEF NoGaps
<1> QED BY <1>2, <1>4, <1>5, <1>6, <1>7, <1>8

\* A row with the pending number has a number no row has.
LEMMA InsertIInv ==
  ASSUME IInv, op # NoOp, op' = NoOp, lastEven' = lastEven,
         UNCHANGED <<runnerVars, forks>>,
         NEW r, r = [id |-> op.id, seq |-> op.seq],
         \/ /\ hostIn' = hostIn \cup {r} /\ hostOut' = hostOut
            /\ hostEvents' = Append(hostEvents, Upsert(r))
         \/ /\ hostOut' = hostOut \cup {r} /\ hostIn' = hostIn
            /\ hostEvents' = hostEvents
         \/ UNCHANGED <<hostIn, hostOut, hostEvents>>
  PROVE  IInv'
<1>1. /\ r \in Row /\ r.seq = lastEven /\ Even(r.seq)
      /\ \A h \in HostRows : h.seq # r.seq
  BY DEF IInv, TypeOK, Op, Row, EvenBound
<1>2. HostRows' \subseteq HostRows \cup {r} /\ hostIn' \subseteq hostIn \cup {r}
      /\ hostOut' \subseteq hostOut \cup {r}
      /\ hostIn \subseteq hostIn' /\ hostOut \subseteq hostOut'
  BY DEF HostRows
<1>3. /\ hostEvents' \in Seq(HostEvent)
      /\ \A i \in 1 .. Len(hostEvents') :
           \/ i \in 1 .. Len(hostEvents) /\ hostEvents'[i] = hostEvents[i]
           \/ hostEvents'[i] = Upsert(r) /\ r \in hostIn'
  <2>1. hostEvents \in Seq(HostEvent) /\ Upsert(r) \in HostEvent
    BY <1>1 DEF IInv, TypeOK, Upsert, HostEvent
  <2>2. CASE hostIn' = hostIn \cup {r} /\ hostEvents' = Append(hostEvents, Upsert(r))
    BY <2>1, <2>2
  <2>3. CASE hostEvents' = hostEvents
    BY <2>1, <2>3
  <2> QED BY <2>2, <2>3
<1>4. TypeOK'
  BY <1>1, <1>2, <1>3 DEF IInv, TypeOK, runnerVars
<1>5. EvenBound'
  <2>1. lastEven \in Nat /\ Even(lastEven)
    BY DEF IInv, TypeOK
  <2> QED BY <1>1, <1>2, <2>1 DEF IInv, EvenBound
<1>6. HostUnique'
  BY <1>1, <1>2 DEF IInv, HostUnique
<1>7. InFlight'
  <2>1. Upsert(r).type = "row" /\ Upsert(r).row = r
    BY DEF Upsert
  <2>2. InFlight
    BY DEF IInv
  <2> QED BY <1>2, <1>3, <2>1, <2>2 DEF InFlight, runnerVars
<1>8. Outputs'
  BY <1>1, <1>2 DEF IInv, Outputs, runnerVars
<1>9. NoGaps'
  BY <1>2 DEF IInv, NoGaps, runnerVars
<1> QED BY <1>4, <1>5, <1>6, <1>7, <1>8, <1>9 DEF IInv

\* The next output gets a number above the ones the runner and the host's
\* copies have, and at most one odd number above.
LEMMA WriteIInv ==
  ASSUME IInv, NEW id \in RunnerIds, WriteMessageOut(id)
  PROVE  IInv'
<1>1. PICK m \in RunnerKnown \cup {0} :
        /\ IsMax(m, RunnerKnown)
        /\ runOut' = runOut \cup {[id |-> id, seq |-> RunnerSeq(m)]}
        /\ runEvents' = Append(runEvents, [id |-> id, seq |-> RunnerSeq(m)])
  BY DEF WriteMessageOut
<1> DEFINE r == [id |-> id, seq |-> RunnerSeq(m)]
           last == Len(runEvents)
<1>2. UNCHANGED <<hostIn, hostOut, lastEven, op, hostEvents, floor, runIn, forks>>
  BY DEF WriteMessageOut, hostVars
<1>3. m \in Nat /\ \A n \in RunnerKnown : n <= m
  <2>1. TypeOK
    BY DEF IInv
  <2>2. RunnerKnown \subseteq Nat
    BY <2>1, SeqsAreNat DEF RunnerKnown, Seqs, TypeOK
  <2> QED BY <1>1, <2>2 DEF IsMax
<1>4. r \in Row /\ ~Even(r.seq) /\ \A n \in RunnerKnown : n < r.seq
  <2>1. RunnerSeq(m) \in Nat /\ ~Even(RunnerSeq(m)) /\ m < RunnerSeq(m)
    BY <1>3, NextOddIsOdd DEF RunnerSeq
  <2>2. \A n \in RunnerKnown : n \in Nat
    BY SeqsAreNat DEF IInv, RunnerKnown, Seqs, TypeOK
  <2> QED BY <1>3, <2>1, <2>2 DEF Row
<1>5. \A s \in runOut : s.seq < r.seq
  BY <1>4 DEF RunnerKnown, Seqs
<1>6. /\ last \in Nat /\ runEvents \in Seq(Row) /\ runEvents' \in Seq(Row)
      /\ Len(runEvents') = last + 1 /\ runEvents'[last + 1] = r
      /\ \A i \in 1 .. last : runEvents'[i] = runEvents[i]
  BY <1>1, <1>4 DEF IInv, TypeOK
<1>7. TypeOK'
  BY <1>1, <1>2, <1>4, <1>6 DEF IInv, TypeOK
<1>8. EvenBound' /\ HostUnique' /\ InFlight'
  BY <1>2 DEF IInv, EvenBound, HostUnique, InFlight, HostRows
<1>9. Outputs'
  <2>1. Outputs
    BY DEF IInv
  <2>2. \A i \in 1 .. Len(runEvents') : i \in 1 .. last \/ i = last + 1
    BY <1>6
  <2>3. \A s \in runOut' : s \in hostOut' \/ \E i \in 1 .. Len(runEvents') : s = runEvents'[i]
    <3>1. \A s \in runOut : s \in hostOut \/ \E i \in 1 .. Len(runEvents') : s = runEvents'[i]
      BY <1>6, <2>1 DEF Outputs
    <3>2. last + 1 \in 1 .. Len(runEvents')
      BY <1>6
    <3> QED BY <1>1, <1>2, <1>6, <3>1, <3>2
  <2>4. \A h \in hostOut' : ~Even(h.seq) => h \in runOut' /\ h.seq < r.seq
    BY <1>1, <1>2, <1>5, <2>1 DEF Outputs
  <2>5. \A i \in 1 .. Len(runEvents') :
          /\ runEvents'[i] \in runOut'
          /\ ~Even(runEvents'[i].seq)
          /\ \A h \in hostOut' : ~Even(h.seq) => h.seq < runEvents'[i].seq
    BY <1>1, <1>2, <1>4, <1>6, <2>1, <2>2, <2>4 DEF Outputs
  <2>6. \A i \in 1 .. last : runEvents[i].seq < r.seq
    BY <1>5, <2>1 DEF Outputs
  <2>7. ASSUME NEW i \in 1 .. Len(runEvents'), NEW j \in 1 .. Len(runEvents'), i < j
        PROVE  runEvents'[i].seq < runEvents'[j].seq
    <3>1. i \in 1 .. last
      BY <1>6, <2>7
    <3>2. CASE j \in 1 .. last
      BY <1>6, <2>1, <2>7, <3>1, <3>2 DEF Outputs
    <3>3. CASE j = last + 1
      BY <1>6, <2>6, <3>1, <3>3
    <3> QED BY <2>2, <3>2, <3>3
  <2> QED BY <2>3, <2>4, <2>5, <2>7 DEF Outputs
<1>10. NoGaps'
  <2>1. NoGaps
    BY DEF IInv
  <2>2. \/ r.seq <= lastEven + 1
        \/ \E h \in hostOut : ~Even(h.seq) /\ r.seq <= h.seq + 2
        \/ \E j \in 1 .. last : r.seq <= runEvents[j].seq + 2
    <3>1. Even(m) => r.seq = m + 1
      BY <1>3, NextOddIsOdd DEF RunnerSeq
    <3>2. ~Even(m) => r.seq = m + 2
      BY <1>3, NextOddIsOdd DEF RunnerSeq
    <3>3. lastEven \in Nat /\ Even(0)
      BY DEF IInv, TypeOK, Even
    <3>4. CASE Even(m) /\ m <= lastEven
      BY <1>3, <3>1, <3>3, <3>4
    <3>5. CASE m = floor
      BY <3>4, <3>5 DEF IInv, InFlight
    <3>6. CASE m = 0
      BY <3>3, <3>4, <3>6
    <3>7. CASE \E h \in runIn \cup runOut : m = h.seq
      <4>1. PICK h \in runIn \cup runOut : m = h.seq
        BY <3>7
      <4>2. CASE h \in HostRows /\ Even(m)
        BY <3>4, <4>1, <4>2 DEF IInv, EvenBound
      <4>3. CASE h \in hostOut /\ ~Even(m)
        <5>1. h.seq + 2 = r.seq /\ r.seq \in Nat
          BY <1>3, <1>4, <3>2, <4>1, <4>3 DEF Row
        <5> QED BY <1>4, <4>1, <4>3, <5>1
      <4>4. CASE \E i \in 1 .. last : h = runEvents[i]
        <5>1. PICK i \in 1 .. last : h = runEvents[i]
          BY <4>4
        <5>2. ~Even(m)
          BY <4>1, <5>1 DEF IInv, Outputs
        <5> QED BY <1>3, <3>2, <4>1, <5>1, <5>2
      <4>5. CASE h \in runIn
        BY <4>1, <4>2, <4>5 DEF IInv, InFlight, EvenBound, HostRows
      <4>6. CASE h \in runOut
        BY <4>1, <4>2, <4>3, <4>4, <4>6 DEF IInv, Outputs, HostRows
      <4> QED BY <4>1, <4>5, <4>6
    <3> QED BY <1>1, <3>5, <3>6, <3>7 DEF RunnerKnown, Seqs
  <2>3. \A i \in 1 .. Len(runEvents') : i \in 1 .. last \/ i = last + 1
    BY <1>6
  <2>4. ASSUME NEW i \in 1 .. last
        PROVE  \/ runEvents'[i].seq <= lastEven' + 1
               \/ \E h \in hostOut' : ~Even(h.seq) /\ runEvents'[i].seq <= h.seq + 2
               \/ \E j \in 1 .. i - 1 : runEvents'[i].seq <= runEvents'[j].seq + 2
    <3>1. \A j \in 1 .. i - 1 : j \in 1 .. last
      BY <1>6
    <3> QED BY <1>2, <1>6, <2>1, <3>1 DEF NoGaps
  <2>5. ASSUME NEW i \in 1 .. Len(runEvents'), i = last + 1
        PROVE  \/ runEvents'[i].seq <= lastEven' + 1
               \/ \E h \in hostOut' : ~Even(h.seq) /\ runEvents'[i].seq <= h.seq + 2
               \/ \E j \in 1 .. i - 1 : runEvents'[i].seq <= runEvents'[j].seq + 2
    <3>1. i - 1 = last
      BY <1>6, <2>5
    <3> QED BY <1>2, <1>6, <2>2, <2>5, <3>1
  <2> QED BY <2>3, <2>4, <2>5 DEF NoGaps
<1> QED BY <1>7, <1>8, <1>9, <1>10 DEF IInv


\* The accepted head of the journal moves to the host's rows.
LEMMA ApplyMessageIInv ==
  ASSUME IInv, ApplyRunnerMessage
  PROVE  IInv'
<1> DEFINE r == Head(runEvents)
           last == Len(runEvents)
<1>1. /\ runEvents # <<>> /\ Acceptable(r.seq)
      /\ hostOut' = hostOut \cup {r} /\ runEvents' = Tail(runEvents)
      /\ UNCHANGED <<lastEven, hostIn, hostEvents, op, floor, runIn, runOut, forks>>
  BY DEF ApplyRunnerMessage
<1>2. /\ last \in Nat /\ last > 0 /\ Len(runEvents') = last - 1
      /\ runEvents' \in Seq(Row)
      /\ r = runEvents[1] /\ 1 \in 1 .. last
      /\ \A i \in 1 .. Len(runEvents') : i + 1 \in 1 .. last /\ runEvents'[i] = runEvents[i + 1]
  BY <1>1 DEF IInv, TypeOK
<1>3. r \in Row /\ ~Even(r.seq) /\ r \in runOut
  BY <1>2, SeqsAreNat DEF IInv, Outputs
<1>4. \A h \in HostRows' : h \in HostRows \/ h = r
  BY <1>1 DEF HostRows
<1>5. TypeOK'
  BY <1>1, <1>2, <1>3 DEF IInv, TypeOK
<1>6. EvenBound'
  BY <1>1, <1>3, <1>4, SeqsAreNat DEF IInv, EvenBound, ApplyRunnerMessage
<1>7. HostUnique'
  <2>1. \A h \in HostRows : h.seq # r.seq
    <3>1. \A h \in hostOut : ~Even(h.seq) => h.seq < r.seq
      BY <1>2 DEF IInv, Outputs
    <3>2. r.seq \in Nat
      BY <1>3 DEF Row
    <3> QED BY <1>3, <3>1, <3>2 DEF IInv, EvenBound, HostRows
  <2> QED BY <1>4, <2>1 DEF IInv, HostUnique
<1>8. InFlight'
  BY <1>1 DEF IInv, InFlight
<1>9. Outputs'
  <2>1. Outputs
    BY DEF IInv
  <2>2. \A s \in runOut' : s \in hostOut' \/ \E i \in 1 .. Len(runEvents') : s = runEvents'[i]
    <3>1. ASSUME NEW s \in runOut, NEW i \in 1 .. last, s = runEvents[i], s # r
          PROVE  \E k \in 1 .. Len(runEvents') : s = runEvents'[k]
      <4>1. i # 1 /\ i - 1 \in 1 .. Len(runEvents') /\ (i - 1) + 1 = i
        BY <1>2, <3>1
      <4> QED BY <1>2, <3>1, <4>1
    <3> QED BY <1>1, <2>1, <3>1 DEF Outputs
  <2>3. \A i \in 1 .. Len(runEvents') : r.seq < runEvents'[i].seq
    BY <1>2, <2>1 DEF Outputs
  <2>4. ASSUME NEW i \in 1 .. Len(runEvents'), NEW j \in 1 .. Len(runEvents'), i < j
        PROVE  runEvents'[i].seq < runEvents'[j].seq
    <3>1. i + 1 \in 1 .. last /\ j + 1 \in 1 .. last /\ i + 1 < j + 1
      BY <1>2, <2>4
    <3> QED BY <1>2, <2>1, <3>1 DEF Outputs
  <2> QED BY <1>1, <1>2, <1>3, <2>1, <2>2, <2>3, <2>4 DEF Outputs
<1>10. NoGaps'
  <2>1. ASSUME NEW i \in 1 .. Len(runEvents')
        PROVE  \/ runEvents'[i].seq <= lastEven' + 1
               \/ \E h \in hostOut' : ~Even(h.seq) /\ runEvents'[i].seq <= h.seq + 2
               \/ \E j \in 1 .. i - 1 : runEvents'[i].seq <= runEvents'[j].seq + 2
    <3>1. i + 1 \in 1 .. last /\ runEvents'[i] = runEvents[i + 1] /\ (i + 1) - 1 = i
      BY <1>2
    <3>2. \/ runEvents[i + 1].seq <= lastEven + 1
          \/ \E h \in hostOut : ~Even(h.seq) /\ runEvents[i + 1].seq <= h.seq + 2
          \/ \E j \in 1 .. i : runEvents[i + 1].seq <= runEvents[j].seq + 2
      BY <3>1 DEF IInv, NoGaps
    <3>3. ASSUME NEW j \in 1 .. i, runEvents[i + 1].seq <= runEvents[j].seq + 2
          PROVE  \/ runEvents[j] = r
                 \/ \E k \in 1 .. i - 1 : runEvents'[i].seq <= runEvents'[k].seq + 2
      <4>1. CASE j = 1
        BY <1>2, <4>1
      <4>2. CASE j # 1
        <5>1. j - 1 \in 1 .. i - 1 /\ j - 1 \in 1 .. Len(runEvents') /\ (j - 1) + 1 = j
          BY <1>2, <4>2
        <5> QED BY <1>2, <3>1, <3>3, <5>1
      <4> QED BY <4>1, <4>2
    <3> QED BY <1>1, <1>3, <3>1, <3>2, <3>3
  <2> QED BY <2>1 DEF NoGaps
<1> QED BY <1>5, <1>6, <1>7, <1>8, <1>9, <1>10 DEF IInv

LEMMA ApplyHostEventIInv ==
  ASSUME IInv, ApplyHostEvent
  PROVE  IInv'
<1> DEFINE e == Head(hostEvents)
<1>1. /\ hostEvents # <<>> /\ hostEvents' = Tail(hostEvents)
      /\ UNCHANGED <<lastEven, hostIn, hostOut, op, runOut, runEvents, forks>>
      /\ \/ /\ e.type = "floor"
            /\ floor' = IF e.seq > floor THEN e.seq ELSE floor
            /\ UNCHANGED runIn
         \/ /\ e.type = "row"
            /\ runIn' = {r \in runIn : r.id # e.row.id} \cup {e.row}
            /\ UNCHANGED floor
  BY DEF ApplyHostEvent
<1>2. /\ e \in HostEvent /\ e = hostEvents[1] /\ 1 \in 1 .. Len(hostEvents)
      /\ hostEvents' \in Seq(HostEvent)
      /\ \A i \in 1 .. Len(hostEvents') :
           i + 1 \in 1 .. Len(hostEvents) /\ hostEvents'[i] = hostEvents[i + 1]
  BY <1>1 DEF IInv, TypeOK
<1>3. /\ e.type = "floor" => e.seq \in Nat /\ Even(e.seq) /\ e.seq <= lastEven
      /\ e.type = "row" => e.row \in hostIn
  BY <1>2 DEF IInv, InFlight, HostEvent
<1>4. runIn' \subseteq hostIn /\ hostIn \subseteq Row
  BY <1>1, <1>3 DEF IInv, InFlight, TypeOK
<1>5. floor' \in Nat /\ Even(floor') /\ floor' <= lastEven
  BY <1>1, <1>3 DEF IInv, InFlight, TypeOK
<1>6. TypeOK'
  BY <1>1, <1>2, <1>4, <1>5 DEF IInv, TypeOK
<1>7. EvenBound' /\ HostUnique' /\ Outputs' /\ NoGaps'
  BY <1>1 DEF IInv, EvenBound, HostRows, HostUnique, Outputs, NoGaps
<1>8. InFlight'
  BY <1>1, <1>2, <1>4, <1>5 DEF IInv, InFlight
<1> QED BY <1>6, <1>7, <1>8 DEF IInv

\* A fork starts from copies of the host's rows on both sides.
LEMMA ForkIInv ==
  ASSUME IInv, Fork
  PROVE  IInv'
<1>1. PICK I \in SUBSET hostIn, O \in SUBSET hostOut, m \in 0 .. MaxSeq, n \in 0 .. MaxSeq :
        /\ IsMax(m, {k \in Seqs(I) \cup Seqs(O) : Even(k)})
        /\ \E rows \in [1 .. n -> I] :
             hostEvents' = Append([i \in 1 .. n |-> Upsert(rows[i])], Floor(m))
        /\ hostIn' = I /\ hostOut' = O /\ lastEven' = m /\ runOut' = O
  BY DEF Fork
<1>2. PICK rows \in [1 .. n -> I] :
        hostEvents' = Append([i \in 1 .. n |-> Upsert(rows[i])], Floor(m))
  BY <1>1
<1>3. /\ op = NoOp /\ op' = NoOp
      /\ floor' = 0 /\ runIn' = {} /\ runEvents' = <<>> /\ forks' = forks + 1
  BY DEF Fork
<1>4. m \in Nat /\ n \in Nat /\ Even(0)
  BY BoundsAssumption DEF Even
<1>5. Even(m) /\ \A h \in I \cup O : Even(h.seq) => h.seq <= m
  BY <1>1, <1>4 DEF IsMax, Seqs
<1>6. I \subseteq Row /\ O \subseteq Row /\ \A h \in I \cup O : h \in HostRows
  BY DEF IInv, TypeOK, HostRows
<1>7. /\ hostEvents' \in Seq(HostEvent)
      /\ \A i \in 1 .. Len(hostEvents') :
           \/ hostEvents'[i] = Floor(m)
           \/ \E r \in I : hostEvents'[i] = Upsert(r)
  <2> DEFINE s == [i \in 1 .. n |-> Upsert(rows[i])]
  <2>1. \A i \in 1 .. n : rows[i] \in I /\ s[i] = Upsert(rows[i]) /\ s[i] \in HostEvent
    BY <1>6 DEF Upsert, HostEvent
  <2>2. s \in Seq(HostEvent) /\ Len(s) = n
    BY <1>4, <2>1
  <2>3. Floor(m) \in HostEvent
    BY <1>4 DEF Floor, HostEvent
  <2>4. hostEvents' = Append(s, Floor(m))
    BY <1>2
  <2> HIDE DEF s
  <2>5. Len(hostEvents') = n + 1 /\ hostEvents'[n + 1] = Floor(m)
        /\ \A i \in 1 .. n : hostEvents'[i] = s[i]
    BY <2>2, <2>4
  <2>6. \A i \in 1 .. Len(hostEvents') : i \in 1 .. n \/ i = n + 1
    BY <1>4, <2>5
  <2> QED BY <2>1, <2>2, <2>3, <2>4, <2>5, <2>6
<1>8. TypeOK'
  BY <1>1, <1>3, <1>4, <1>5, <1>6, <1>7 DEF IInv, TypeOK
<1>9. EvenBound'
  BY <1>1, <1>3, <1>5, <1>6 DEF IInv, EvenBound, HostRows
<1>10. HostUnique'
  BY <1>1, <1>6 DEF IInv, HostUnique, HostRows
<1>11. InFlight'
  <2>1. /\ Floor(m).type = "floor" /\ Floor(m).seq = m
        /\ \A r \in I : Upsert(r).type = "row" /\ Upsert(r).row = r
    BY DEF Floor, Upsert
  <2> QED BY <1>1, <1>3, <1>4, <1>5, <1>7, <2>1 DEF InFlight
<1>12. Outputs' /\ NoGaps'
  BY <1>1, <1>3 DEF Outputs, NoGaps
<1> QED BY <1>8, <1>9, <1>10, <1>11, <1>12 DEF IInv

LEMMA NextIInv ==
  ASSUME IInv, [Next]_vars
  PROVE  IInv'
<1>1. CASE \E table \in {"in", "out"}, id \in HostIds : Allocate(table, id)
  BY <1>1, AllocateIInv
<1>2. CASE InsertIn
  BY <1>2, InsertIInv DEF InsertIn
<1>3. CASE InsertOut
  BY <1>3, InsertIInv DEF InsertOut
<1>4. CASE HostCrash
  BY <1>4, InsertIInv DEF HostCrash
<1>5. CASE ApplyRunnerMessage
  BY <1>5, ApplyMessageIInv
<1>6. CASE Fork
  BY <1>6, ForkIInv
<1>7. CASE ApplyHostEvent
  BY <1>7, ApplyHostEventIInv
<1>8. CASE \E id \in RunnerIds : WriteMessageOut(id)
  BY <1>8, WriteIInv
<1>9. CASE UNCHANGED vars
  BY <1>9 DEF vars, hostVars, runnerVars, IInv, TypeOK, EvenBound, HostRows, HostUnique,
              InFlight, Outputs, NoGaps
<1> QED BY <1>1, <1>2, <1>3, <1>4, <1>5, <1>6, <1>7, <1>8, <1>9 DEF Next, HostNext, RunnerNext

\* The inductive invariant holds: counter, floor, rows and both journals agree.
THEOREM IInvAlways == Spec => []IInv
BY InitIInv, NextIInv, PTL DEF Spec

\* Every reachable state of the databases and journals is well typed.
THEOREM TypeCorrect == Spec => []TypeOK
BY IInvAlways, PTL DEF IInv

-----------------------------------------------------------------------------
LEMMA IInvUnique ==
  ASSUME IInv
  PROVE  SeqNamesOneMessage
<1> SUFFICES ASSUME NEW r \in runIn \cup runOut, NEW h \in HostRows, r.seq = h.seq
             PROVE  r.id = h.id
  BY DEF SeqNamesOneMessage, HostRows
<1>1. CASE r \in HostRows
  BY <1>1 DEF IInv, HostUnique
<1>2. CASE r \in runIn
  BY <1>1, <1>2 DEF IInv, InFlight, HostRows
<1>3. ASSUME NEW i \in 1 .. Len(runEvents), r = runEvents[i]
      PROVE  FALSE
  <2>1. ~Even(r.seq) /\ (~Even(h.seq) /\ h \in hostOut => h.seq < r.seq)
    BY <1>3 DEF IInv, Outputs
  <2>2. h \in hostOut
    BY <2>1 DEF IInv, EvenBound, HostRows
  <2>3. h.seq \in Nat
    BY <2>2, SeqsAreNat DEF IInv
  <2> QED BY <2>1, <2>2, <2>3
<1> QED BY <1>1, <1>2, <1>3 DEF IInv, Outputs, HostRows

LEMMA IInvRejected ==
  ASSUME IInv
  PROVE  RejectedOnlyAboveUnusedNumber
<1> SUFFICES ASSUME runEvents # <<>>, ~Acceptable(Head(runEvents).seq)
             PROVE  lastEven > 0 /\ \A h \in HostRows : h.seq < lastEven
  BY DEF RejectedOnlyAboveUnusedNumber, NextOutputAccepted, HostRows
<1> DEFINE n == Head(runEvents).seq
<1>1. Head(runEvents) = runEvents[1] /\ 1 \in 1 .. Len(runEvents)
  BY DEF IInv, TypeOK
<1>2. ~Even(n) /\ \A h \in hostOut : ~Even(h.seq) => h.seq < n
  BY <1>1 DEF IInv, Outputs
<1>3. PICK m \in HostSeen \cup {0} : IsMax(m, HostSeen) /\ ~(n <= NextOdd(m))
  BY <1>2 DEF Acceptable
<1>4. /\ m \in Nat /\ n \in Nat /\ lastEven \in Nat
      /\ \A h \in HostRows : h.seq \in Nat /\ h.seq <= m
  <2>1. TypeOK
    BY DEF IInv
  <2>2. \A h \in HostRows : h.seq \in Nat /\ h.seq \in HostSeen
    BY <2>1, SeqsAreNat DEF HostRows, HostSeen, Seqs
  <2>3. m \in Nat
    BY <2>1, SeqsAreNat DEF HostSeen, Seqs
  <2>4. n \in Nat
    BY <1>1, <2>1, SeqsAreNat
  <2>5. \A k \in HostSeen : k <= m
    BY <1>3 DEF IsMax
  <2> QED BY <2>1, <2>2, <2>3, <2>4, <2>5 DEF TypeOK
<1>5. NextOdd(m) \in Nat /\ m + 1 <= NextOdd(m) /\ (~Even(m) => NextOdd(m) = m + 2)
  <2>1. NextOdd(m) \in Nat /\ m < NextOdd(m) /\ (~Even(m) => NextOdd(m) = m + 2)
    BY <1>4, NextOddIsOdd
  <2> QED BY <1>4, <2>1
<1>6. \A h \in hostOut : ~Even(h.seq) => h.seq + 2 <= NextOdd(m)
  <2>1. ASSUME NEW h \in hostOut, ~Even(h.seq)
        PROVE  h.seq + 2 <= NextOdd(m)
    <3>1. h.seq \in Nat /\ h.seq <= m
      BY <1>4 DEF HostRows
    <3>2. CASE h.seq = m
      BY <1>5, <2>1, <3>1, <3>2
    <3>3. CASE h.seq < m
      BY <1>4, <1>5, <3>1, <3>3
    <3> QED BY <1>4, <3>1, <3>2, <3>3
  <2> QED BY <2>1
<1>7. n <= lastEven + 1
  <2>1. \/ n <= lastEven + 1
        \/ \E h \in hostOut : ~Even(h.seq) /\ n <= h.seq + 2
    BY <1>1 DEF IInv, NoGaps
  <2>2. ASSUME NEW h \in hostOut, ~Even(h.seq), n <= h.seq + 2
        PROVE  FALSE
    <3>1. h.seq \in Nat
      BY <1>4 DEF HostRows
    <3> QED BY <1>3, <1>4, <1>5, <1>6, <2>2, <3>1
  <2> QED BY <2>1, <2>2
<1>8. m < lastEven
  BY <1>3, <1>4, <1>5, <1>7
<1> QED BY <1>4, <1>8

\* A number names one message on both sides of the link.
THEOREM NumbersAreUnique == Spec => []SeqNamesOneMessage
BY IInvAlways, IInvUnique, PTL

\* An output is rejected only above a number the host used for no row.
THEOREM RejectionNeedsUnusedNumber == Spec => []RejectedOnlyAboveUnusedNumber
BY IInvAlways, IInvRejected, PTL

-----------------------------------------------------------------------------
(* Refinement: the two allocators implement one register of numbers. *)

AllRows == hostIn \cup hostOut \cup runIn \cup runOut

\* An id is inserted into messages_in once, so the runner, which replaces the
\* row it has for the id of an upsert, replaces it by itself.
OneRowPerId == \A g, h \in hostIn : g.id = h.id => g = h

LEMMA OneRowPerIdStep == OneRowPerId /\ [Next]_vars => OneRowPerId'
<1> SUFFICES ASSUME OneRowPerId, [Next]_vars PROVE OneRowPerId'
  OBVIOUS
<1>1. CASE InsertIn
  BY <1>1 DEF InsertIn, OneRowPerId, Ids
<1>2. CASE hostIn' \subseteq hostIn
  BY <1>2 DEF OneRowPerId
<1>3. InsertIn \/ hostIn' \subseteq hostIn
  BY DEF Next, HostNext, RunnerNext, Allocate, InsertOut, HostCrash, ApplyRunnerMessage, Fork,
         ApplyHostEvent, WriteMessageOut, vars, hostVars
<1> QED BY <1>1, <1>2, <1>3

\* Every row is the host's or, with an odd number, still in the runner's journal.
LEMMA WhereRowsAre ==
  ASSUME IInv
  PROVE  /\ AllRows = HostRows \cup runOut
         /\ \A r \in runOut : r \in hostOut \/ ~Even(r.seq)
         /\ \A r \in AllRows : r.seq \in Nat
<1>1. runIn \subseteq hostIn
  BY DEF IInv, InFlight
<1>2. \A r \in runOut : r \in hostOut \/ ~Even(r.seq)
  BY DEF IInv, Outputs
<1>3. \A r \in AllRows : r.seq \in Nat
  BY SeqsAreNat DEF IInv, AllRows
<1> QED BY <1>1, <1>2, <1>3 DEF AllRows, HostRows

LEMMA InsertNumbers ==
  ASSUME IInv, InsertIn \/ InsertOut
  PROVE  (\E r \in AllRows' : Numbers!Assign(r)) \/ UNCHANGED <<hostIn, hostOut, runnerVars, forks>>
<1> DEFINE r == [id |-> op.id, seq |-> op.seq]
<1>1. op # NoOp /\ UNCHANGED <<runnerVars, forks>>
  BY DEF InsertIn, InsertOut
<1>2. r.seq = lastEven /\ Even(lastEven) /\ \A h \in HostRows : h.seq # lastEven
  BY <1>1 DEF IInv, EvenBound
<1>3. \A q \in AllRows : q.seq # r.seq
  BY <1>2, WhereRowsAre DEF HostRows
<1>4. \/ UNCHANGED <<hostIn, hostOut>>
      \/ hostIn' = hostIn \cup {r} /\ UNCHANGED hostOut
      \/ hostOut' = hostOut \cup {r} /\ UNCHANGED hostIn
  BY DEF InsertIn, InsertOut
<1>5. CASE AllRows' = AllRows \cup {r}
  BY <1>1, <1>3, <1>5 DEF Numbers!Assign, AllRows, runnerVars
<1>6. UNCHANGED <<hostIn, hostOut>> \/ AllRows' = AllRows \cup {r}
  BY <1>1, <1>4 DEF AllRows, runnerVars
<1> QED BY <1>1, <1>5, <1>6

LEMMA WriteNumbers ==
  ASSUME IInv, NEW id \in RunnerIds, WriteMessageOut(id)
  PROVE  \E r \in AllRows' : Numbers!Assign(r)
<1>1. PICK m \in RunnerKnown \cup {0} :
        /\ IsMax(m, RunnerKnown)
        /\ runOut' = runOut \cup {[id |-> id, seq |-> RunnerSeq(m)]}
  BY DEF WriteMessageOut
<1> DEFINE r == [id |-> id, seq |-> RunnerSeq(m)]
<1>2. UNCHANGED <<hostIn, hostOut, runIn, forks>>
  BY DEF WriteMessageOut, hostVars
<1>3. m \in Nat /\ \A n \in RunnerKnown : n \in Nat /\ n <= m
  <2>1. RunnerKnown \subseteq Nat
    BY SeqsAreNat DEF IInv, RunnerKnown, Seqs, TypeOK
  <2> QED BY <1>1, <2>1 DEF IsMax
<1>4. ~Even(r.seq) /\ r.seq \in Nat /\ m < r.seq
  BY <1>3, NextOddIsOdd DEF RunnerSeq
<1>5. \A q \in runOut : q.seq # r.seq
  <2>1. \A q \in runOut : q.seq \in RunnerKnown
    BY DEF RunnerKnown, Seqs
  <2> QED BY <1>3, <1>4, <2>1
<1>6. \A q \in HostRows : ~Even(q.seq) => q \in runOut
  BY DEF IInv, EvenBound, Outputs, HostRows
<1>7. \A q \in AllRows : q.seq # r.seq
  BY <1>4, <1>5, <1>6, WhereRowsAre
<1>8. AllRows' = AllRows \cup {r}
  BY <1>1, <1>2 DEF AllRows
<1>9. Numbers!Assign(r)
  <2>1. runIn' \cup runOut' = (runIn \cup runOut) \cup {r}
    BY <1>1, <1>2
  <2> QED BY <1>2, <1>7, <1>8, <2>1 DEF Numbers!Assign, AllRows
<1> QED BY <1>8, <1>9

LEMMA LearnNumbers ==
  ASSUME IInv, OneRowPerId, ApplyHostEvent
  PROVE  (\E r \in AllRows : Numbers!Learn(r)) \/ UNCHANGED <<hostIn, hostOut, runIn, runOut, forks>>
<1> DEFINE e == Head(hostEvents)
<1>1. hostEvents # <<>> /\ UNCHANGED <<hostIn, hostOut, runOut, forks>>
  BY DEF ApplyHostEvent
<1>2. CASE UNCHANGED runIn
  BY <1>1, <1>2
<1>3. CASE e.type = "row" /\ runIn' = {r \in runIn : r.id # e.row.id} \cup {e.row}
  <2>1. e = hostEvents[1] /\ 1 \in 1 .. Len(hostEvents)
    BY <1>1 DEF IInv, TypeOK
  <2>2. e.row \in hostIn /\ runIn \subseteq hostIn
    BY <1>3, <2>1 DEF IInv, InFlight
  <2>3. \A r \in runIn : r.id = e.row.id => r = e.row
    BY <2>2 DEF OneRowPerId
  <2>4. runIn' = runIn \cup {e.row}
    BY <1>3, <2>3
  <2>5. Numbers!Learn(e.row)
    BY <1>1, <2>2, <2>4 DEF Numbers!Learn
  <2> QED BY <2>2, <2>5 DEF AllRows
<1> QED BY <1>2, <1>3 DEF ApplyHostEvent

LEMMA ReceiveNumbers ==
  ASSUME IInv, ApplyRunnerMessage
  PROVE  AllRows' = AllRows /\ UNCHANGED <<runIn, runOut, forks>>
<1>1. runEvents # <<>> /\ UNCHANGED <<hostIn, runIn, runOut, forks>>
      /\ hostOut' = hostOut \cup {Head(runEvents)}
  BY DEF ApplyRunnerMessage
<1>2. Head(runEvents) \in runOut
  <2>1. Head(runEvents) = runEvents[1] /\ 1 \in 1 .. Len(runEvents)
    BY <1>1 DEF IInv, TypeOK
  <2> QED BY <2>1 DEF IInv, Outputs
<1> QED BY <1>1, <1>2 DEF AllRows

LEMMA NumbersStep ==
  ASSUME IInv, OneRowPerId, [Next]_vars
  PROVE  [Numbers!Next]_(Numbers!vars)
<1>1. CASE InsertIn \/ InsertOut
  BY <1>1, InsertNumbers DEF Numbers!Next, Numbers!vars, AllRows, runnerVars
<1>2. CASE \E id \in RunnerIds : WriteMessageOut(id)
  BY <1>2, WriteNumbers DEF Numbers!Next, AllRows
<1>3. CASE ApplyHostEvent
  BY <1>3, LearnNumbers DEF Numbers!Next, Numbers!vars, AllRows
<1>4. CASE ApplyRunnerMessage
  BY <1>4, ReceiveNumbers DEF Numbers!vars, AllRows
<1>5. CASE Fork
  <2>1. /\ hostIn' \subseteq hostIn /\ hostOut' \subseteq hostOut
        /\ runIn' = {} /\ runOut' = hostOut' /\ forks' = forks + 1
    BY <1>5 DEF Fork
  <2>2. Numbers!Fork
    BY <2>1 DEF Numbers!Fork
  <2> QED BY <2>2 DEF Numbers!Next
<1>6. CASE (\E table \in {"in", "out"}, id \in HostIds : Allocate(table, id)) \/ HostCrash \/ UNCHANGED vars
  BY <1>6 DEF Allocate, HostCrash, vars, hostVars, runnerVars, Numbers!vars
<1> QED BY <1>1, <1>2, <1>3, <1>4, <1>5, <1>6 DEF Next, HostNext, RunnerNext

\* The two allocators implement one register of numbers (nextEvenSeq,
\* writeMessageOut, the checks of applyMessage and the journaled floors).
THEOREM NumbersRefinement == Spec => NumbersAreKept
<1>1. Init => OneRowPerId /\ Numbers!Init
  BY DEF Init, OneRowPerId, Numbers!Init
<1>2. IInv /\ OneRowPerId /\ [Next]_vars => [Numbers!Next]_(Numbers!vars)
  BY NumbersStep
<1> QED
  BY <1>1, <1>2, OneRowPerIdStep, IInvAlways, PTL DEF Spec, NumbersAreKept, Numbers!Spec
=============================================================================
