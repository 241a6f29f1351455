--------------------------- MODULE HostSweepProofs ---------------------------
(***************************************************************************)
(* For any messages, tries, crashes and faults: a try is charged for a     *)
(* claim that was made, a notice of failure follows the last try, and what *)
(* a reported batch completed is completed when no sweep runs.             *)
(***************************************************************************)
EXTENDS HostSweep, FiniteSetTheorems, FunctionTheorems, TLAPS

IsClaim(e, m) == m \in e.msgs /\ e.status = "processing"

\* The claims of a message the host has not heard of
Queued(j, m) == Cardinality({i \in 1 .. Len(j) : IsClaim(j[i], m)})

\* What a message was charged: its tries, and the claim it was given up on
Charged(m) == tries[m] + (IF status[m] = "failed" THEN 1 ELSE 0)

\* Each claim a container made is on its way, is held by the host or was
\* charged; only a claim row that could not be deleted is charged twice.
ClaimsAddUp ==
  \A m \in Msgs :
    Charged(m) + (IF ack[m] = "processing" THEN 1 ELSE 0) + Queued(journal, m)
      <= claims[m] + uncleared

\* A message that failed, or has a notice, had its tries; one with a notice is
\* never due again.
NoticesAreFinal ==
  /\ \A m \in bounced : tries[m] = MaxTries /\ status[m] \in {"failed", "completed"}
  /\ \A m \in Msgs : status[m] = "failed" => tries[m] = MaxTries

\* Nothing follows the completion of a message in the runner's journal, and
\* nothing is left of it there once the host has it.
CompletionIsLast ==
  /\ \A m \in Msgs : ack[m] = "completed" =>
       rack[m] = "completed" /\ \A i \in 1 .. Len(journal) : m \notin journal[i].msgs
  /\ \A i \in 1 .. Len(journal) :
       journal[i].status = "completed" =>
         \A m \in journal[i].msgs :
           /\ rack[m] = "completed"
           /\ \A k \in 1 .. Len(journal) : k > i => m \notin journal[k].msgs

\* A sweep that has still to copy the acknowledgements, or will run again
SweepAhead == pc \in {"begin", "recovery", "recovered"} \/ (dirty /\ pc # "idle")

\* What a batch completed is copied, or a sweep that will copy it is under way.
HintsAreKept ==
  \A m \in hinted : status[m] = "completed" \/ (ack[m] = "completed" /\ SweepAhead)

IInv == TypeOK /\ ClaimsAddUp /\ NoticesAreFinal /\ CompletionIsLast /\ HintsAreKept
-----------------------------------------------------------------------------
(***************************************************************************)
(* Counting the claims of a journal                                        *)
(***************************************************************************)

ClaimsIn(j, m) == {i \in 1 .. Len(j) : IsClaim(j[i], m)}

LEMMA QueuedIsNat ==
  ASSUME NEW j \in Seq(Event), NEW m
  PROVE  IsFiniteSet(ClaimsIn(j, m)) /\ Queued(j, m) = Cardinality(ClaimsIn(j, m))
         /\ Queued(j, m) \in Nat
<1>1. IsFiniteSet(1 .. Len(j))
  BY FS_Interval
<1>2. ClaimsIn(j, m) \in SUBSET (1 .. Len(j))
  BY DEF ClaimsIn
<1>3. IsFiniteSet(ClaimsIn(j, m))
  BY <1>1, <1>2, FS_Subset
<1> QED BY <1>3, FS_CardinalityType DEF Queued, ClaimsIn

LEMMA QueuedEmpty ==
  ASSUME NEW m
  PROVE  Queued(<< >>, m) = 0
<1>1. {i \in 1 .. Len(<< >>) : IsClaim(<< >>[i], m)} = {}
  OBVIOUS
<1> QED BY <1>1, FS_EmptySet DEF Queued

\* An appended event adds its own claim.
LEMMA QueuedAppend ==
  ASSUME NEW j \in Seq(Event), NEW e \in Event, NEW m
  PROVE  Queued(j \o <<e>>, m) = Queued(j, m) + (IF IsClaim(e, m) THEN 1 ELSE 0)
<1> DEFINE k == j \o <<e>>
           n == Len(j)
<1>1. /\ k \in Seq(Event) /\ Len(k) = n + 1 /\ n \in Nat /\ k[n + 1] = e
      /\ \A i \in 1 .. n : k[i] = j[i]
  OBVIOUS
<1> HIDE DEF k
<1>2. IsFiniteSet(ClaimsIn(j, m)) /\ n + 1 \notin ClaimsIn(j, m) /\ Queued(j, m) \in Nat
  <2>1. IsFiniteSet(ClaimsIn(j, m)) /\ Queued(j, m) \in Nat
    BY QueuedIsNat
  <2>2. n + 1 \notin ClaimsIn(j, m)
    BY <1>1 DEF ClaimsIn
  <2> QED BY <2>1, <2>2
<1>3. ClaimsIn(k, m) = IF IsClaim(e, m) THEN ClaimsIn(j, m) \cup {n + 1} ELSE ClaimsIn(j, m)
  BY <1>1 DEF ClaimsIn
<1>4. Cardinality(ClaimsIn(j, m) \cup {n + 1}) = Cardinality(ClaimsIn(j, m)) + 1
  BY <1>2, FS_AddElement
<1>5. Queued(k, m) = Cardinality(ClaimsIn(k, m)) /\ Queued(j, m) = Cardinality(ClaimsIn(j, m))
  BY <1>1, QueuedIsNat
<1> QED BY <1>2, <1>3, <1>4, <1>5 DEF k

\* An applied event takes its own claim away.
LEMMA QueuedTail ==
  ASSUME NEW j \in Seq(Event), j # << >>, NEW m
  PROVE  Queued(Tail(j), m) + (IF IsClaim(Head(j), m) THEN 1 ELSE 0) = Queued(j, m)
<1> DEFINE t == Tail(j)
           n == Len(t)
           A == ClaimsIn(t, m)
           B == ClaimsIn(j, m) \ {1}
           f == [i \in A |-> i + 1]
<1>1. /\ t \in Seq(Event) /\ n \in Nat /\ Len(j) = n + 1 /\ Head(j) = j[1]
      /\ \A i \in 1 .. n : t[i] = j[i + 1]
  OBVIOUS
<1> HIDE DEF t
<1>2. /\ A \subseteq 1 .. n /\ B \subseteq 2 .. n + 1
      /\ \A i \in 1 .. n : i \in A <=> i + 1 \in B
  BY <1>1 DEF ClaimsIn
<1>3. f \in Bijection(A, B)
  <2>1. f \in [A -> B]
    BY <1>2
  <2>2. \A a, b \in A : f[a] = f[b] => a = b
    BY <1>2
  <2>3. \A b \in B : \E a \in A : f[a] = b
    <3>1. SUFFICES ASSUME NEW b \in B PROVE \E a \in A : f[a] = b
      OBVIOUS
    <3>2. b - 1 \in 1 .. n /\ (b - 1) + 1 = b
      BY <1>1, <1>2
    <3>3. b - 1 \in A
      BY <1>2, <3>2
    <3> QED BY <3>2, <3>3
  <2> HIDE DEF f, A, B
  <2> QED BY <2>1, <2>2, <2>3 DEF Bijection, Injection, Surjection, IsInjective
<1>4. IsFiniteSet(A) /\ Cardinality(B) = Cardinality(A)
  <2>1. IsFiniteSet(A)
    BY <1>1, QueuedIsNat
  <2>2. ExistsBijection(A, B)
    BY <1>3 DEF ExistsBijection
  <2> HIDE DEF A, B
  <2> QED BY <2>1, <2>2, FS_Bijection
<1>5. Cardinality(B) = IF 1 \in ClaimsIn(j, m) THEN Cardinality(ClaimsIn(j, m)) - 1
                       ELSE Cardinality(ClaimsIn(j, m))
  BY QueuedIsNat, FS_RemoveElement
<1>6. 1 \in ClaimsIn(j, m) <=> IsClaim(Head(j), m)
  BY <1>1 DEF ClaimsIn
<1>7. /\ Queued(t, m) = Cardinality(A) /\ Queued(j, m) = Cardinality(ClaimsIn(j, m))
      /\ Queued(j, m) \in Nat
  BY <1>1, QueuedIsNat
<1> QED BY <1>4, <1>5, <1>6, <1>7 DEF t

\* The counts of a message, as numbers
LEMMA ClaimCounts ==
  ASSUME TypeOK, ClaimsAddUp, NEW m \in Msgs
  PROVE  /\ tries[m] \in 0 .. MaxTries /\ Charged(m) \in Nat /\ Queued(journal, m) \in Nat
         /\ claims[m] \in Nat /\ uncleared \in Nat
         /\ Charged(m) + (IF ack[m] = "processing" THEN 1 ELSE 0) + Queued(journal, m)
              <= claims[m] + uncleared
<1>1. /\ tries[m] \in 0 .. MaxTries /\ MaxTries \in Nat
      /\ claims[m] \in Nat /\ uncleared \in Nat /\ journal \in Seq(Event)
  BY BoundsAssumption DEF TypeOK
<1>2. Charged(m) \in Nat
  BY <1>1 DEF Charged
<1>3. Queued(journal, m) \in Nat
  BY <1>1, QueuedIsNat
<1> QED BY <1>1, <1>2, <1>3 DEF ClaimsAddUp
-----------------------------------------------------------------------------
Status == {"none", "pending", "failed", "completed"}

LEMMA InitIInv == Init => IInv
<1> SUFFICES ASSUME Init PROVE IInv
  OBVIOUS
<1>1. TypeOK
  <2>1. journal \in Seq(Event)
    BY DEF Init
  <2>2. tries \in [Msgs -> 0 .. MaxTries]
    BY BoundsAssumption DEF Init
  <2>3. /\ status \in [Msgs -> {"none", "pending", "failed", "completed"}]
        /\ ack \in [Msgs -> {"none", "processing", "completed"}]
        /\ rack \in [Msgs -> {"none", "processing", "completed"}]
        /\ claims \in [Msgs -> Nat]
    BY DEF Init
  <2>4. /\ later \subseteq Msgs /\ old \subseteq Claimed /\ bounced \subseteq Msgs
        /\ hinted \subseteq Msgs /\ stranded \subseteq Msgs
    BY DEF Init
  <2> QED BY <2>1, <2>2, <2>3, <2>4 DEF Init, TypeOK
<1>2. ClaimsAddUp
  <2>1. \A m \in Msgs : Queued(journal, m) = 0
    BY QueuedEmpty DEF Init
  <2>2. \A m \in Msgs : Charged(m) = 0 /\ ack[m] = "none" /\ claims[m] = 0
    <3>1. \A m \in Msgs : tries[m] = 0 /\ status[m] # "failed" /\ ack[m] = "none" /\ claims[m] = 0
      BY DEF Init
    <3>2. ASSUME NEW m \in Msgs PROVE Charged(m) = 0
      <4>1. (IF status[m] = "failed" THEN 1 ELSE 0) = 0
        BY <3>1
      <4> HIDE DEF Init
      <4> QED BY <3>1, <4>1 DEF Charged
    <3> QED BY <3>1, <3>2
  <2>3. uncleared = 0
    BY DEF Init
  <2>4. ASSUME NEW m \in Msgs
        PROVE  Charged(m) + (IF ack[m] = "processing" THEN 1 ELSE 0) + Queued(journal, m)
                 <= claims[m] + uncleared
    <3>1. (IF ack[m] = "processing" THEN 1 ELSE 0) = 0
      BY <2>2
    <3>2. Charged(m) = 0 /\ claims[m] = 0 /\ Queued(journal, m) = 0
      BY <2>1, <2>2
    <3> HIDE DEF Init
    <3> QED BY <2>3, <3>1, <3>2
  <2> QED BY <2>4 DEF ClaimsAddUp
<1>3. NoticesAreFinal /\ CompletionIsLast /\ HintsAreKept
  BY DEF Init, NoticesAreFinal, CompletionIsLast, HintsAreKept
<1> QED BY <1>1, <1>2, <1>3 DEF IInv

LEMMA StutterIInv == IInv /\ UNCHANGED vars => IInv'
BY DEF IInv, vars, inbound, outbound, sweep, runner, history, TypeOK, Claimed, ClaimsAddUp,
       Charged, NoticesAreFinal, CompletionIsLast, HintsAreKept, SweepAhead

\* What arrives, ages, exits or starts a container
LEMMA AroundStep ==
  ASSUME IInv,
         \/ \E m \in Msgs : Arrive(m) \/ BackoffEnds(m) \/ ClaimAges(m)
         \/ WakeElsewhere \/ ExitHandled \/ Crash \/ WakeSpawns
  PROVE  IInv'
<1>1. /\ status' \in [Msgs -> Status] /\ later' \subseteq Msgs /\ old' \subseteq Claimed
      /\ cont' \in {"off", "booting", "up", "dead", "recovering"}
      /\ pc' \in {"idle", "begin", "recovery", "recovered", "waking", "end"}
      /\ stranded' \subseteq Msgs /\ crashes' \in Nat
      /\ UNCHANGED << tries, ack, bounced, dirty, runner, claims, hinted, uncleared, faults >>
      /\ pc' = pc \/ (pc = "waking" /\ pc' = "end")
  <2> USE DEF IInv, TypeOK, Status, inbound, outbound, sweep, runner, history
  <2>1. CASE \E m \in Msgs : Arrive(m)
    BY <2>1 DEF Arrive
  <2>2. CASE \E m \in Msgs : BackoffEnds(m) \/ ClaimAges(m)
    BY <2>2 DEF BackoffEnds, ClaimAges
  <2>3. CASE WakeElsewhere \/ ExitHandled
    BY <2>3 DEF WakeElsewhere, ExitHandled
  <2>4. CASE Crash \/ WakeSpawns
    BY <2>4 DEF Crash, WakeSpawns
  <2> QED BY <2>1, <2>2, <2>3, <2>4
<1>2. \A m \in Msgs : status'[m] = status[m] \/ (status[m] = "none" /\ status'[m] = "pending")
  <2>1. status' = status \/ \E m \in Msgs : Arrive(m)
    BY DEF BackoffEnds, ClaimAges, WakeElsewhere, ExitHandled, Crash, WakeSpawns, inbound
  <2>2. ASSUME NEW m \in Msgs, Arrive(m)
        PROVE  \A n \in Msgs : status'[n] = status[n] \/ (status[n] = "none" /\ status'[n] = "pending")
    BY <2>2 DEF Arrive, IInv, TypeOK
  <2> QED BY <2>1, <2>2
<1>3. TypeOK'
  BY <1>1 DEF IInv, TypeOK, Status, Claimed, runner
<1>4. ClaimsAddUp' /\ CompletionIsLast'
  <2>1. \A m \in Msgs : Charged(m)' = Charged(m)
    BY <1>1, <1>2 DEF Charged, IInv, TypeOK
  <2> QED BY <1>1, <2>1 DEF IInv, ClaimsAddUp, CompletionIsLast, runner
<1>5. NoticesAreFinal'
  BY <1>1, <1>2 DEF IInv, NoticesAreFinal, TypeOK
<1>6. HintsAreKept'
  BY <1>1, <1>2 DEF IInv, HintsAreKept, SweepAhead, TypeOK
<1> QED BY <1>3, <1>4, <1>5, <1>6 DEF IInv

\* The sweep moves on without touching the databases.
LEMMA SweepMoves ==
  ASSUME IInv,
         \/ TimerSweep \/ BeginRecovery \/ RecoverySucceeds \/ RecoveryFails
         \/ EndSweep \/ SweepThrows \/ HostRestart
  PROVE  IInv'
<1>1. /\ UNCHANGED << inbound, outbound, runner, claims, stranded, crashes, uncleared >>
      /\ cont' \in {"off", "booting", "up", "dead", "recovering"}
      /\ pc' \in {"idle", "begin", "recovery", "recovered", "waking", "end"}
      /\ dirty' \in BOOLEAN /\ faults' \in Nat /\ hinted' \subseteq Msgs
  <2> USE DEF Fault, IInv, TypeOK, history
  <2>1. CASE TimerSweep
    BY <2>1 DEF TimerSweep
  <2>2. CASE BeginRecovery
    BY <2>2 DEF BeginRecovery
  <2>3. CASE RecoverySucceeds
    BY <2>3 DEF RecoverySucceeds
  <2>4. CASE RecoveryFails
    BY <2>4 DEF RecoveryFails
  <2>5. CASE EndSweep
    BY <2>5 DEF EndSweep
  <2>6. CASE SweepThrows
    BY <2>6 DEF SweepThrows
  <2>7. CASE HostRestart
    <3>1. cont' \in {"off", "dead", cont}
      BY <2>7 DEF HostRestart
    <3>2. /\ faults' = faults + 1 /\ pc' = "idle" /\ dirty' = FALSE /\ hinted' = {}
          /\ UNCHANGED << inbound, outbound, runner, claims, stranded, crashes, uncleared >>
      BY <2>7 DEF HostRestart
    <3>3. cont' \in {"off", "booting", "up", "dead", "recovering"}
      BY <3>1
    <3>4. faults \in Nat /\ faults + 1 \in Nat
      OBVIOUS
    <3>5. pc' \in {"idle", "begin", "recovery", "recovered", "waking", "end"}
      BY <3>2
    <3> HIDE DEF Fault, IInv, TypeOK, history
    <3>6. faults' \in Nat /\ dirty' \in BOOLEAN /\ hinted' \subseteq Msgs
      BY <3>2, <3>4
    <3> QED BY <3>2, <3>3, <3>5, <3>6
  <2> QED BY <2>1, <2>2, <2>3, <2>4, <2>5, <2>6, <2>7
<1>2. TypeOK'
  BY <1>1 DEF IInv, TypeOK, Claimed, inbound, outbound, runner
<1>3. ClaimsAddUp' /\ CompletionIsLast' /\ NoticesAreFinal'
  BY <1>1 DEF IInv, ClaimsAddUp, Charged, CompletionIsLast, NoticesAreFinal, inbound, outbound,
              runner
<1>4. HintsAreKept'
  <2> USE <1>1 DEF IInv, HintsAreKept, SweepAhead, inbound, outbound, history
  <2>1. CASE TimerSweep
    BY <2>1 DEF TimerSweep
  <2>2. CASE BeginRecovery
    BY <2>2 DEF BeginRecovery
  <2>3. CASE RecoverySucceeds
    BY <2>3 DEF RecoverySucceeds
  <2>4. CASE RecoveryFails \/ SweepThrows \/ HostRestart
    BY <2>4 DEF RecoveryFails, SweepThrows, HostRestart
  <2>5. CASE EndSweep
    BY <2>5 DEF EndSweep, Again, TypeOK
  <2> QED BY <2>1, <2>2, <2>3, <2>4, <2>5
<1> QED BY <1>2, <1>3, <1>4 DEF IInv

\* The end of a pass: the claims are judged by the status st.
LEMMA ResetStep ==
  ASSUME IInv, NEW st \in [Msgs -> Status],
         \A m \in Msgs : st[m] = status[m] \/ st[m] = "completed",
         \A m \in hinted : st[m] = "completed" \/ (ack[m] = "completed" /\ dirty),
         Reset(st), UNCHANGED << runner, claims >>,
         cont' \in {"off", "booting", "up", "dead", "recovering"},
         stranded' \subseteq Msgs, crashes' \in Nat
  PROVE  IInv'
<1> DEFINE M == {m \in Claimed : st[m] = "pending" /\ m \notin later}
           failed == {m \in M : GivenUp(m)}
           again == M \ failed
<1>1. /\ status' = [m \in Msgs |-> IF m \in failed THEN "failed" ELSE st[m]]
      /\ tries' = [m \in Msgs |-> IF m \in again THEN tries[m] + 1 ELSE tries[m]]
      /\ later' = later \cup again
  BY DEF Reset
<1>2. \/ /\ bounced' = bounced \cup failed /\ ack' = Unclaimed
         /\ old' = {m \in old : ack'[m] = "processing"} /\ pc' = "end"
         /\ UNCHANGED << dirty, hinted, uncleared, faults >>
      \/ /\ uncleared' = uncleared + 1 /\ faults' = faults + 1 /\ UNCHANGED outbound
         /\ \/ pc' = "end" /\ UNCHANGED << dirty, hinted >>
            \/ pc' = "idle" /\ dirty' = FALSE /\ hinted' = {}
  BY DEF Reset, Fault
<1>3. /\ M \subseteq Claimed /\ Claimed \subseteq Msgs
      /\ \A m \in failed : tries[m] = MaxTries /\ st[m] = "pending"
      /\ \A m \in again : tries[m] \in 0 .. MaxTries /\ tries[m] + 1 \in 0 .. MaxTries
  BY BoundsAssumption DEF Claimed, GivenUp, IInv, TypeOK
<1>4. \A m \in Msgs : ack'[m] \in {"none", "completed", ack[m]}
                      /\ (ack'[m] = "completed" <=> ack[m] = "completed")
  BY <1>2 DEF Unclaimed, outbound, IInv, TypeOK
<1> HIDE DEF M, failed, again
<1>5. TypeOK'
  <2>1. status' \in [Msgs -> Status] /\ tries' \in [Msgs -> 0 .. MaxTries] /\ later' \subseteq Msgs
    BY <1>1, <1>3 DEF IInv, TypeOK, Status, again
  <2>2. ack' \in [Msgs -> {"none", "processing", "completed"}]
    BY <1>2 DEF IInv, TypeOK, Unclaimed, outbound
  <2>3. old' \subseteq Claimed'
    BY <1>2 DEF IInv, TypeOK, Claimed, outbound
  <2>4. bounced' \subseteq Msgs
    BY <1>2, <1>3 DEF IInv, TypeOK, outbound, failed
  <2>5. /\ pc' \in {"idle", "begin", "recovery", "recovered", "waking", "end"}
        /\ dirty' \in BOOLEAN /\ hinted' \subseteq Msgs /\ uncleared' \in Nat /\ faults' \in Nat
    <3>1. /\ dirty \in BOOLEAN /\ hinted \subseteq Msgs /\ uncleared \in Nat /\ faults \in Nat
          /\ uncleared + 1 \in Nat /\ faults + 1 \in Nat
      BY DEF IInv, TypeOK
    <3> QED BY <1>2, <3>1
  <2> QED BY <2>1, <2>2, <2>3, <2>4, <2>5 DEF IInv, TypeOK, Status, runner
<1>6. ClaimsAddUp'
  <2>1. SUFFICES ASSUME NEW m \in Msgs
                 PROVE  Charged(m)' + (IF ack'[m] = "processing" THEN 1 ELSE 0)
                          + Queued(journal, m) <= claims[m] + uncleared'
    BY DEF ClaimsAddUp, runner
  <2>2. /\ Charged(m) \in Nat /\ Queued(journal, m) \in Nat /\ claims[m] \in Nat /\ uncleared \in Nat
        /\ Charged(m) + (IF ack[m] = "processing" THEN 1 ELSE 0) + Queued(journal, m)
             <= claims[m] + uncleared
    BY ClaimCounts DEF IInv
  <2>3. Charged(m)' <= Charged(m) \/ (Charged(m)' = Charged(m) + 1 /\ ack[m] = "processing")
    <3>1. tries[m] \in Nat
      BY ClaimCounts DEF IInv
    <3>2. CASE m \in failed
      <4>1. status[m] # "failed" /\ status'[m] = "failed" /\ tries'[m] = tries[m]
            /\ ack[m] = "processing"
        BY <1>1, <1>3, <3>2 DEF failed, again, M, Claimed
      <4> QED BY <3>1, <4>1 DEF Charged
    <3>3. CASE m \in again
      <4>1. status[m] # "failed" /\ status'[m] # "failed" /\ tries'[m] = tries[m] + 1
            /\ ack[m] = "processing"
        BY <1>1, <1>3, <3>3 DEF again, M, Claimed
      <4> QED BY <3>1, <4>1 DEF Charged
    <3>4. CASE m \notin failed /\ m \notin again
      <4>1. tries'[m] = tries[m] /\ (status'[m] = "failed" => status[m] = "failed")
        BY <1>1, <3>4
      <4> QED BY <3>1, <4>1 DEF Charged
    <3> QED BY <3>2, <3>3, <3>4
  <2>0. Charged(m)' \in Nat
    <3>1. tries'[m] \in Nat
      BY <1>5, BoundsAssumption DEF TypeOK
    <3> QED BY <3>1 DEF Charged
  <2>4. \/ uncleared' = uncleared /\ ack'[m] # "processing"
        \/ uncleared' = uncleared + 1 /\ ack'[m] = ack[m]
    BY <1>2 DEF Unclaimed, outbound
  <2> QED BY <2>0, <2>2, <2>3, <2>4
<1>7. NoticesAreFinal'
  <2>0. ASSUME NEW m \in Msgs, status'[m] = "failed" PROVE tries'[m] = MaxTries
    <3>1. m \in failed \/ (m \notin again /\ status[m] = "failed")
      BY <1>1, <2>0 DEF again, M
    <3>2. m \notin again /\ tries[m] = MaxTries
      BY <1>3, <3>1 DEF again, IInv, NoticesAreFinal
    <3> QED BY <1>1, <3>2
  <2>1. SUFFICES ASSUME NEW m \in bounced'
                 PROVE  tries'[m] = MaxTries /\ status'[m] \in {"failed", "completed"}
    BY <2>0 DEF NoticesAreFinal
  <2>2. m \in Msgs /\ (m \in failed \/ m \in bounced)
    BY <1>2, <1>3 DEF outbound, IInv, TypeOK, failed
  <2>3. CASE m \in failed
    BY <1>1, <1>3, <2>2, <2>3 DEF again
  <2>4. CASE m \notin failed
    <3>1. m \in bounced /\ tries[m] = MaxTries /\ st[m] \in {"failed", "completed"}
      BY <2>2, <2>4 DEF IInv, NoticesAreFinal
    <3>2. m \notin again
      BY <3>1 DEF again, M
    <3> QED BY <1>1, <2>2, <2>4, <3>1, <3>2
  <2> QED BY <2>3, <2>4
<1>8. CompletionIsLast'
  BY <1>4 DEF IInv, CompletionIsLast, runner
<1>9. HintsAreKept'
  <2>1. SUFFICES ASSUME NEW m \in hinted'
                 PROVE  status'[m] = "completed" \/ (ack'[m] = "completed" /\ SweepAhead')
    BY DEF HintsAreKept
  <2>2. m \in hinted /\ pc' = "end" /\ dirty' = dirty /\ m \in Msgs
    BY <1>2, <2>1 DEF IInv, TypeOK
  <2>3. st[m] = "completed" => status'[m] = "completed"
    BY <1>1, <1>3, <2>2
  <2> QED BY <1>4, <2>2, <2>3 DEF SweepAhead
<1> QED BY <1>5, <1>6, <1>7, <1>8, <1>9 DEF IInv
\* One pass over the session
LEMMA PassStep ==
  ASSUME IInv, pc \in {"begin", "recovered"}, Pass
  PROVE  IInv'
<1>1. /\ Synced \in [Msgs -> Status]
      /\ \A m \in Msgs : Synced[m] = status[m] \/ Synced[m] = "completed"
      /\ \A m \in Msgs : ack[m] = "completed" => Synced[m] = "completed"
  BY DEF Synced, Status, IInv, TypeOK
<1>2. \A m \in hinted : Synced[m] = "completed"
  BY <1>1 DEF IInv, HintsAreKept, TypeOK
<1> HIDE DEF Synced
<1>3. UNCHANGED << runner, claims >>
  BY DEF Pass
<1>4. /\ cont \in {"off", "booting", "up", "dead", "recovering"}
      /\ stranded \subseteq Msgs /\ crashes \in Nat /\ crashes + 1 \in Nat
  BY DEF IInv, TypeOK
<1>5. CASE KillAndReset(Synced)
  <2>1. Reset(Synced) /\ crashes' = crashes
    BY <1>5 DEF KillAndReset
  <2>2. /\ cont' = "dead" \/ cont' = cont
        /\ stranded' \subseteq stranded \cup Msgs
    BY <1>5 DEF KillAndReset
  <2> QED BY <1>1, <1>2, <1>3, <1>4, <2>1, <2>2, ResetStep
<1>6. CASE KillSilent(Synced)
  <2>1. Reset(Synced) /\ crashes' = crashes + 1 /\ cont' = "dead" /\ stranded' = {}
    BY <1>6 DEF KillSilent
  <2> QED BY <1>1, <1>2, <1>3, <1>4, <2>1, ResetStep
<1>7. CASE ResetStopped(Synced) /\ UNCHANGED crashes
  BY <1>1, <1>2, <1>3, <1>4, <1>7, ResetStep DEF ResetStopped
<1>8. ASSUME status' = Synced, pc' \in {"waking", "end"},
             UNCHANGED << tries, later, outbound, dirty, cont, hinted, stranded, crashes,
                          uncleared, faults >>
      PROVE  IInv'
  <2>1. TypeOK'
    BY <1>1, <1>3, <1>8 DEF IInv, TypeOK, Claimed, outbound, runner, Status
  <2>2. ClaimsAddUp' /\ CompletionIsLast'
    <3>1. ASSUME NEW m \in Msgs
          PROVE  Charged(m)' \in Nat /\ Charged(m)' <= Charged(m)
      <4>1. tries[m] \in Nat
        BY ClaimCounts DEF IInv
      <4>2. tries'[m] = tries[m] /\ (status'[m] = "failed" => status[m] = "failed")
        BY <1>1, <1>8
      <4> QED BY <4>1, <4>2 DEF Charged
    <3>2. ASSUME NEW m \in Msgs
          PROVE  Charged(m)' + (IF ack[m] = "processing" THEN 1 ELSE 0) + Queued(journal, m)
                   <= claims[m] + uncleared
      BY <3>1, ClaimCounts DEF IInv
    <3> QED BY <1>3, <1>8, <3>2 DEF IInv, ClaimsAddUp, CompletionIsLast, outbound, runner
  <2>3. NoticesAreFinal'
    BY <1>1, <1>8 DEF IInv, TypeOK, NoticesAreFinal, outbound
  <2>4. HintsAreKept'
    BY <1>2, <1>8 DEF HintsAreKept
  <2> QED BY <2>1, <2>2, <2>3, <2>4 DEF IInv
<1>9. \/ /\ status' = Synced /\ pc' \in {"waking", "end"}
         /\ UNCHANGED << tries, later, outbound, dirty, cont, hinted, stranded, crashes,
                         uncleared, faults >>
      \/ KillAndReset(Synced) \/ KillSilent(Synced)
      \/ (ResetStopped(Synced) /\ UNCHANGED crashes)
  BY DEF Pass, LeaveRunning
<1> QED BY <1>5, <1>6, <1>7, <1>8, <1>9

LEMMA WakeFailsStep == IInv /\ WakeFails => IInv'
<1> SUFFICES ASSUME IInv, WakeFails PROVE IInv'
  OBVIOUS
<1>1. /\ pc = "waking" /\ Reset(status) /\ UNCHANGED << runner, claims, cont, stranded >>
      /\ crashes' = crashes + 1
  BY DEF WakeFails, ResetStopped
<1>2. /\ status \in [Msgs -> Status] /\ crashes + 1 \in Nat /\ stranded \subseteq Msgs
      /\ cont \in {"off", "booting", "up", "dead", "recovering"}
  BY DEF IInv, TypeOK, Status
<1>3. \A m \in hinted : status[m] = "completed" \/ (ack[m] = "completed" /\ dirty)
  BY <1>1 DEF IInv, HintsAreKept, SweepAhead
<1> QED BY <1>1, <1>2, <1>3, ResetStep

-----------------------------------------------------------------------------
\* What the runner appends to its journal
LEMMA AppendedEvents ==
  ASSUME NEW M \in SUBSET Msgs, NEW s \in {"processing", "completed"}
  PROVE  /\ \E e \in Event : Upsert(M, s) = <<e>> /\ e.msgs = M /\ e.status = s
         /\ \E e \in Event : Batch = <<e>> /\ e.msgs = {} /\ e.status = "none"
         /\ \/ Delete(M) = << >>
            \/ \E e \in Event : Delete(M) = <<e>> /\ e.msgs = M /\ e.status = "none"
<1>1. /\ [type |-> "upsert", msgs |-> M, status |-> s] \in Event
      /\ [type |-> "batch", msgs |-> {}, status |-> "none"] \in Event
      /\ [type |-> "delete", msgs |-> M, status |-> "none"] \in Event
  BY DEF Event
<1> QED BY <1>1 DEF Upsert, Batch, Delete

\* A runner appends an event about messages it has not completed: the journal
\* stays in order, and its claims are counted.
LEMMA AppendOrder ==
  ASSUME NEW j \in Seq(Event), NEW e \in Event, NEW done, NEW done2, done \subseteq done2,
         \A m \in Msgs : ack[m] = "completed" =>
            m \in done /\ \A i \in 1 .. Len(j) : m \notin j[i].msgs,
         \A i \in 1 .. Len(j) : j[i].status = "completed" =>
            \A m \in j[i].msgs :
               m \in done /\ \A k \in 1 .. Len(j) : k > i => m \notin j[k].msgs,
         \A m \in e.msgs : m \notin done,
         e.status = "completed" => e.msgs \subseteq done2
  PROVE  LET n == j \o <<e>>
         IN  /\ n \in Seq(Event)
             /\ \A m \in Msgs : ack[m] = "completed" =>
                   m \in done2 /\ \A i \in 1 .. Len(n) : m \notin n[i].msgs
             /\ \A i \in 1 .. Len(n) : n[i].status = "completed" =>
                   \A m \in n[i].msgs :
                      m \in done2 /\ \A k \in 1 .. Len(n) : k > i => m \notin n[k].msgs
<1> DEFINE n == j \o <<e>>
<1>1. /\ n \in Seq(Event) /\ Len(n) = Len(j) + 1 /\ Len(j) \in Nat /\ n[Len(j) + 1] = e
      /\ \A i \in 1 .. Len(j) : n[i] = j[i]
  OBVIOUS
<1> HIDE DEF n
<1>2. \A i \in 1 .. Len(n) : i \in 1 .. Len(j) \/ i = Len(j) + 1
  BY <1>1
<1>3. \A m \in Msgs : ack[m] = "completed" =>
        m \in done2 /\ \A i \in 1 .. Len(n) : m \notin n[i].msgs
  BY <1>1, <1>2
<1>4. \A i \in 1 .. Len(n) : n[i].status = "completed" =>
        \A m \in n[i].msgs :
           m \in done2 /\ \A k \in 1 .. Len(n) : k > i => m \notin n[k].msgs
  <2>1. SUFFICES ASSUME NEW i \in 1 .. Len(n), n[i].status = "completed", NEW m \in n[i].msgs
                 PROVE  m \in done2 /\ \A k \in 1 .. Len(n) : k > i => m \notin n[k].msgs
    OBVIOUS
  <2>2. CASE i \in 1 .. Len(j)
    BY <1>1, <1>2, <2>1, <2>2
  <2>3. CASE i = Len(j) + 1
    BY <1>1, <1>2, <2>1, <2>3
  <2> QED BY <1>2, <2>2, <2>3
<1> QED BY <1>1, <1>3, <1>4 DEF n
\* The invariant of the journal, for a journal and the messages done
OrderOf(j, done) ==
  /\ \A m \in Msgs : ack[m] = "completed" =>
       m \in done /\ \A i \in 1 .. Len(j) : m \notin j[i].msgs
  /\ \A i \in 1 .. Len(j) : j[i].status = "completed" =>
       \A m \in j[i].msgs :
          m \in done /\ \A k \in 1 .. Len(j) : k > i => m \notin j[k].msgs

Done == {m \in Msgs : rack[m] = "completed"}

LEMMA OrderIsCompletion ==
  ASSUME TypeOK
  PROVE  OrderOf(journal, Done) <=> CompletionIsLast
<1>1. \A i \in 1 .. Len(journal) : journal[i].msgs \subseteq Msgs
  <2>1. \A i \in 1 .. Len(journal) : journal[i] \in Event
    BY DEF TypeOK
  <2> QED BY <2>1 DEF Event
<1> QED BY <1>1 DEF OrderOf, Done, CompletionIsLast

\* The runner journals events about messages it has not completed. Only the
\* claims it makes are counted.
LEMMA RunnerJournals ==
  ASSUME IInv, NEW e \in Event,
         \A m \in e.msgs : rack[m] # "completed",
         rack' \in [Msgs -> {"none", "processing", "completed"}],
         \A m \in Msgs : rack[m] = "completed" => rack'[m] = "completed",
         e.status = "completed" => \A m \in e.msgs : rack'[m] = "completed",
         claims' = [m \in Msgs |-> IF IsClaim(e, m) THEN claims[m] + 1 ELSE claims[m]],
         journal' = journal \o <<e>> \/ \E b \in Event :
            journal' = (journal \o <<e>>) \o <<b>> /\ b.msgs = {} /\ b.status = "none",
         UNCHANGED << inbound, outbound, sweep, hinted, crashes, uncleared, faults >>,
         cont' \in {"off", "booting", "up", "dead", "recovering"}, stranded' \subseteq Msgs
  PROVE  IInv'
<1> DEFINE n == journal \o <<e>>
<1>1. journal \in Seq(Event) /\ OrderOf(journal, Done)
  BY OrderIsCompletion DEF IInv, TypeOK
<1>2. Done \subseteq Done' /\ (e.status = "completed" => e.msgs \subseteq Done')
      /\ \A m \in e.msgs : m \notin Done
  BY DEF Done, Event
<1>3. n \in Seq(Event) /\ OrderOf(n, Done')
  BY <1>1, <1>2, AppendOrder DEF OrderOf
<1>4. \A m \in Msgs : Queued(n, m) = Queued(journal, m) + (IF IsClaim(e, m) THEN 1 ELSE 0)
  BY <1>1, QueuedAppend
<1>5. /\ journal' \in Seq(Event) /\ OrderOf(journal', Done')
      /\ \A m \in Msgs : Queued(journal', m) = Queued(n, m)
  <2>1. CASE journal' = n
    BY <1>3, <2>1
  <2>2. ASSUME NEW b \in Event, journal' = n \o <<b>>, b.msgs = {}, b.status = "none"
        PROVE  /\ journal' \in Seq(Event) /\ OrderOf(journal', Done')
               /\ \A m \in Msgs : Queued(journal', m) = Queued(n, m)
    <3>1. n \o <<b>> \in Seq(Event) /\ OrderOf(n \o <<b>>, Done')
      <4> HIDE DEF n
      <4> QED BY <1>3, <2>2, AppendOrder DEF OrderOf
    <3>2. \A m \in Msgs : Queued(n \o <<b>>, m) = Queued(n, m)
      <4>1. \A m \in Msgs : ~IsClaim(b, m) /\ Queued(n, m) \in Nat
        BY <1>3, <2>2, QueuedIsNat DEF IsClaim
      <4> HIDE DEF n
      <4> QED BY <1>3, <4>1, QueuedAppend
    <3> QED BY <2>2, <3>1, <3>2
  <2> QED BY <2>1, <2>2
<1>6. ack' = ack
  BY DEF outbound
<1>7. TypeOK'
  <2>1. claims' \in [Msgs -> Nat]
    BY DEF IInv, TypeOK
  <2> QED BY <1>5, <2>1 DEF IInv, TypeOK, Claimed, inbound, outbound, sweep
<1>8. ClaimsAddUp'
  <2>1. SUFFICES ASSUME NEW m \in Msgs
                 PROVE  Charged(m) + (IF ack[m] = "processing" THEN 1 ELSE 0)
                          + Queued(journal', m) <= claims'[m] + uncleared
    BY DEF ClaimsAddUp, Charged, inbound, outbound
  <2>2. /\ Charged(m) \in Nat /\ Queued(journal, m) \in Nat /\ claims[m] \in Nat /\ uncleared \in Nat
        /\ Charged(m) + (IF ack[m] = "processing" THEN 1 ELSE 0) + Queued(journal, m)
             <= claims[m] + uncleared
    BY ClaimCounts DEF IInv
  <2>3. /\ Queued(journal', m) = Queued(journal, m) + (IF IsClaim(e, m) THEN 1 ELSE 0)
        /\ claims'[m] = IF IsClaim(e, m) THEN claims[m] + 1 ELSE claims[m]
    BY <1>4, <1>5
  <2> QED BY <2>2, <2>3
<1>9. CompletionIsLast'
  <2>1. OrderOf(journal, Done)' <=> CompletionIsLast'
    <3>1. \A i \in 1 .. Len(journal') : journal'[i].msgs \subseteq Msgs
      <4>1. \A i \in 1 .. Len(journal') : journal'[i] \in Event
        BY <1>5
      <4> QED BY <4>1 DEF Event
    <3> QED BY <3>1 DEF OrderOf, Done, CompletionIsLast
  <2>2. OrderOf(journal, Done)'
    BY <1>5, <1>6 DEF OrderOf
  <2> QED BY <2>1, <2>2
<1>10. NoticesAreFinal' /\ HintsAreKept'
  BY DEF IInv, NoticesAreFinal, HintsAreKept, SweepAhead, inbound, outbound, sweep
<1> QED BY <1>7, <1>8, <1>9, <1>10 DEF IInv

LEMMA BootStep == IInv /\ Boot => IInv'
<1> SUFFICES ASSUME IInv, Boot PROVE IInv'
  OBVIOUS
<1>1. /\ cont' = "up" /\ rack' = [m \in Msgs |-> IF m \in Stale THEN "none" ELSE rack[m]]
      /\ journal' = journal \o Delete(Stale) /\ stranded' = stranded \ Stale
      /\ UNCHANGED << inbound, outbound, sweep, claims, hinted, crashes, uncleared, faults >>
  BY DEF Boot
<1>2. /\ rack \in [Msgs -> {"none", "processing", "completed"}] /\ stranded' \subseteq Msgs
      /\ claims \in [Msgs -> Nat] /\ journal \in Seq(Event)
  BY <1>1 DEF IInv, TypeOK
<1>3. Stale \in SUBSET Msgs /\ \A m \in Stale : rack[m] # "completed"
  BY DEF Stale
<1>4. \/ Delete(Stale) = << >> /\ Stale = {}
      \/ \E e \in Event : Delete(Stale) = <<e>> /\ e.msgs = Stale /\ e.status = "none"
  BY <1>3, AppendedEvents DEF Delete
<1>5. CASE Delete(Stale) = << >> /\ Stale = {}
  <2>1. rack' = rack /\ journal' = journal
    BY <1>1, <1>2, <1>5
  <2>2. TypeOK'
    BY <1>1, <1>2, <2>1 DEF IInv, TypeOK, Claimed, inbound, outbound, sweep
  <2>3. ClaimsAddUp' /\ CompletionIsLast' /\ NoticesAreFinal' /\ HintsAreKept'
    BY <1>1, <2>1 DEF IInv, ClaimsAddUp, Charged, CompletionIsLast, NoticesAreFinal, HintsAreKept,
                      SweepAhead, inbound, outbound, sweep
  <2> QED BY <2>2, <2>3 DEF IInv
<1>6. ASSUME NEW e \in Event, Delete(Stale) = <<e>>, e.msgs = Stale, e.status = "none"
      PROVE  IInv'
  <2>1. claims' = [m \in Msgs |-> IF IsClaim(e, m) THEN claims[m] + 1 ELSE claims[m]]
    BY <1>1, <1>2, <1>6 DEF IsClaim
  <2>2. /\ rack' \in [Msgs -> {"none", "processing", "completed"}]
        /\ \A m \in Msgs : rack[m] = "completed" => rack'[m] = "completed"
    BY <1>1, <1>2, <1>3
  <2>3. (\A m \in e.msgs : rack[m] # "completed") /\ e.status # "completed"
        /\ journal' = journal \o <<e>>
    BY <1>1, <1>3, <1>6
  <2> QED BY <1>1, <1>2, <2>1, <2>2, <2>3, RunnerJournals
<1> QED BY <1>4, <1>5, <1>6

LEMMA ClaimStep == IInv /\ Claim => IInv'
<1> SUFFICES ASSUME IInv, Claim PROVE IInv'
  OBVIOUS
<1> DEFINE M == {m \in Due : rack[m] = "none"}
<1>1. /\ cont = "up" /\ rack' = [m \in Msgs |-> IF m \in M THEN "processing" ELSE rack[m]]
      /\ journal' = journal \o Upsert(M, "processing")
      /\ claims' = [m \in Msgs |-> IF m \in M THEN claims[m] + 1 ELSE claims[m]]
      /\ UNCHANGED << inbound, outbound, sweep, cont, hinted, stranded, crashes, uncleared,
                      faults >>
  BY DEF Claim
<1>2. /\ rack \in [Msgs -> {"none", "processing", "completed"}] /\ stranded \subseteq Msgs
  BY DEF IInv, TypeOK
<1>3. M \in SUBSET Msgs /\ \A m \in M : rack[m] = "none"
  BY DEF Due
<1> HIDE DEF M
<1>4. PICK e \in Event : Upsert(M, "processing") = <<e>> /\ e.msgs = M /\ e.status = "processing"
  BY <1>3, AppendedEvents
<1>5. claims' = [m \in Msgs |-> IF IsClaim(e, m) THEN claims[m] + 1 ELSE claims[m]]
  BY <1>1, <1>4 DEF IsClaim
<1>6. /\ rack' \in [Msgs -> {"none", "processing", "completed"}]
      /\ \A m \in Msgs : rack[m] = "completed" => rack'[m] = "completed"
  BY <1>1, <1>2, <1>3
<1>7. (\A m \in e.msgs : rack[m] # "completed") /\ e.status # "completed"
      /\ journal' = journal \o <<e>> /\ cont' = "up" /\ stranded' \subseteq Msgs
  BY <1>1, <1>2, <1>3, <1>4
<1> QED BY <1>1, <1>5, <1>6, <1>7, RunnerJournals

LEMMA CompleteStep == IInv /\ Complete => IInv'
<1> SUFFICES ASSUME IInv, Complete PROVE IInv'
  OBVIOUS
<1> DEFINE M == {m \in Msgs : rack[m] = "processing"}
<1>1. /\ cont = "up" /\ rack' = [m \in Msgs |-> IF m \in M THEN "completed" ELSE rack[m]]
      /\ journal' = journal \o Upsert(M, "completed") \o Batch
      /\ stranded' = stranded \ M
      /\ UNCHANGED << inbound, outbound, sweep, cont, claims, hinted, crashes, uncleared,
                      faults >>
  BY DEF Complete
<1>2. /\ rack \in [Msgs -> {"none", "processing", "completed"}] /\ stranded' \subseteq Msgs
      /\ claims \in [Msgs -> Nat]
  BY <1>1 DEF IInv, TypeOK
<1>3. M \in SUBSET Msgs /\ \A m \in M : rack[m] = "processing"
  OBVIOUS
<1> HIDE DEF M
<1>4. PICK e \in Event : Upsert(M, "completed") = <<e>> /\ e.msgs = M /\ e.status = "completed"
  BY <1>3, AppendedEvents
<1>5. PICK b \in Event : Batch = <<b>> /\ b.msgs = {} /\ b.status = "none"
  BY <1>3, AppendedEvents
<1>6. claims' = [m \in Msgs |-> IF IsClaim(e, m) THEN claims[m] + 1 ELSE claims[m]]
  BY <1>1, <1>2, <1>4 DEF IsClaim
<1>7. /\ rack' \in [Msgs -> {"none", "processing", "completed"}]
      /\ \A m \in Msgs : rack[m] = "completed" => rack'[m] = "completed"
      /\ \A m \in e.msgs : rack'[m] = "completed"
  BY <1>1, <1>2, <1>3, <1>4
<1>8. (\A m \in e.msgs : rack[m] # "completed") /\ cont' = "up"
      /\ journal' = (journal \o <<e>>) \o <<b>>
  BY <1>1, <1>3, <1>4, <1>5
<1> QED BY <1>1, <1>2, <1>5, <1>6, <1>7, <1>8, RunnerJournals

\* The host hears of the next event of the journal.
LEMMA ApplyStep == IInv /\ ApplyEvent => IInv'
<1> SUFFICES ASSUME IInv, ApplyEvent PROVE IInv'
  OBVIOUS
<1> DEFINE e == Head(journal)
<1>1. /\ journal # << >> /\ journal' = Tail(journal)
      /\ ack' = [m \in Msgs |-> IF m \in e.msgs THEN e.status ELSE ack[m]]
      /\ old' = old \ e.msgs
      /\ \/ e.type # "batch" /\ UNCHANGED << sweep, hinted >>
         \/ e.type = "batch" /\ Request /\ hinted' = hinted \cup {m \in Msgs : ack[m] = "completed"}
      /\ UNCHANGED << inbound, bounced, cont, rack, claims, stranded, crashes, uncleared, faults >>
  BY DEF ApplyEvent
<1>2. /\ journal \in Seq(Event) /\ ack \in [Msgs -> {"none", "processing", "completed"}]
      /\ old \subseteq Claimed /\ hinted \subseteq Msgs
  BY DEF IInv, TypeOK
<1>3. /\ journal' \in Seq(Event) /\ e \in Event /\ e = journal[1] /\ 1 \in 1 .. Len(journal)
      /\ Len(journal) = Len(journal') + 1 /\ Len(journal') \in Nat
      /\ \A i \in 1 .. Len(journal') : journal'[i] = journal[i + 1]
                                       /\ i + 1 \in 1 .. Len(journal) /\ i + 1 > 1
  BY <1>1, <1>2
<1>4. e.msgs \subseteq Msgs /\ e.status \in {"processing", "completed", "none"}
  BY <1>3 DEF Event
<1>5. \A m \in Msgs : Queued(journal', m) + (IF IsClaim(e, m) THEN 1 ELSE 0) = Queued(journal, m)
  BY <1>1, <1>2, QueuedTail
<1> HIDE DEF e
<1>6. TypeOK'
  <2>1. ack' \in [Msgs -> {"none", "processing", "completed"}]
    BY <1>1, <1>2, <1>4
  <2>2. old' \subseteq Claimed'
    BY <1>1, <1>2 DEF Claimed
  <2>3. hinted' \subseteq Msgs
    BY <1>1, <1>2
  <2>4. /\ pc' \in {"idle", "begin", "recovery", "recovered", "waking", "end"}
        /\ dirty' \in BOOLEAN
    BY <1>1 DEF IInv, TypeOK, Request, sweep
  <2> QED BY <1>1, <1>3, <2>1, <2>2, <2>3, <2>4 DEF IInv, TypeOK, inbound
<1>7. ClaimsAddUp'
  <2>1. SUFFICES ASSUME NEW m \in Msgs
                 PROVE  Charged(m) + (IF ack'[m] = "processing" THEN 1 ELSE 0)
                          + Queued(journal', m) <= claims[m] + uncleared
    BY <1>1 DEF ClaimsAddUp, Charged, inbound
  <2>2. /\ Charged(m) \in Nat /\ Queued(journal, m) \in Nat /\ claims[m] \in Nat /\ uncleared \in Nat
        /\ Charged(m) + (IF ack[m] = "processing" THEN 1 ELSE 0) + Queued(journal, m)
             <= claims[m] + uncleared
    BY ClaimCounts DEF IInv
  <2>3. Queued(journal', m) \in Nat
    BY <1>3, QueuedIsNat
  <2>4. ack'[m] = IF m \in e.msgs THEN e.status ELSE ack[m]
    BY <1>1
  <2>5. IsClaim(e, m) \/ ack'[m] # "processing" \/ ack'[m] = ack[m]
    BY <2>4 DEF IsClaim
  <2> QED BY <1>5, <2>2, <2>3, <2>5
<1>8. \A m \in Msgs : ack[m] = "completed" => ack'[m] = "completed"
  BY <1>1, <1>3 DEF IInv, CompletionIsLast
<1>9. CompletionIsLast'
  <2>1. ASSUME NEW m \in Msgs, ack'[m] = "completed"
        PROVE  rack[m] = "completed" /\ \A i \in 1 .. Len(journal') : m \notin journal'[i].msgs
    <3>1. CASE m \in e.msgs
      <4>1. journal[1].status = "completed" /\ m \in journal[1].msgs
        BY <1>1, <1>3, <2>1, <3>1
      <4>2. rack[m] = "completed" /\ \A k \in 1 .. Len(journal) : k > 1 => m \notin journal[k].msgs
        BY <1>3, <4>1 DEF IInv, CompletionIsLast
      <4> QED BY <1>3, <4>2
    <3>2. CASE m \notin e.msgs
      <4>1. rack[m] = "completed" /\ \A i \in 1 .. Len(journal) : m \notin journal[i].msgs
        BY <1>1, <2>1, <3>2 DEF IInv, CompletionIsLast
      <4> QED BY <1>3, <4>1
    <3> QED BY <3>1, <3>2
  <2>2. ASSUME NEW i \in 1 .. Len(journal'), journal'[i].status = "completed",
               NEW m \in journal'[i].msgs
        PROVE  rack[m] = "completed"
               /\ \A k \in 1 .. Len(journal') : k > i => m \notin journal'[k].msgs
    <3>1. journal[i + 1].status = "completed" /\ m \in journal[i + 1].msgs
          /\ i + 1 \in 1 .. Len(journal)
      BY <1>3, <2>2
    <3>2. rack[m] = "completed"
          /\ \A k \in 1 .. Len(journal) : k > i + 1 => m \notin journal[k].msgs
      BY <3>1 DEF IInv, CompletionIsLast
    <3>3. \A k \in 1 .. Len(journal') : k > i => k + 1 > i + 1
      OBVIOUS
    <3> QED BY <1>3, <3>2, <3>3
  <2>3. rack' = rack
    BY <1>1
  <2> QED BY <2>1, <2>2, <2>3 DEF CompletionIsLast
<1>10. NoticesAreFinal'
  BY <1>1 DEF IInv, NoticesAreFinal, inbound
<1>11. HintsAreKept'
  <2>1. status' = status
    BY <1>1 DEF inbound
  <2>2. CASE e.type # "batch"
    <3>1. UNCHANGED << sweep, hinted >>
      BY <1>1, <2>2
    <3> QED BY <1>2, <1>8, <2>1, <3>1 DEF IInv, HintsAreKept, SweepAhead, sweep
  <2>3. CASE e.type = "batch"
    <3>1. Request /\ hinted' = hinted \cup {m \in Msgs : ack[m] = "completed"}
      BY <1>1, <2>3
    <3>2. SweepAhead'
      BY <3>1 DEF Request, SweepAhead
    <3> QED BY <1>2, <1>8, <2>1, <3>1, <3>2 DEF IInv, HintsAreKept
  <2> QED BY <2>2, <2>3
<1> QED BY <1>6, <1>7, <1>9, <1>10, <1>11 DEF IInv

LEMMA NextIInv == IInv /\ [Next]_vars => IInv'
<1> SUFFICES ASSUME IInv, [Next]_vars PROVE IInv'
  OBVIOUS
<1>1. CASE UNCHANGED vars
  BY <1>1, StutterIInv
<1>2. CASE \/ \E m \in Msgs : Arrive(m) \/ BackoffEnds(m) \/ ClaimAges(m)
           \/ WakeElsewhere \/ ExitHandled \/ Crash \/ WakeSpawns
  BY <1>2, AroundStep
<1>3. CASE \/ TimerSweep \/ BeginRecovery \/ RecoverySucceeds \/ RecoveryFails
           \/ EndSweep \/ SweepThrows \/ HostRestart
  BY <1>3, SweepMoves
<1>4. CASE BeginSweep \/ PassAfterRecovery
  BY <1>4, PassStep DEF BeginSweep, PassAfterRecovery
<1>5. CASE WakeFails
  BY <1>5, WakeFailsStep
<1>6. CASE Boot \/ Claim \/ Complete
  BY <1>6, BootStep, ClaimStep, CompleteStep
<1>7. CASE ApplyEvent
  BY <1>7, ApplyStep
<1> QED BY <1>1, <1>2, <1>3, <1>4, <1>5, <1>6, <1>7 DEF Next, Sweep, SweepFault, Around, Runner

-----------------------------------------------------------------------------
\* The inductive invariant of the sweep holds in every reachable state.
THEOREM IInvAlways == Spec => []IInv
BY InitIInv, NextIInv, PTL DEF Spec

\* The rows of both databases, the sweep's place and the runner's journal
\* keep their types.
THEOREM TypeCorrect == Spec => []TypeOK
<1>1. IInv => TypeOK
  BY DEF IInv
<1> QED BY <1>1, IInvAlways, PTL

\* resetStuckProcessingRows never charges a message more tries than it was
\* claimed, whatever recoveries, kills and restarts come in between.
THEOREM TriesAreEarnedAlways == Spec => []TriesAreEarned
<1>1. IInv => TriesAreEarned
  <2> SUFFICES ASSUME IInv, NEW m \in Msgs
               PROVE  /\ tries[m] <= claims[m] + uncleared
                      /\ status[m] = "failed" => MaxTries < claims[m] + uncleared
    BY DEF TriesAreEarned
  <2>1. /\ tries[m] \in Nat /\ Charged(m) \in Nat /\ Queued(journal, m) \in Nat
        /\ claims[m] \in Nat /\ uncleared \in Nat
        /\ Charged(m) + (IF ack[m] = "processing" THEN 1 ELSE 0) + Queued(journal, m)
             <= claims[m] + uncleared
    BY ClaimCounts DEF IInv
  <2>2. Charged(m) <= claims[m] + uncleared
    BY <2>1
  <2>3. tries[m] <= Charged(m) /\ (status[m] = "failed" => Charged(m) = MaxTries + 1)
    BY <2>1 DEF Charged, IInv, NoticesAreFinal
  <2> QED BY BoundsAssumption, <2>1, <2>2, <2>3
<1> QED BY <1>1, IInvAlways, PTL

\* The user is told to send a message again only after its last try.
THEOREM NoticesFollowTheLastTry == Spec => []NoticeAfterLastTry
<1>1. IInv => NoticeAfterLastTry
  BY DEF IInv, NoticesAreFinal, NoticeAfterLastTry
<1> QED BY <1>1, IInvAlways, PTL

\* A batch reported while a sweep runs makes it run again: once no sweep
\* runs, what the batch completed is completed in messages_in.
THEOREM HintsAreNotLost == Spec => []HintIsNotLost
<1>1. IInv => HintIsNotLost
  BY DEF IInv, HintsAreKept, SweepAhead, HintIsNotLost
<1> QED BY <1>1, IInvAlways, PTL

-----------------------------------------------------------------------------
(* What is completed stays completed *)

LEMMA AckStep ==
  ASSUME IInv, [Next]_vars, NEW m \in Msgs, ack[m] = "completed"
  PROVE  ack'[m] = "completed"
<1>1. CASE UNCHANGED outbound
  BY <1>1 DEF outbound
<1>2. CASE ApplyEvent
  <2>1. /\ journal \in Seq(Event) /\ journal # << >>
        /\ ack' = [n \in Msgs |-> IF n \in Head(journal).msgs THEN Head(journal).status ELSE ack[n]]
    BY <1>2 DEF ApplyEvent, IInv, TypeOK
  <2>2. 1 \in 1 .. Len(journal) /\ Head(journal) = journal[1]
    BY <2>1
  <2>3. m \notin Head(journal).msgs
    BY <2>2 DEF IInv, CompletionIsLast
  <2> QED BY <2>1, <2>3
<1>3. ASSUME NEW st, Reset(st)
      PROVE  ack'[m] = "completed"
  <2>1. ack' = Unclaimed \/ ack' = ack
    BY <1>3 DEF Reset, outbound
  <2>2. Unclaimed[m] = "completed"
    BY DEF Unclaimed
  <2> QED BY <2>1, <2>2
<1>4. CASE Pass
  <2>1. ack' = ack \/ Reset(Synced)
    BY <1>4 DEF Pass, KillAndReset, KillSilent, LeaveRunning, ResetStopped, outbound
  <2> QED BY <1>3, <2>1
<1>5. CASE WakeFails
  BY <1>3, <1>5 DEF WakeFails, ResetStopped
<1>6. CASE UNCHANGED vars
  BY <1>6 DEF vars, outbound
<1>7. CASE ClaimAges(m) \/ \E n \in Msgs : Arrive(n) \/ BackoffEnds(n) \/ ClaimAges(n)
  BY <1>7 DEF Arrive, BackoffEnds, ClaimAges, outbound
<1>8. CASE Sweep \/ SweepFault
  BY <1>1, <1>4, <1>5, <1>8 DEF Sweep, SweepFault, BeginSweep, BeginRecovery, RecoverySucceeds,
     PassAfterRecovery, WakeSpawns, EndSweep, RecoveryFails, SweepThrows, HostRestart
<1>9. CASE Around
  BY <1>1, <1>2, <1>7, <1>9 DEF Around, WakeElsewhere, ExitHandled, TimerSweep
<1>10. CASE Runner
  BY <1>1, <1>10 DEF Runner, Boot, Claim, Complete, Crash
<1> QED BY <1>6, <1>8, <1>9, <1>10 DEF Next

\* What the host has recorded as completed is never claimed, deleted or reset
\* afterwards, however the runner's queued events, a kill and a restart fall.
THEOREM CompletionsStickAlways == Spec => CompletionsStick
<1>1. IInv /\ [Next]_vars => [\A m \in Msgs : ack[m] = "completed" => ack'[m] = "completed"]_vars
  BY AckStep
<1> QED BY <1>1, IInvAlways, NextIInv, PTL DEF Spec, CompletionsStick
==============================================================================
