------------------------------ MODULE SeqAlloc ------------------------------
(***************************************************************************)
(* The numbers (seq) of a session's messages: even ones allocated by the   *)
(* host for messages_in and for its own messages_out rows, odd ones by the *)
(* runner and by the ncl sidecar of its container, which never open the    *)
(* host's databases. The runner knows the host's numbers from the journal  *)
(* of host events; the host checks every odd number before it stores it.   *)
(*                                                                         *)
(* Simplifications:                                                        *)
(*  - a row is its id and its number;                                      *)
(*  - both journals are applied in order, each event once: what the        *)
(*    session link provides (SessionLink, OrderedJournal);                 *)
(*  - after Fork the model follows the new session; a fork copies any      *)
(*    subset of the rows (the cut compares timeline positions and          *)
(*    timestamps of two clocks).                                           *)
(***************************************************************************)
EXTENDS Integers, Sequences

CONSTANTS
  HostIds,    \* ids of the rows the host inserts: a platform may redeliver one
  RunnerIds,  \* ids the runner and the sidecar generate, each used once
  NoOp,       \* no host insertion is under way
  MaxSeq,     \* bound on the numbers the host allocates
  MaxForks    \* bound on forks

ASSUME IdsAssumption == HostIds \cap RunnerIds = {}
ASSUME NoOpAssumption == NoOp \notin [table : {"in", "out"}, id : HostIds, seq : Nat]
ASSUME BoundsAssumption == MaxSeq \in Nat /\ MaxForks \in Nat

VARIABLES
  lastEven,    \* inbound.db host_sequence.last_even
  hostIn,      \* inbound.db messages_in
  hostOut,     \* outbound.db messages_out
  hostEvents,  \* inbound.db pending_host_events the runner has not applied
  op,          \* the insertion between its allocation and its INSERT
  floor,       \* runner-state.db host_state.sequence_floor
  runIn,       \* runner-state.db messages_in
  runOut,      \* runner-state.db messages_out
  runEvents,   \* runner-state.db message events the host has not applied
  forks

hostVars == <<lastEven, hostIn, hostOut, hostEvents, op>>
runnerVars == <<floor, runIn, runOut, runEvents>>
vars == <<hostVars, runnerVars, forks>>

Row == [id : HostIds \cup RunnerIds, seq : Nat]
Op == [table : {"in", "out"}, id : HostIds, seq : Nat]
Floor(n) == [type |-> "floor", seq |-> n]
Upsert(r) == [type |-> "row", row |-> r]
HostEvent == [type : {"floor"}, seq : Nat] \cup [type : {"row"}, row : Row]

Even(n) == n % 2 = 0
Seqs(rows) == {r.seq : r \in rows}
Ids(rows) == {r.id : r \in rows}

\* m is COALESCE(MAX(seq), 0) over the numbers S
IsMax(m, S) == m \in S \cup {0} /\ \A n \in S : n <= m

\* The odd number that follows the maximum seen
NextOdd(m) == IF Even(m) THEN m + 1 ELSE m + 2

-----------------------------------------------------------------------------
Init ==
  /\ lastEven = 0
  /\ hostIn = {} /\ hostOut = {}
  /\ hostEvents = <<>>
  /\ op = NoOp
  /\ floor = 0
  /\ runIn = {} /\ runOut = {}
  /\ runEvents = <<>>
  /\ forks = 0

(***************************************************************************)
(* Host                                                                    *)
(***************************************************************************)

\* Mutant of NextEven: the host counts by one.
CountByOne(n) == n + 1
NextEven(n) == n + 2

\* nextEvenSeq commits by itself, and its trigger journals the new floor,
\* before the row that is to have the number is inserted.
Allocate(table, id) ==
  /\ op = NoOp
  /\ lastEven < MaxSeq
  /\ lastEven' = NextEven(lastEven)
  /\ hostEvents' = Append(hostEvents, Floor(NextEven(lastEven)))
  /\ op' = [table |-> table, id |-> id, seq |-> NextEven(lastEven)]
  /\ UNCHANGED <<hostIn, hostOut, runnerVars, forks>>

\* insertMessage, insertTask, insertRecurrence: the INSERT fails when the id
\* is in the table, and the number is then held by no row.
InsertIn ==
  /\ op # NoOp /\ op.table = "in"
  /\ \/ /\ op.id \in Ids(hostIn)
        /\ UNCHANGED <<hostIn, hostEvents>>
     \/ /\ op.id \notin Ids(hostIn)
        /\ LET r == [id |-> op.id, seq |-> op.seq] IN
             /\ hostIn' = hostIn \cup {r}
             /\ hostEvents' = Append(hostEvents, Upsert(r))
  /\ op' = NoOp
  /\ UNCHANGED <<lastEven, hostOut, runnerVars, forks>>

\* insertOutboundBounce, writeOutboundDirect: the row goes to the other
\* database, whose host rows are not journaled to the runner.
InsertOut ==
  /\ op # NoOp /\ op.table = "out"
  /\ hostOut' = IF op.id \in Ids(hostOut) THEN hostOut
                ELSE hostOut \cup {[id |-> op.id, seq |-> op.seq]}
  /\ op' = NoOp
  /\ UNCHANGED <<lastEven, hostIn, hostEvents, runnerVars, forks>>

\* The host stops between the two statements (or the second one throws).
HostCrash ==
  /\ op # NoOp
  /\ op' = NoOp
  /\ UNCHANGED <<lastEven, hostIn, hostOut, hostEvents, runnerVars, forks>>

\* Mutant of HostSeen: the inbound maximum is not passed to the check.
OwnTableSeen == Seqs(hostOut)

\* What the host takes its maximum of: applyMessage gets the inbound one.
HostSeen == Seqs(hostIn) \cup Seqs(hostOut)

\* The host's check of an odd number against its own rows
Acceptable(n) ==
  /\ ~Even(n)
  /\ \A r \in hostOut : ~Even(r.seq) => r.seq < n
  /\ \A m \in HostSeen \cup {0} : IsMax(m, HostSeen) => n <= NextOdd(m)

\* A message event is applied when its number is acceptable; otherwise it is
\* rejected, stays at the head of the runner's journal and is sent again.
ApplyRunnerMessage ==
  /\ op = NoOp
  /\ runEvents # <<>>
  /\ Acceptable(Head(runEvents).seq)
  /\ hostOut' = hostOut \cup {Head(runEvents)}
  /\ runEvents' = Tail(runEvents)
  /\ UNCHANGED <<lastEven, hostIn, hostEvents, op, floor, runIn, runOut, forks>>

\* A fork copies rows with their ids and numbers, restarts the counter at
\* the largest even one and seeds the runner's database with the copied
\* outbound.db. The inserts into messages_in are journaled, then the floor.
Fork ==
  /\ op = NoOp
  /\ forks < MaxForks
  /\ \E I \in SUBSET hostIn, O \in SUBSET hostOut :
     \E m \in 0 .. MaxSeq, n \in 0 .. MaxSeq :
       /\ IsMax(m, {k \in Seqs(I) \cup Seqs(O) : Even(k)})
       /\ \E rows \in [1 .. n -> I] :
            /\ \A i, j \in 1 .. n : i < j => rows[i].seq < rows[j].seq
            /\ \A r \in I : \E i \in 1 .. n : rows[i] = r
            /\ hostEvents' = Append([i \in 1 .. n |-> Upsert(rows[i])], Floor(m))
       /\ hostIn' = I
       /\ hostOut' = O
       /\ lastEven' = m
       /\ runOut' = O
  /\ floor' = 0
  /\ runIn' = {}
  /\ runEvents' = <<>>
  /\ forks' = forks + 1
  /\ UNCHANGED op

(***************************************************************************)
(* Runner                                                                  *)
(***************************************************************************)

\* applyHostEvent; the host sends what is committed between its handlers.  No
\* handler of the host deletes a row of messages_in, so that no event does.
ApplyHostEvent ==
  /\ op = NoOp
  /\ hostEvents # <<>>
  /\ LET e == Head(hostEvents) IN
       \/ /\ e.type = "floor"
          /\ floor' = IF e.seq > floor THEN e.seq ELSE floor
          /\ UNCHANGED runIn
       \/ /\ e.type = "row"
          /\ runIn' = {r \in runIn : r.id # e.row.id} \cup {e.row}
          /\ UNCHANGED floor
  /\ hostEvents' = Tail(hostEvents)
  /\ UNCHANGED <<lastEven, hostIn, hostOut, op, runOut, runEvents, forks>>

\* Mutant of RunnerSeq: the next number, whatever its parity.
AnySeq(m) == m + 1

\* The number a writer of messages_out takes, under the write lock
RunnerSeq(m) == NextOdd(m)

\* What the writer takes the maximum of
RunnerKnown == Seqs(runOut) \cup {floor} \cup Seqs(runIn)

\* writeMessageOut of the runner or writeRequest of the sidecar: one
\* transaction holds the lock, reads the maxima and inserts; a trigger
\* journals the row.
WriteMessageOut(id) ==
  /\ id \notin Ids(runOut)
  /\ \E m \in RunnerKnown \cup {0} :
       /\ IsMax(m, RunnerKnown)
       /\ LET r == [id |-> id, seq |-> RunnerSeq(m)] IN
            /\ runOut' = runOut \cup {r}
            /\ runEvents' = Append(runEvents, r)
  /\ UNCHANGED <<hostVars, floor, runIn, forks>>

-----------------------------------------------------------------------------
HostNext ==
  \/ \E table \in {"in", "out"}, id \in HostIds : Allocate(table, id)
  \/ InsertIn \/ InsertOut \/ HostCrash
  \/ ApplyRunnerMessage
  \/ Fork

RunnerNext == ApplyHostEvent \/ \E id \in RunnerIds : WriteMessageOut(id)

Next == HostNext \/ RunnerNext

Spec == Init /\ [][Next]_vars

-----------------------------------------------------------------------------
\* The type invariant of the databases, their journals and the insertion under way.
TypeOK ==
  /\ lastEven \in Nat /\ Even(lastEven)
  /\ hostIn \subseteq Row /\ hostOut \subseteq Row
  /\ hostEvents \in Seq(HostEvent)
  /\ op \in Op \cup {NoOp}
  /\ floor \in Nat
  /\ runIn \subseteq Row /\ runOut \subseteq Row
  /\ runEvents \in Seq(Row)
  /\ forks \in Nat

\* A number the agent sees (the id of send_message, edit_message and
\* add_reaction) names one message: whatever row the runner finds for it in
\* either of its tables is the row the host has for it in either of its own
\* (getMessageIdBySeq; "agent's 'edit message #5' could resolve to the wrong
\* row"). Duplicates, forks and host stops included.
SeqNamesOneMessage ==
  \A r \in runIn \cup runOut, h \in hostIn \cup hostOut :
    r.seq = h.seq => r.id = h.id

Numbers == INSTANCE MessageNumbers WITH
             rows <- hostIn \cup hostOut \cup runIn \cup runOut, known <- runIn \cup runOut

\* Numbers are given out once and stay: neither side, allocating without the
\* other, ever takes a number that a row on any side has, and what the agent
\* was shown as #n stays in the runner's tables as #n, whatever is redelivered
\* or refused, and whenever the host stops; only a fork leaves messages behind.
NumbersAreKept == Numbers!Spec

\* The next output of the runner passes the host's check, so that an output
\* is never rejected (docs/db-session.md: the host "validates and applies
\* that exact odd seq").
NextOutputAccepted == runEvents # <<>> => Acceptable(Head(runEvents).seq)

\* An output is rejected only because of numbers the host allocated and used
\* for no row, above every row it has: never because the runner lags behind,
\* because the sidecar wrote in between, because rows of the host are not
\* journaled to the runner or because the session is a fork.
RejectedOnlyAboveUnusedNumber ==
  op = NoOp /\ ~NextOutputAccepted
    => lastEven > 0 /\ \A h \in hostIn \cup hostOut : h.seq < lastEven
=============================================================================
