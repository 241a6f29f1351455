------------------------------ MODULE InputTurn ------------------------------
(***************************************************************************)
(* The inputs of one session in the agent runner with the native provider: *)
(* from the row the host delivered, through the claim of a turn or the     *)
(* steering of a running one, to its completion; with edit and cancel      *)
(* requests, the user's stop, and crashes of the container.                *)
(*                                                                         *)
(* Durable state is what session.db and the provider's store keep; the     *)
(* rest is memory of the container.  A poll of the follow-up watcher runs  *)
(* without an await: it answers the waiting requests and then offers, or   *)
(* claims and pushes, what waits.  The provider works on its own, a step   *)
(* at a time, between the polls.                                           *)
(*                                                                         *)
(* Tasks and slash commands appear by what they do to the query; the turn  *)
(* of their own they run in does not.  The cap on the messages of a prompt *)
(* is left out.                                                            *)
(***************************************************************************)
EXTENDS Naturals, FiniteSets

CONSTANTS
    Inputs,     \* chat inputs the host may deliver
    Steerable,  \* inputs that ask to steer the running turn
    MaxCrashes  \* BOUND: crashes of the container

ASSUME InputsAssumption == IsFiniteSet(Inputs) /\ Steerable \subseteq Inputs
ASSUME CrashesAssumption == MaxCrashes \in Nat

VARIABLES
    row,        \* messages_in: status of each input
    text,       \* messages_in: its text, as sent or as edited
    request,    \* messages_in: the edit or cancel request that names it
    answer,     \* the receipt of that request
    ack,        \* processing_ack
    claimed,    \* claimed_inputs
    disposition,\* session_state: what the user is told of the input
    openTurns,  \* number of turns rows that are not settled
    ingested,   \* applied_steering of the provider's store
    pc,         \* the main loop
    turn,       \* execution.current
    turnActive,
    finishing,  \* resultFinishing: waiting for tools, or before the boundary
    ended,      \* endedForCommand
    halt,       \* who called query.abort()
    consumed,   \* consumedIds
    accepted,   \* steering.inputs
    declined,   \* steering.declined
    prov,       \* the provider
    prompt,     \* the text of each input in the prompt it was given
    buffer,     \* the provider's steering buffer
    prepared,   \* what it prepared from the buffer for its next step
    unsaid,     \* appliedSteeringIds: steering_applied not yet yielded
    crashes,
    entered,    \* history: the texts of each input that reached the model
    times,      \* history: how often it did, see Crash
    stopped,    \* history: inputs of the turns the user stopped
    excused     \* history: inputs of the turns whose exchange failed, with a notice or, after a
                \* retryable error, without one

rows == << row, text, request, answer >>
durable == << ack, claimed, disposition, openTurns, ingested >>
loop == << pc, turn, turnActive, finishing, ended, halt, consumed, accepted, declined >>
provider == << prov, prompt, buffer, prepared, unsaid >>
history == << entered, times, stopped, excused >>
vars == << rows, durable, loop, provider, crashes, history >>

Text == {"none", "sent", "edited"}
Nothing == [i \in Inputs |-> "none"]

\* One type invariant for the tables, the loop and the provider.
TypeOK ==
    /\ row \in [Inputs -> {"absent", "pending", "completed"}]
    /\ text \in [Inputs -> {"sent", "edited"}]
    /\ request \in [Inputs -> {"none", "edit", "cancel"}]
    /\ answer \in [Inputs -> {"none", "accepted", "conflict"}]
    /\ ack \in [Inputs -> {"none", "processing", "completed"}]
    /\ claimed \subseteq Inputs
    /\ disposition \in [Inputs -> {"none", "queued", "steering", "applied", "processing",
                                   "cancelled"}]
    /\ openTurns \in Nat
    /\ ingested \subseteq Inputs
    /\ pc \in {"down", "idle", "query"}
    /\ turn \in {"none", "open", "settled"}
    /\ turnActive \in BOOLEAN
    /\ finishing \in {"no", "tools", "boundary"}
    /\ ended \in BOOLEAN
    /\ halt \in {"no", "user", "command"}
    /\ consumed \subseteq Inputs
    /\ accepted \subseteq Inputs
    /\ declined \subseteq Inputs
    /\ prov \in {"idle", "asked", "working"}
    /\ prompt \in [Inputs -> Text]
    /\ buffer \in [Inputs -> Text]
    /\ prepared \in [Inputs -> Text]
    /\ unsaid \subseteq Inputs
    /\ crashes \in 0 .. MaxCrashes
    /\ entered \in [Inputs -> SUBSET {"sent", "edited"}]
    /\ times \in [Inputs -> Nat]
    /\ stopped \subseteq Inputs
    /\ excused \subseteq Inputs

Init ==
    /\ row = [i \in Inputs |-> "absent"]
    /\ text = [i \in Inputs |-> "sent"]
    /\ request = Nothing
    /\ answer = Nothing
    /\ ack = Nothing
    /\ claimed = {}
    /\ disposition = Nothing
    /\ openTurns = 0
    /\ ingested = {}
    /\ pc = "idle"
    /\ turn = "none"
    /\ turnActive = FALSE
    /\ finishing = "no"
    /\ ended = FALSE
    /\ halt = "no"
    /\ consumed = {}
    /\ accepted = {}
    /\ declined = {}
    /\ prov = "idle"
    /\ prompt = Nothing
    /\ buffer = Nothing
    /\ prepared = Nothing
    /\ unsaid = {}
    /\ crashes = 0
    /\ entered = [i \in Inputs |-> {}]
    /\ times = [i \in Inputs |-> 0]
    /\ stopped = {}
    /\ excused = {}

\* f with the value v at the members of S.
With(f, S, v) == [i \in Inputs |-> IF i \in S THEN v ELSE f[i]]

-----------------------------------------------------------------------------
(* The host: session-link delivers the rows in whatever state the runner is. *)

\* A chat message of the user.
Submit(i) ==
    /\ row[i] = "absent"
    /\ row' = [row EXCEPT ![i] = "pending"]
    /\ UNCHANGED << text, request, answer, durable, loop, provider, crashes, history >>

\* A request of its author to edit or cancel it; at most one per input here.
Ask(i, operation) ==
    /\ row[i] = "pending" /\ request[i] = "none"
    /\ request' = [request EXCEPT ![i] = operation]
    /\ UNCHANGED << row, text, answer, durable, loop, provider, crashes, history >>

-----------------------------------------------------------------------------
(* processPendingInputEdits: the waiting requests are answered, each in a  *)
(* transaction of its own, before the rest of the poll reads the rows.     *)
(* They name different inputs and there is no await between them.          *)

Asked == {i \in Inputs : request[i] # "none" /\ answer[i] = "none"}

\* Mutant of NotPending: the provider's store is not asked.
NotPendingHere(i) ==
    \/ row[i] # "pending"
    \/ disposition[i] \in {"processing", "applied", "cancelled"}
    \/ i \in claimed
    \/ ack[i] # "none"

\* The input was claimed, completed, or ingested by the provider.
NotPending(i) ==
    \/ row[i] # "pending"
    \/ disposition[i] \in {"processing", "applied", "cancelled"}
    \/ i \in claimed
    \/ ack[i] # "none"
    \/ i \in ingested

\* steer, replaceSteering and cancelSteering refuse, unless the provider is in a turn that was
\* not aborted ...
TakesSteering == prov = "working" /\ halt = "no"

\* ... and the latter two, when it has begun to prepare the input.
SteeringConsumed(i) ==
    i \in accepted /\ (~TakesSteering \/ prepared[i] # "none" \/ buffer[i] = "none")

Honoured == {i \in Asked : ~NotPending(i) /\ ~SteeringConsumed(i)}
Cancelled == {i \in Honoured : request[i] = "cancel"}
Edited == Honoured \ Cancelled

AnswerRequests ==
    /\ answer' = [i \in Inputs |-> IF i \notin Asked THEN answer[i]
                                   ELSE IF i \in Honoured THEN "accepted" ELSE "conflict"]
    /\ text' = With(text, Edited, "edited")
    /\ row' = With(row, Cancelled, "completed")
    /\ UNCHANGED request

\* getPendingMessages, after the requests were answered.
Waiting == {i \in Inputs : row[i] = "pending" /\ ack[i] = "none"} \ Cancelled

\* The provider's buffer after them.
BufferNow == [i \in Inputs |-> IF buffer[i] = "none" \/ i \in Cancelled THEN "none"
                               ELSE IF i \in Edited THEN "edited" ELSE buffer[i]]

-----------------------------------------------------------------------------
(* The main loop. *)

\* The texts a prompt made of the inputs in batch carries.
PromptOf(batch) == [i \in Inputs |-> IF i \in batch THEN text'[i] ELSE "none"]

\* beginTurn and the prompt of the new turn.
Begin(batch) ==
    /\ openTurns' = openTurns + 1
    /\ turn' = "open"
    /\ turnActive' = TRUE
    /\ consumed' = batch
    /\ prov' = "asked"
    /\ prompt' = PromptOf(batch)

\* Mutant of Ingested: the main loop does not recover what the provider has applied.
NoneIngested == {}

\* appliedSteering, asked for the waiting inputs.
Ingested == Waiting \cap ingested

\* One iteration of runPollLoop: what the provider has already applied is completed, the
\* rest is claimed and starts a query.
MainPoll ==
    LET batch == Waiting \ Ingested
    IN  /\ pc = "idle"
        /\ Asked # {} \/ Waiting # {}
        /\ AnswerRequests
        /\ ack' = With(With(ack, Cancelled \cup Ingested, "completed"), batch, "processing")
        /\ disposition' = With(With(With(disposition, Cancelled, "cancelled"),
                                    Ingested, "applied"), batch, "processing")
        /\ claimed' = claimed \cup batch
        /\ IF batch = {} THEN UNCHANGED << openTurns, turn, turnActive, consumed, prov, prompt, pc >>
           ELSE Begin(batch) /\ pc' = "query"
        /\ UNCHANGED << ingested, finishing, ended, halt, accepted, declined, buffer, prepared,
                        unsaid, crashes, history >>

-----------------------------------------------------------------------------
(* The follow-up watcher. *)

\* A poll runs: not closed, and no result is being finished.
Polling == pc = "query" /\ halt # "user" /\ ~ended /\ finishing = "no"

\* SteeringSession.offer: the provider takes every candidate, or none.
OfferPoll ==
    LET candidates == (Waiting \cap Steerable) \ (accepted \cup declined)
        taken      == IF TakesSteering THEN candidates ELSE {}
    IN  /\ Polling /\ turnActive
        /\ Asked # {} \/ candidates # {} \/ \E i \in Waiting : disposition[i] = "none"
        /\ AnswerRequests
        /\ ack' = With(ack, Cancelled, "completed")
        /\ disposition' = With(With(With(disposition, Waiting \ accepted, "queued"),
                                    taken, "steering"), Cancelled, "cancelled")
        /\ accepted' = (accepted \ Cancelled) \cup taken
        /\ declined' = declined \cup (candidates \ taken)
        /\ buffer' = [i \in Inputs |-> IF i \in taken THEN text'[i] ELSE BufferNow[i]]
        /\ UNCHANGED << claimed, openTurns, ingested, pc, turn, turnActive, finishing, ended,
                        halt, consumed, prov, prompt, prepared, unsaid, crashes, history >>

\* Between turns the poll claims what waits and pushes it as the next turn.
FollowUpPoll ==
    /\ Polling /\ ~turnActive
    /\ Asked # {} \/ Waiting # {}
    /\ AnswerRequests
    /\ ack' = With(With(ack, Cancelled, "completed"), Waiting, "processing")
    /\ disposition' = With(With(disposition, Cancelled, "cancelled"), Waiting, "processing")
    /\ claimed' = claimed \cup Waiting
    /\ IF Waiting = {} THEN UNCHANGED << openTurns, turn, turnActive, consumed, prov, prompt >>
       ELSE Begin(Waiting)
    /\ UNCHANGED << ingested, pc, finishing, ended, halt, accepted, declined, buffer, prepared,
                    unsaid, crashes, history >>

\* The poll finds a task, or between turns a restart, and ends the stream; or a slash
\* command, and aborts it.
ClosingPoll(how) ==
    /\ Polling
    /\ how = "command" => prov # "asked"
    /\ AnswerRequests
    /\ ack' = With(ack, Cancelled, "completed")
    /\ disposition' = With(disposition, Cancelled, "cancelled")
    /\ accepted' = accepted \ Cancelled
    /\ buffer' = BufferNow
    /\ ended' = TRUE
    /\ halt' = IF how = "command" THEN "command" ELSE halt
    /\ UNCHANGED << claimed, openTurns, ingested, pc, turn, turnActive, finishing, consumed,
                    declined, prov, prompt, prepared, unsaid, crashes, history >>

\* The commit of a request that has changed the provider's buffer fails: its transaction rolls
\* back, the query is aborted, and the request waits for another poll.
CommitFails(i) ==
    /\ Polling
    /\ i \in Honoured \cap accepted
    /\ buffer' = [buffer EXCEPT ![i] = BufferNow[i]]
    /\ halt' = "command"
    /\ UNCHANGED << rows, durable, pc, turn, turnActive, finishing, ended, consumed, accepted,
                    declined, prov, prompt, prepared, unsaid, crashes, history >>

-----------------------------------------------------------------------------
(* The provider. *)

\* The inputs in S reach the model.
Enter(S, said) ==
    /\ entered' = [i \in Inputs |-> entered[i] \cup (IF i \in S THEN {said[i]} ELSE {})]
    /\ times' = [i \in Inputs |-> IF i \in S THEN times[i] + 1 ELSE times[i]]

In(f) == {i \in Inputs : f[i] # "none"}

\* The provider starts on its prompt.
Take ==
    /\ prov = "asked"
    /\ prov' = "working"
    /\ Enter(In(prompt), prompt)
    /\ UNCHANGED << rows, durable, loop, prompt, buffer, prepared, unsaid, crashes, stopped,
                    excused >>

\* Between two steps it prepares the steering in its buffer, one input at a time.
Prepare(i) ==
    /\ prov = "working" /\ halt = "no" /\ ~ended
    /\ unsaid = {}
    /\ buffer[i] # "none" /\ prepared[i] = "none"
    /\ prepared' = [prepared EXCEPT ![i] = buffer[i]]
    /\ UNCHANGED << rows, durable, loop, prov, prompt, buffer, unsaid, crashes, history >>

\* journal.applySteering: all of it is prepared, and becomes part of the conversation.
Apply ==
    /\ prov = "working" /\ halt = "no" /\ ~ended
    /\ In(prepared) # {} /\ In(prepared) = In(buffer)
    /\ ingested' = ingested \cup In(prepared)
    /\ unsaid' = In(prepared)
    /\ Enter(In(prepared), prepared)
    /\ buffer' = Nothing
    /\ prepared' = Nothing
    /\ UNCHANGED << rows, ack, claimed, disposition, openTurns, loop, prov, prompt, crashes,
                    stopped, excused >>

\* steering_applied reaches the runner, after the user's stop too.
Acknowledge(i) ==
    /\ pc = "query" /\ i \in unsaid
    /\ disposition' = [disposition EXCEPT ![i] = "applied"]
    /\ IF halt = "user" THEN ack' = [ack EXCEPT ![i] = "completed"] /\ UNCHANGED claimed
       ELSE ack' = [ack EXCEPT ![i] = "processing"] /\ claimed' = claimed \cup {i}
    /\ accepted' = accepted \ {i}
    /\ consumed' = consumed \cup {i}
    /\ unsaid' = unsaid \ {i}
    /\ UNCHANGED << rows, openTurns, ingested, pc, turn, turnActive, finishing, ended, halt,
                    declined, prov, prompt, buffer, prepared, crashes, history >>

\* The provider's turn is over with a result: nothing is half prepared unless the stream was
\* ended, and steering beyond its last step is left behind.
ProviderResult ==
    /\ prov = "working" /\ halt = "no"
    /\ unsaid = {} /\ (In(prepared) = {} \/ ended)
    /\ prov' = "idle"
    /\ prompt' = Nothing
    /\ buffer' = Nothing
    /\ prepared' = Nothing
    /\ finishing' = "tools"
    /\ UNCHANGED << rows, durable, pc, turn, turnActive, ended, halt, consumed, accepted,
                    declined, unsaid, crashes, history >>

\* The provider's exchange ends with an error, before or within its turn.
ExchangeFails ==
    /\ prov \in {"asked", "working"} /\ halt = "no"
    /\ prov' = "idle"
    /\ prompt' = Nothing
    /\ buffer' = Nothing
    /\ prepared' = Nothing
    /\ unsaid' = {}
    /\ excused' = excused \cup consumed
    /\ UNCHANGED << rows, durable, pc, turn, turnActive, finishing, halt, consumed, accepted,
                    declined, crashes, entered, times, stopped >>

\* It fails for good: the error event ends the stream.
ProviderFails == ExchangeFails /\ ended' = TRUE

\* It fails with a retryable error, which the runner ignores: no result comes, the turn stays
\* active, and the provider waits for a prompt that no poll pushes.
RetryableError == ExchangeFails /\ UNCHANGED ended

\* abortRunaway
AbortRunaway ==
    /\ prov = "working" /\ halt = "no" /\ ~ended
    /\ ended' = TRUE
    /\ halt' = "command"
    /\ UNCHANGED << rows, durable, pc, turn, turnActive, finishing, consumed, accepted, declined,
                    provider, crashes, history >>

-----------------------------------------------------------------------------
(* The end of a turn. *)

\* SteeringSession.releaseUnapplied
Release == With(disposition, accepted, "queued")

\* The result handler once the tools are done: the batch is completed; a reply keeps the
\* stream open, silence ends it.
FinishResult(ends) ==
    /\ finishing = "tools" /\ halt = "no"
    /\ finishing' = "boundary"
    /\ disposition' = Release
    /\ accepted' = {}
    /\ declined' = {}
    /\ ack' = With(ack, consumed, "completed")
    /\ turnActive' = FALSE
    /\ ended' = (ended \/ ends)
    /\ UNCHANGED << rows, claimed, openTurns, ingested, pc, turn, halt, consumed, provider,
                    crashes, history >>

\* Mutant of Settled: a turn settled at its boundary is settled again when the stream is over.
SettledTwice == openTurns - 1

\* settleTurn, which does nothing for a turn that is settled.
Settled == IF turn = "open" THEN openTurns - 1 ELSE openTurns

\* settleAtBoundary: a turn without a reply that ended the stream is settled when it is over.
Settle(settles) ==
    /\ finishing = "boundary"
    /\ settles \/ ended
    /\ finishing' = "no"
    /\ openTurns' = IF settles THEN Settled ELSE openTurns
    /\ turn' = IF settles THEN "settled" ELSE turn
    /\ UNCHANGED << rows, ack, claimed, disposition, ingested, pc, turnActive, ended, halt,
                    consumed, accepted, declined, provider, crashes, history >>

\* Mutant of StoppedInputs: the inputs are completed only when the stream is over.
NoStoppedInputs == {}

\* What the stop completes at once: queued and unapplied inputs are not in it.
StoppedInputs == consumed

\* onTurnStop: the inputs of the turn are completed before the provider is aborted.
StopTurn ==
    /\ pc = "query" /\ turnActive /\ halt # "user"
    /\ ack' = With(ack, StoppedInputs, "completed")
    /\ halt' = "user"
    /\ stopped' = stopped \cup consumed
    /\ UNCHANGED << rows, claimed, disposition, openTurns, ingested, pc, turn, turnActive,
                    finishing, ended, consumed, accepted, declined, provider, crashes, entered,
                    times, excused >>

\* Mutant of Orphans: the stream's end completes what it had accepted for steering too.
OrphansAndAccepted == consumed \cup accepted

\* completeOrphanedBatches
Orphans == consumed

\* The event stream is over: processQuery returns and its turn is settled.
StreamOver ==
    /\ pc = "query"
    /\ \/ halt = "user"
       \/ halt = "command" /\ finishing = "no"
       \/ ended /\ prov = "idle" /\ finishing = "no"
    /\ pc' = "idle"
    /\ disposition' = Release
    /\ ack' = With(ack, Orphans, "completed")
    /\ openTurns' = Settled
    /\ turn' = "none"
    /\ turnActive' = FALSE
    /\ finishing' = "no"
    /\ ended' = FALSE
    /\ halt' = "no"
    /\ consumed' = {}
    /\ accepted' = {}
    /\ declined' = {}
    /\ prov' = "idle"
    /\ prompt' = Nothing
    /\ buffer' = Nothing
    /\ prepared' = Nothing
    /\ unsaid' = {}
    /\ UNCHANGED << rows, claimed, ingested, crashes, history >>

-----------------------------------------------------------------------------
(* The container. *)

\* The container dies.  Only an input whose turn it interrupts, and which the provider's
\* store does not hold, may reach the model again: for the others times goes on counting.
Crash ==
    /\ pc # "down" /\ crashes < MaxCrashes
    /\ crashes' = crashes + 1
    /\ pc' = "down"
    /\ turn' = "none"
    /\ turnActive' = FALSE
    /\ finishing' = "no"
    /\ ended' = FALSE
    /\ halt' = "no"
    /\ consumed' = {}
    /\ accepted' = {}
    /\ declined' = {}
    /\ prov' = "idle"
    /\ prompt' = Nothing
    /\ buffer' = Nothing
    /\ prepared' = Nothing
    /\ unsaid' = {}
    /\ times' = With(times, {i \in Inputs \ ingested : ack[i] = "processing"}, 0)
    /\ UNCHANGED << rows, durable, entered, stopped, excused >>

\* Mutant of Stale: claims of the dead container are kept.
NoStale == {}

\* What clearStaleProcessingAcks deletes.
Stale == {i \in Inputs : ack[i] = "processing"}

\* Mutant of Abandoned: the turns of the dead container are left alone.
NotAbandoned == openTurns

\* The open turns after interruptAbandonedTurns.
Abandoned == 0

\* The next container starts its main loop.
Boot ==
    /\ pc = "down"
    /\ pc' = "idle"
    /\ openTurns' = Abandoned
    /\ claimed' = claimed \cup {i \in Inputs : ack[i] # "none"}
    /\ ack' = With(ack, Stale, "none")
    /\ UNCHANGED << rows, disposition, ingested, turn, turnActive, finishing, ended, halt,
                    consumed, accepted, declined, provider, crashes, history >>

Poll == OfferPoll \/ FollowUpPoll

Next ==
    \/ \E i \in Inputs : Submit(i)
    \/ \E i \in Inputs, operation \in {"edit", "cancel"} : Ask(i, operation)
    \/ MainPoll
    \/ OfferPoll
    \/ FollowUpPoll
    \/ \E how \in {"task", "command"} : ClosingPoll(how)
    \/ \E i \in Inputs : CommitFails(i)
    \/ Take
    \/ \E i \in Inputs : Prepare(i)
    \/ Apply
    \/ \E i \in Inputs : Acknowledge(i)
    \/ ProviderResult
    \/ ProviderFails
    \/ RetryableError
    \/ AbortRunaway
    \/ \E ends \in BOOLEAN : FinishResult(ends)
    \/ \E settles \in BOOLEAN : Settle(settles)
    \/ StopTurn
    \/ StreamOver
    \/ Crash
    \/ Boot

Spec == Init /\ [][Next]_vars

\* The host starts a container for waiting work; the loop, its watcher and the provider go on.
FairSpec ==
    /\ Spec
    /\ WF_vars(Boot)
    /\ WF_vars(MainPoll)
    /\ WF_vars(Poll)
    /\ WF_vars(Take)
    /\ WF_vars(\E i \in Inputs : Prepare(i))
    /\ WF_vars(Apply)
    /\ WF_vars(\E i \in Inputs : Acknowledge(i))
    /\ WF_vars(ProviderResult)
    /\ WF_vars(\E ends \in BOOLEAN : FinishResult(ends))
    /\ WF_vars(\E settles \in BOOLEAN : Settle(settles))
    /\ WF_vars(StreamOver)

-----------------------------------------------------------------------------
\* The answer to a request is what happens: a cancelled input never reaches the model, an
\* edited one reaches it only as edited, and a refused edit leaves the text as it was sent
\* (processPendingInputEdits against the buffer and the store of the provider).
RequestsAreHonoured ==
    \A i \in Inputs :
        /\ answer[i] = "accepted" /\ request[i] = "cancel" => entered[i] = {}
        /\ answer[i] = "accepted" /\ request[i] = "edit" => entered[i] \subseteq {"edited"}
        /\ answer[i] = "conflict" => entered[i] \subseteq {"sent"}

Box == INSTANCE Inbox WITH
         cancelled <- {i \in Inputs : row[i] = "completed"},
         read <- entered, done <- {i \in Inputs : ack[i] = "completed"}

\* A request takes effect in one moment: however its poll interleaves with the provider that
\* prepares, applies or is prompted with the input, with stops and with crashes, it is honoured
\* while the model has not read the input, or changes nothing; and no completion is undone
\* (processPendingInputEdits, replaceSteering, cancelSteering).
RequestsAreAtomic == Box!Spec

\* An input reaches the model once, as a prompt or as steering; only a crash within its turn
\* lets it be prompted again, and not if the provider had stored it
\* (the recovery by appliedSteering in runPollLoop).
PromptedOnce == \A i \in Inputs : times[i] <= 1

\* What the user stopped stays stopped: no later turn, not even after a crash while the
\* provider was still winding down, has it in its prompt (onTurnStop).
StopHolds == \A i \in stopped : halt # "user" => prompt[i] = "none"

\* An input is completed only after it reached the model, or because the user cancelled it or
\* stopped its turn, or its turn failed: with a notice, unless the error was retryable
\* (completeOrphanedBatches).
NothingDropped ==
    \A i \in Inputs : ack[i] = "completed"
        => entered[i] # {} \/ disposition[i] = "cancelled" \/ i \in stopped \cup excused

\* At most one turns row is open, the one of the running query; none while the loop looks
\* for input (settleTurn, interruptAbandonedTurns).
OneOpenTurn == openTurns <= 1 /\ (pc = "idle" => openTurns = 0)

\* A retryable error has left the turn active and without an exchange: only the user's stop, a
\* task, a slash command or a crash ends it.
Stranded == pc = "query" /\ turnActive /\ prov = "idle" /\ finishing = "no" /\ ~ended

\* Every input is completed in the end, however turns end, stop or crash, and whatever requests
\* and failed commits come between, unless a retryable error leaves the turn stranded, now or
\* once more each time it was released (turnActive, claimed_inputs, clearStaleProcessingAcks).
EveryInputCompletes ==
    \A i \in Inputs : row[i] = "pending" ~> ack[i] = "completed" \/ Stranded
=============================================================================
