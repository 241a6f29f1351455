------------------------------ MODULE WarmQuery ------------------------------
(***************************************************************************)
(* One provider query of the agent runner (processQuery in poll-loop.ts)   *)
(* and the delivery recovery of its turns (query/recovery.ts).             *)
(*                                                                         *)
(* A query starts with one input and stays open after its turn, so that    *)
(* the next input is pushed into it.  A turn ends with a result event; a   *)
(* result that delivered nothing is answered with a corrective prompt in   *)
(* the same turn, or ends the stream so that the finish of the query can   *)
(* tell the user why nothing came.  A task or a restart ends the stream, a *)
(* slash command, the runaway guard and the user abort it, at any moment.  *)
(*                                                                         *)
(* A result is handled in one step: its tools have been waited for, and    *)
(* resultFinishing keeps the follow-up poll out until the boundary.  When  *)
(* Claude compacts its context it yields one more result in the middle of  *)
(* an exchange, which the handler cannot tell from the answer to a prompt. *)
(*                                                                         *)
(* Texts are classes of what dispatchResultText finds in them.  Steering,  *)
(* accounting, archive prompts and continuations are left out, and so is   *)
(* the fresh query that retries a stale session.                           *)
(***************************************************************************)
EXTENDS Naturals, Sequences

CONSTANTS
    Providers,  \* providers under which the query may run
    MaxTurns    \* BOUND: turns of one query

ASSUME TurnsAssumption == MaxTurns \in Nat \ {0}
ASSUME ProvidersAssumption == Providers \subseteq {"opencode", "claude", "native"}

VARIABLES
    provider,    \* which provider runs the query
    oneShot,     \* ~persistContinuation: a task, or the explanation of a failure
    ended,       \* query.end() was called (endedForCommand), or the provider quit
    aborted,     \* who called query.abort()
    open,        \* processQuery still reads the event stream
    asked,       \* prompts the provider has not answered; it works on the first
    queue,       \* turnBatchQueue: turns whose rows no result has drained
    turn,        \* execution.current
    turnActive,
    rec,         \* the DeliveryRecovery object
    mcp,         \* routes of content rows that tools wrote since the last boundary
    failed,      \* lastProviderError is set
    resultSeen,
    outcome,     \* turns row of each turn
    told,        \* history: what the end of each turn told the user
    acted,       \* history: turns in which a tool ran or wrote content
    delivered,   \* history: turns that put a reply in the conversation
    unheard,     \* history: turns whose result led to nothing at all
    compacted    \* history: a compaction split an exchange since a prompt last found the
                 \* provider idle

vars == << provider, oneShot, ended, aborted, open, asked, queue, turn, turnActive, rec,
           mcp, failed, resultSeen, outcome, told, acted, delivered, unheard,
           compacted >>

Turns == 1 .. MaxTurns
MaxMalformed == 2  \* MAX_MALFORMED_TOOL_RECOVERY_ATTEMPTS
MaxReports == 2    \* MAX_POST_TOOL_DELIVERY_RECOVERY_ATTEMPTS

Recovery == [sentAny : BOOLEAN, silence : BOOLEAN, empty : BOOLEAN, nudged : BOOLEAN,
             exhausted : BOOLEAN, ran : BOOLEAN, malformed : 0 .. MaxMalformed,
             reports : 0 .. MaxReports, mode : {"none", "tool", "delivery"}]

FreshRecovery == [sentAny |-> FALSE, silence |-> FALSE, empty |-> FALSE, nudged |-> FALSE,
                  exhausted |-> FALSE, ran |-> FALSE, malformed |-> 0, reports |-> 0,
                  mode |-> "none"]

Prompt == [turn : Turns, kind : {"input", "wrap", "tool", "report"}, acted : BOOLEAN]

\* One type invariant for the state of the query (processQuery, DeliveryRecovery).
TypeOK ==
    /\ provider \in Providers
    /\ oneShot \in BOOLEAN
    /\ ended \in {"no", "asked", "quit"}
    /\ aborted \in {"no", "command", "runaway", "user"}
    /\ open \in BOOLEAN
    /\ asked \in Seq(Prompt)
    /\ queue \in Seq(Turns)
    /\ turn \in Turns
    /\ turnActive \in BOOLEAN
    /\ rec \in Recovery
    /\ mcp \subseteq {"on", "off"}
    /\ failed \in BOOLEAN
    /\ resultSeen \in BOOLEAN
    /\ outcome \in [Turns -> {"none", "pending", "replied", "silent", "warning", "failed",
                              "interrupted", "stopped"}]
    /\ told \in [Turns -> {"none", "reply", "choice", "runaway", "malformed", "delivery",
                           "empty", "error", "stopped"}]
    /\ acted \subseteq Turns
    /\ delivered \subseteq Turns
    /\ unheard \subseteq Turns
    /\ compacted \in BOOLEAN

Init ==
    /\ provider \in Providers
    /\ oneShot \in BOOLEAN
    /\ ended = "no"
    /\ aborted = "no"
    /\ open = TRUE
    /\ asked = << [turn |-> 1, kind |-> "input", acted |-> FALSE] >>
    /\ queue = << 1 >>
    /\ turn = 1
    /\ turnActive = TRUE
    /\ rec = FreshRecovery
    /\ mcp = {}
    /\ failed = FALSE
    /\ resultSeen = FALSE
    /\ outcome = [t \in Turns |-> IF t = 1 THEN "pending" ELSE "none"]
    /\ told = [t \in Turns |-> "none"]
    /\ acted = {}
    /\ delivered = {}
    /\ unheard = {}
    /\ compacted = FALSE

-----------------------------------------------------------------------------
(* What a result asks of the runner: the recovery object after it, the     *)
(* corrective prompt it pushes, if any, and whether it ends the stream.    *)

Verdict(r, push, end) == [rec |-> r, push |-> push, end |-> end]

\* resetToolRecovery
ResetTools(r) == [r EXCEPT !.malformed = 0, !.exhausted = FALSE, !.ran = FALSE, !.reports = 0]

\* The provider's push(): every provider refuses after end() or abort(), Claude also a
\* prompt that disables its tools.
Accepts(kind) == ended = "no" /\ ~(provider = "claude" /\ kind = "report")

\* pushDeliveryNudge
NudgeToWrap(r) == Verdict([r EXCEPT !.nudged = TRUE], "wrap", FALSE)

\* pushMalformedToolNudge
NudgeToCallTools(r) ==
    Verdict([r EXCEPT !.ran = IF r.malformed = 0 THEN FALSE ELSE @,
                      !.malformed = @ + 1, !.mode = "tool"], "tool", FALSE)

\* Mutant of NudgeToReport: the answer of push() is ignored, as the other two nudges do.
NudgeToReportUnchecked(r) ==
    Verdict([r EXCEPT !.reports = @ + 1, !.nudged = TRUE, !.ran = TRUE, !.mode = "delivery"],
            "report", FALSE)

\* pushPostToolDeliveryNudge: a refused prompt exhausts the recovery and ends the stream.
NudgeToReport(r) ==
    LET asking == [r EXCEPT !.reports = @ + 1, !.nudged = TRUE, !.ran = TRUE]
    IN  IF Accepts("report") THEN Verdict([asking EXCEPT !.mode = "delivery"], "report", FALSE)
        ELSE Verdict([asking EXCEPT !.exhausted = TRUE], "report", TRUE)

\* Mutant of RetryReport: the report budget is never spent.
RetryReportForever(r) == NudgeToReport(r)

\* retryReport
RetryReport(r) ==
    IF r.reports < MaxReports THEN NudgeToReport(r)
    ELSE Verdict([r EXCEPT !.exhausted = TRUE], "none", TRUE)

\* What dispatchResultText finds: a block that is sent, text outside blocks, alone or with
\* an <internal> note, a block for an unknown destination, a note only, or nothing to keep
\* (an empty or duplicate block, or one a report may not send elsewhere).
Texts == {"sent", "plain", "mixed", "misaddressed", "internal", "blank"}

Sends(text, report) == text = "sent" \/ (report /\ text \in {"plain", "mixed"})
Unwrapped(text, report) == text \in {"plain", "mixed", "misaddressed"} /\ ~Sends(text, report)
Notes(text) == text \in {"mixed", "internal"}

\* Mutant of Replied: content written by tools never counts as a reply.
NeverReplied(needsRoute) == FALSE

\* Tools already replied: content anywhere will do unless there is an answer left to send.
Replied(needsRoute) == mcp # {} /\ (~needsRoute \/ "on" \in mcp)

\* Mutant of HasActed: content written by tools does not count as work done.
HasRun(r) == r.ran

\* needsPostToolReport
HasActed(r) == r.ran \/ mcp # {}

\* onTextResult with recordTextDelivery
OnText(r, text, report) ==
    LET sent   == Sends(text, report)
        left   == Unwrapped(text, report)
        hushed == [r EXCEPT !.silence = @ \/ (r.nudged /\ ~sent /\ Notes(text))]
    IN  IF sent \/ Replied(left)
        THEN Verdict([ResetTools(hushed) EXCEPT !.sentAny = TRUE], "none", FALSE)
        ELSE IF report THEN RetryReport([hushed EXCEPT !.silence = FALSE])
        ELSE IF left /\ ~r.nudged THEN IF HasActed(r) THEN NudgeToReport(r) ELSE NudgeToWrap(r)
        ELSE IF Notes(text) /\ ~r.nudged THEN Verdict([r EXCEPT !.empty = TRUE], "none", TRUE)
        ELSE Verdict(hushed, "none", r.nudged /\ ~Notes(text))

\* onEmptyResult: a "stripped" result lost its text to the reasoning, a "malformed" one is a
\* tool call written as text (and is stripped too).
OnEmpty(r, result, report) ==
    LET stripped == result # "empty"
        reply    == Replied(stripped)
        retry    == IF report /\ ~reply THEN RetryReport(r) ELSE Verdict(r, "none", FALSE)
        base     == IF reply THEN [ResetTools(r) EXCEPT !.sentAny = TRUE] ELSE retry.rec
        canRetry == ~reply /\ ~base.nudged /\ ~failed
    IN  IF retry.push = "report" /\ ~retry.end THEN retry
        ELSE IF canRetry /\ ~HasActed(r) /\ result = "malformed" /\ base.malformed < MaxMalformed
        THEN NudgeToCallTools(base)
        ELSE IF canRetry /\ HasActed(r) /\ stripped THEN NudgeToReport(base)
        ELSE IF result = "malformed" /\ ~reply
        THEN Verdict([base EXCEPT !.exhausted = TRUE], retry.push, TRUE)
        ELSE IF canRetry /\ stripped THEN NudgeToWrap(base)
        ELSE Verdict([base EXCEPT !.empty = @ \/ ~reply], retry.push, ~base.sentAny)

\* onReplies: a provider with structured replies settled delivery in its own loop.
OnReplies(r, result) ==
    CASE result = "replies" \/ "on" \in mcp ->
             Verdict([ResetTools(r) EXCEPT !.sentAny = TRUE], "none", FALSE)
      [] result = "no_reply" /\ "on" \notin mcp ->
             Verdict([r EXCEPT !.silence = TRUE], "none", ~r.sentAny)
      [] OTHER -> Verdict([r EXCEPT !.empty = TRUE], "none", ~r.sentAny)

\* The results a provider yields: only OpenCode tells a stripped or malformed reply apart.
ResultsOf(p) ==
    CASE p = "native" -> {"replies", "no_reply", "nothing"}
      [] p = "claude" -> Texts \cup {"empty"}
      [] p = "opencode" -> Texts \cup {"empty", "stripped", "malformed"}

OnResult(result) ==
    LET r == [rec EXCEPT !.mode = "none"]
    IN  IF provider = "native" THEN OnReplies(r, result)
        ELSE IF result \in Texts THEN OnText(r, result, rec.mode = "delivery")
        ELSE OnEmpty(r, result, rec.mode = "delivery")

-----------------------------------------------------------------------------
Listening == open /\ aborted # "user"
Working == Listening /\ aborted = "no" /\ asked # << >>
MayUseTools == Working /\ Head(asked).kind # "report"

\* onToolProgress: a native tool reached execution.
RunTool ==
    /\ MayUseTools
    /\ rec' = [rec EXCEPT !.ran = TRUE]
    /\ acted' = acted \cup {turn}
    /\ UNCHANGED << provider, oneShot, ended, aborted, open, asked, queue, turn, turnActive, mcp,
                    failed, resultSeen, outcome, told, delivered, unheard, compacted >>

\* A tool of the turn writes content, to the conversation being answered or elsewhere.
SendByTool(route) ==
    /\ MayUseTools
    /\ mcp' = mcp \cup {route}
    /\ acted' = acted \cup {turn}
    /\ delivered' = IF route = "on" THEN delivered \cup {turn} ELSE delivered
    /\ UNCHANGED << provider, oneShot, ended, aborted, open, asked, queue, turn, turnActive, rec,
                    failed, resultSeen, outcome, told, unheard, compacted >>

\* settleTurn at the boundary: a turn that replied, or chose not to.
SettleAtBoundary(r, active) ==
    LET settles == ~active /\ (r.sentAny \/ r.silence) /\ outcome[turn] = "pending"
    IN  /\ outcome' = IF settles
                      THEN [outcome EXCEPT ![turn] = IF failed THEN "failed"
                                                     ELSE IF r.sentAny THEN "replied" ELSE "silent"]
                      ELSE outcome
        /\ told' = IF settles THEN [told EXCEPT ![turn] = IF r.sentAny THEN "reply" ELSE "choice"]
                   ELSE told

\* Mutant of StaysActive: a corrective prompt does not reopen the turn.
StaysActiveForBatch(rest, push) == rest # << >>

\* The turn goes on while a batch waits or a corrective prompt was pushed
\* (beginCorrectiveTurn), accepted or not.
StaysActive(rest, push) == rest # << >> \/ push # "none"

\* The result handler of processQuery; "left" are the prompts the provider still has to answer.
ResultEvent(result, left) ==
    LET retrying == rec.mode # "none"
        rest     == IF retrying \/ queue = << >> THEN queue ELSE Tail(queue)
        verdict  == OnResult(result)
        nudge    == [turn |-> turn, kind |-> verdict.push, acted |-> turn \in acted]
        pushed   == verdict.push # "none" /\ Accepts(verdict.push)
        active   == StaysActive(rest, verdict.push)
        silent   == ~active /\ verdict.rec.silence
    IN  /\ Working
        /\ resultSeen' = TRUE
        /\ queue' = rest
        /\ rec' = verdict.rec
        /\ asked' = IF pushed THEN Append(left, nudge) ELSE left
        /\ turnActive' = active
        /\ ended' = IF ended = "no" /\ ((verdict.end /\ rest = << >>) \/ oneShot \/ silent)
                    THEN "asked" ELSE ended
        /\ mcp' = {}
        /\ SettleAtBoundary(verdict.rec, active)
        /\ delivered' = IF result = "replies"
                           \/ (result \in Texts /\ Sends(result, rec.mode = "delivery"))
                        THEN delivered \cup {turn} ELSE delivered
        /\ unheard' = IF \/ ~active /\ ~verdict.end /\ ~verdict.rec.sentAny /\ ~verdict.rec.silence
                         \/ verdict.push = "tool" /\ ~pushed
                      THEN unheard \cup {turn} ELSE unheard
        /\ UNCHANGED << provider, oneShot, aborted, open, turn, failed, acted >>

\* The provider answers the prompt it works on.
Result(result) ==
    /\ result \in ResultsOf(provider)
    /\ ResultEvent(result, Tail(asked))
    /\ UNCHANGED compacted

\* Claude has compacted its context: the notice comes as a result of plain text, and the
\* exchange goes on.
Compaction ==
    /\ provider = "claude"
    /\ ResultEvent("plain", asked)
    /\ compacted' = TRUE

\* A non-retryable error event ends the stream.
ProviderError ==
    /\ Working
    /\ failed' = TRUE
    /\ ended' = IF ended = "no" THEN "asked" ELSE ended
    /\ UNCHANGED << provider, oneShot, aborted, open, asked, queue, turn, turnActive, rec, mcp,
                    resultSeen, outcome, told, acted, delivered, unheard, compacted >>

\* A retryable error event is only noted.  The native provider's exchange is over with it: it
\* waits for the next prompt and yields no result, so the turn stays active; Claude and
\* OpenCode go on with the exchange.
RetryableError ==
    /\ Working
    /\ provider = "native"
    /\ asked' = Tail(asked)
    /\ unheard' = unheard \cup {turn}
    /\ UNCHANGED << provider, oneShot, ended, aborted, open, queue, turn, turnActive, rec, mcp,
                    failed, resultSeen, outcome, told, acted, delivered, compacted >>

\* pollForFollowUps with input waiting: the push starts the next turn of the warm query.
FollowUp ==
    LET next == turn + 1
    IN  /\ Listening /\ aborted = "no"
        /\ ended # "asked"
        /\ ~turnActive
        /\ turn < MaxTurns
        /\ turn' = next
        /\ rec' = [FreshRecovery EXCEPT !.mode = rec.mode]
        /\ mcp' = {}
        /\ failed' = FALSE
        /\ resultSeen' = FALSE
        /\ compacted' = (compacted /\ asked # << >>)
        /\ IF ended = "no"
           THEN /\ turnActive' = TRUE
                /\ outcome' = [outcome EXCEPT ![next] = "pending"]
                /\ asked' = Append(asked, [turn |-> next, kind |-> "input", acted |-> FALSE])
                /\ queue' = Append(queue, next)
                /\ UNCHANGED ended
           ELSE /\ outcome' = [outcome EXCEPT ![next] = "interrupted"]
                /\ ended' = "asked"
                /\ UNCHANGED << turnActive, asked, queue >>
        /\ UNCHANGED << provider, oneShot, aborted, open, told, acted, delivered, unheard >>

\* pollForFollowUps with a task waiting, or with a restart waiting after the turn.
EndForTask ==
    /\ Listening /\ aborted = "no" /\ ended = "no"
    /\ ended' = "asked"
    /\ UNCHANGED << provider, oneShot, aborted, open, asked, queue, turn, turnActive, rec, mcp,
                    failed, resultSeen, outcome, told, acted, delivered, unheard, compacted >>

\* pollForFollowUps with a slash command waiting, or the runaway guard (abortRunaway), which
\* is off once the stream was ended.
Abort(reason) ==
    /\ Listening /\ aborted = "no" /\ ended # "asked"
    /\ reason = "runaway" => asked # << >>
    /\ aborted' = reason
    /\ ended' = "asked"
    /\ UNCHANGED << provider, oneShot, open, asked, queue, turn, turnActive, rec, mcp,
                    failed, resultSeen, outcome, told, acted, delivered, unheard, compacted >>

\* onTurnStop
UserStop ==
    /\ Listening /\ turnActive
    /\ aborted' = "user"
    /\ UNCHANGED << provider, oneShot, ended, open, asked, queue, turn, turnActive, rec, mcp,
                    failed, resultSeen, outcome, told, acted, delivered, unheard, compacted >>

\* An idle provider ends its event stream by itself.
ProviderQuits ==
    /\ Listening /\ aborted = "no" /\ ended = "no" /\ asked = << >>
    /\ ended' = "quit"
    /\ UNCHANGED << provider, oneShot, aborted, open, asked, queue, turn, turnActive, rec, mcp,
                    failed, resultSeen, outcome, told, acted, delivered, unheard, compacted >>

\* Mutant of TerminalNotice: a plain empty result has no notice.
NoticeUnlessEmpty ==
    IF rec.sentAny \/ (rec.silence /\ ~failed) THEN "none"
    ELSE IF aborted = "runaway" THEN "runaway"
    ELSE IF failed THEN "none"
    ELSE IF rec.exhausted THEN "malformed"
    ELSE IF rec.nudged THEN "delivery"
    ELSE "none"

\* terminalNotice: the first reason that fits.
TerminalNotice ==
    IF rec.sentAny \/ (rec.silence /\ ~failed) THEN "none"
    ELSE IF aborted = "runaway" THEN "runaway"
    ELSE IF failed THEN "none"
    ELSE IF rec.exhausted THEN "malformed"
    ELSE IF rec.nudged THEN "delivery"
    ELSE IF rec.empty THEN "empty"
    ELSE "none"

\* How the turn still open ends: the finish of processQuery, and runPollLoop after a
\* provider error.
FinalOutcome ==
    IF aborted = "user" THEN "stopped"
    ELSE IF TerminalNotice # "none" THEN "warning"
    ELSE IF failed THEN "failed"
    ELSE IF rec.silence \/ resultSeen THEN "silent"
    ELSE "interrupted"

\* What the user reads then: a notice, the provider's error, or nothing.
FinalWord ==
    IF aborted = "user" THEN "stopped"
    ELSE IF TerminalNotice # "none" THEN TerminalNotice
    ELSE IF failed THEN "error"
    ELSE IF rec.silence THEN "choice"
    ELSE "none"

\* Mutant of Settle: a turn settled at its boundary is settled again.
SettleAgain(result, word) ==
    /\ outcome' = [outcome EXCEPT ![turn] = result]
    /\ told' = [told EXCEPT ![turn] = word]

\* settleTurn, which does nothing for a turn that is settled.
Settle(result, word) ==
    /\ outcome' = IF outcome[turn] = "pending" THEN [outcome EXCEPT ![turn] = result] ELSE outcome
    /\ told' = IF outcome[turn] = "pending" THEN [told EXCEPT ![turn] = word] ELSE told

\* The event stream is over.
Finish ==
    /\ open
    /\ aborted # "no" \/ (ended # "no" /\ asked = << >>)
    /\ open' = FALSE
    /\ queue' = << >>
    /\ Settle(FinalOutcome, FinalWord)
    /\ UNCHANGED << provider, oneShot, ended, aborted, asked, turn, turnActive, rec, mcp, failed,
                    resultSeen, acted, delivered, unheard, compacted >>

\* The provider throws: runPollLoop surfaces the failure of a turn that is not settled.
Throw ==
    /\ Listening /\ aborted = "no"
    /\ open' = FALSE
    /\ queue' = << >>
    /\ Settle("failed", "error")
    /\ UNCHANGED << provider, oneShot, ended, aborted, asked, turn, turnActive, rec, mcp, failed,
                    resultSeen, acted, delivered, unheard, compacted >>

ProviderAnswers == \E result \in ResultsOf(provider) : Result(result)

Next ==
    \/ RunTool
    \/ \E route \in {"on", "off"} : SendByTool(route)
    \/ ProviderAnswers
    \/ Compaction
    \/ ProviderError
    \/ RetryableError
    \/ FollowUp
    \/ EndForTask
    \/ \E reason \in {"command", "runaway"} : Abort(reason)
    \/ UserStop
    \/ ProviderQuits
    \/ Finish
    \/ Throw

Spec == Init /\ [][Next]_vars

\* A provider answers what it was asked, and an ended stream is noticed.
FairSpec == Spec /\ WF_vars(ProviderAnswers) /\ WF_vars(Finish)

-----------------------------------------------------------------------------
\* A corrective prompt that leaves the tools enabled is pushed only while nothing has acted
\* in the turn: asking the model to start over must not run its actions twice
\* (needsPostToolReport in recovery.ts).  After a compaction the runner may have booked the
\* actions of an exchange before its end, and forgotten them.
NoRetryAfterTools ==
    \A i \in DOMAIN asked :
        asked[i].kind \in {"wrap", "tool"} => ~asked[i].acted \/ compacted

\* While the turn is over and the query open, no input waits for its result, and the provider
\* owes no answer: a follow-up may be pushed without joining an exchange that is still running.
\* The exception is Claude after a compaction, whose result ends the turn before the exchange,
\* and until a follow-up finds the provider idle again.
IdleBetweenTurns ==
    open /\ ~turnActive => queue = << >> /\ (asked = << >> \/ compacted)

\* A notice that nothing could be delivered is not sent after a reply of the same turn,
\* unless a slash command cut the turn short before its result.
NoticeOnlyWithoutReply ==
    \A t \in Turns : told[t] \in {"malformed", "delivery", "empty"}
                        => t \notin delivered \/ aborted = "command"

\* A turn recorded as silent chose silence; the exceptions are a turn that a slash command
\* cut short, and one whose result the recovery did not react to (see NoUnexplainedSilence).
SilenceIsChosen ==
    \A t \in Turns : outcome[t] = "silent" /\ told[t] = "none"
                        => t \in unheard \/ aborted = "command"

Ledger == INSTANCE TurnLedger

\* What is recorded of a turn and what its user reads are settled together and once, at the
\* boundary, by the finish of the query or by a failure, whichever of them comes first: a late
\* result, stop, abort or end of the stream changes neither, nor those of an earlier turn
\* (settleTurn, the finish of processQuery, runPollLoop).
TurnsAreSettledOnce == Ledger!Spec

\* The corrective prompts a turn has left: each kind of failure has its own counter, and a
\* plain nudge is made once (recovery.ts).
PromptsLeft(r) ==
    (MaxMalformed - r.malformed) + (MaxReports - r.reports) + (IF r.nudged THEN 0 ELSE 1)

\* The recovery runs out, whatever mixture of failures a turn meets and however often Claude
\* compacts its context: each corrective prompt costs one of those the turn has left, and while
\* the turn is unsettled none comes back, although a reply resets counters and a follow-up
\* starts with new ones.
RecoveryRunsOut ==
    [][turn' = turn =>
          /\ \/ ProviderAnswers /\ asked' # Tail(asked)
             \/ Compaction /\ asked' # asked
             => PromptsLeft(rec') \in 0 .. PromptsLeft(rec) - 1
          /\ outcome'[turn] = "pending" => PromptsLeft(rec') <= PromptsLeft(rec)]_vars

\* Every turn is settled: a result that delivers nothing either asks again, a bounded number
\* of times, or ends the stream.  Only a turn the recovery did not react to may stay open.
EveryTurnSettles ==
    \A t \in Turns : outcome[t] = "pending" ~> outcome[t] # "pending" \/ t \in unheard

\* "a turn that delivered nothing gets one notice saying why" (FORK-HOOK:finish in
\* processQuery): no turn ends as silent unless the model confirmed that it meant to.
NoUnexplainedSilence ==
    \A t \in Turns : outcome[t] = "silent" => told[t] # "none"
=============================================================================
