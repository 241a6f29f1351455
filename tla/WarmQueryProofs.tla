--------------------------- MODULE WarmQueryProofs ---------------------------
(***************************************************************************)
(* For every set of providers, any number of turns of a warm query and     *)
(* however often Claude compacts its context: no notice contradicts a      *)
(* reply, no silence is unexplained but for the two cases WarmQuery names, *)
(* and each turn is settled once.  Until a compaction splits an exchange,  *)
(* corrective prompts repeat no work and a follow-up joins no exchange.    *)
(***************************************************************************)
EXTENDS WarmQuery, TLAPS

\* The batch of the turn waits for its result, and no other; a corrective
\* mode comes after it was drained and is over when the turn is.
OneBatch ==
    /\ queue = << >> \/ (queue = << turn >> /\ rec.mode = "none")
    /\ ~turnActive => queue = << >> /\ rec.mode = "none"

\* One prompt is with the provider at most, and none between turns, unless
\* Claude has compacted its context in the middle of an exchange.
OneExchange ==
    /\ compacted => provider = "claude"
    /\ ~compacted => /\ asked = << >> \/ asked = << Head(asked) >>
                     /\ ~turnActive /\ open => asked = << >>

\* The history speaks of turns that have begun, and what a tool of the turn
\* did is in the recovery object or among the rows since the last boundary,
\* which the result of a compaction is too.
WorkIsSeen ==
    /\ acted \subseteq 1 .. turn
    /\ delivered \subseteq 1 .. turn
    /\ turnActive /\ turn \in acted => rec.ran \/ mcp # {} \/ compacted
    /\ turn \in delivered => rec.sentAny \/ "on" \in mcp
    /\ asked = << >> => mcp = {} \/ (provider = "native" /\ turnActive)

\* A turn with a reply is settled, and over unless its exchange was split; a
\* native turn that goes on has had no result.
RepliesSettle ==
    /\ rec.sentAny => outcome[turn] # "pending" /\ (~turnActive \/ compacted)
    /\ rec.reports > 0 => rec.nudged
    /\ provider = "native" /\ turnActive => ~rec.empty /\ ~rec.exhausted /\ ~rec.nudged

Explained(r) == r.sentAny \/ r.silence \/ r.exhausted \/ r.nudged \/ r.empty

\* A result that left no trace in the recovery object left the turn unheard,
\* and until the end of the query no turn has a notice or an empty silence.
SilenceIsNoted ==
    /\ resultSeen /\ asked = << >> => Explained(rec) \/ turn \in unheard
    /\ open => \A t \in Turns : /\ told[t] \notin {"malformed", "delivery", "empty"}
                                /\ outcome[t] = "silent" => told[t] # "none"

IInv == /\ TypeOK /\ OneBatch /\ OneExchange /\ WorkIsSeen /\ RepliesSettle /\ SilenceIsNoted
        /\ NoRetryAfterTools /\ NoticeOnlyWithoutReply /\ SilenceIsChosen
-----------------------------------------------------------------------------
\* What a result handler is given: a recovery object in no corrective mode,
\* whose reports are counted as nudges.
Unanswered(r) ==
    /\ r \in Recovery /\ r.mode = "none"
    /\ r.reports > 0 => r.nudged

\* Each prompt it asks for is paid for, and only a reply gives prompts back.
Spends(v, r) ==
    /\ v.push # "none" => PromptsLeft(v.rec) < PromptsLeft(r)
    /\ ~v.rec.sentAny => PromptsLeft(v.rec) <= PromptsLeft(r)

\* What it may return for it, given the routes tools wrote to.
SoundVerdict(v, r) ==
    /\ v.rec \in Recovery
    /\ v.push \in {"none", "wrap", "tool", "report"}
    /\ v.end \in BOOLEAN
    /\ v.push \in {"wrap", "tool"} => ~HasActed(r)
    /\ v.push = "report" => v.rec.ran
    /\ v.rec.reports > 0 => v.rec.nudged
    /\ v.rec.mode # "none" => v.push # "none"
    /\ v.rec.sentAny => v.push = "none" \/ r.sentAny
    /\ r.sentAny => v.rec.sentAny
    /\ "on" \in mcp => v.rec.sentAny
    /\ v.end \/ v.push \in {"wrap", "report"} => Explained(v.rec)
    /\ Spends(v, r)

LEMMA FreshIsRecovery == FreshRecovery \in Recovery
BY DEF FreshRecovery, Recovery, MaxMalformed, MaxReports

\* The fields of a recovery object
LEMMA RecoveryFields ==
  ASSUME NEW r \in Recovery
  PROVE  /\ r.sentAny \in BOOLEAN /\ r.silence \in BOOLEAN /\ r.empty \in BOOLEAN
         /\ r.nudged \in BOOLEAN /\ r.exhausted \in BOOLEAN /\ r.ran \in BOOLEAN
         /\ r.malformed \in 0 .. MaxMalformed /\ r.reports \in 0 .. MaxReports
         /\ r.mode \in {"none", "tool", "delivery"}
BY DEF Recovery

\* The prompts left are a number, and depend on three fields only.
LEMMA PromptsAreCounted ==
  ASSUME NEW r \in Recovery
  PROVE  PromptsLeft(r) \in 0 .. MaxMalformed + MaxReports + 1
BY RecoveryFields DEF PromptsLeft, MaxMalformed, MaxReports

Alike(s, r) == s.malformed = r.malformed /\ s.reports = r.reports /\ s.nudged = r.nudged

LEMMA AlikeLeft ==
  ASSUME NEW s, NEW r \in Recovery, Alike(s, r)
  PROVE  PromptsLeft(s) = PromptsLeft(r) /\ PromptsLeft(s) <= PromptsLeft(r)
<1>1. PromptsLeft(s) = PromptsLeft(r)
  BY DEF Alike, PromptsLeft
<1> QED BY <1>1, PromptsAreCounted

\* A report is asked for within its budget, or ends the stream.
LEMMA ReportVerdict ==
  ASSUME NEW r, Unanswered(r), r.reports < MaxReports, "on" \notin mcp
  PROVE  /\ SoundVerdict(NudgeToReport(r), r)
         /\ NudgeToReport(r).push = "report" /\ NudgeToReport(r).rec.nudged
<1> DEFINE asking == [r EXCEPT !.reports = @ + 1, !.nudged = TRUE, !.ran = TRUE]
           sending == [asking EXCEPT !.mode = "delivery"]
           spent == [asking EXCEPT !.exhausted = TRUE]
<1>1. r.reports \in 0 .. MaxReports /\ r.reports + 1 \in 0 .. MaxReports
  BY RecoveryFields DEF Unanswered, MaxReports
<1>2. /\ asking \in Recovery /\ asking.ran /\ asking.nudged /\ asking.mode = "none"
      /\ asking.sentAny = r.sentAny /\ asking.reports = r.reports + 1 /\ asking.malformed = r.malformed
  BY <1>1 DEF Recovery, Unanswered
<1>a. PromptsLeft(asking) < PromptsLeft(r)
  BY <1>1, <1>2, RecoveryFields DEF PromptsLeft, Unanswered, MaxMalformed, MaxReports
<1> HIDE DEF asking
<1>3. /\ sending \in Recovery /\ sending.ran /\ sending.nudged /\ sending.mode = "delivery"
      /\ sending.sentAny = r.sentAny /\ Alike(sending, asking)
  BY <1>2 DEF Recovery, Alike
<1>4. /\ spent \in Recovery /\ spent.ran /\ spent.nudged /\ spent.mode = "none"
      /\ spent.sentAny = r.sentAny /\ Alike(spent, asking)
  BY <1>2 DEF Recovery, Alike
<1>5. NudgeToReport(r) = IF Accepts("report") THEN Verdict(sending, "report", FALSE)
                         ELSE Verdict(spent, "report", TRUE)
  BY DEF NudgeToReport, asking
<1> HIDE DEF sending, spent
<1>b. PromptsLeft(sending) < PromptsLeft(r) /\ PromptsLeft(spent) < PromptsLeft(r)
  BY <1>a, <1>2, <1>3, <1>4, AlikeLeft
<1>c. \A v : v.rec \in {sending, spent} => Spends(v, r)
  BY <1>b, <1>3, <1>4, PromptsAreCounted DEF Spends, Unanswered
<1>6. CASE Accepts("report")
  <2>1. NudgeToReport(r) = [rec |-> sending, push |-> "report", end |-> FALSE]
    BY <1>5, <1>6 DEF Verdict
  <2> QED BY <2>1, <1>3, <1>c DEF SoundVerdict, Explained
<1>7. CASE ~Accepts("report")
  <2>1. NudgeToReport(r) = [rec |-> spent, push |-> "report", end |-> TRUE]
    BY <1>5, <1>7 DEF Verdict
  <2> QED BY <2>1, <1>4, <1>c DEF SoundVerdict, Explained
<1> QED BY <1>6, <1>7

LEMMA RetryVerdict ==
  ASSUME NEW r, Unanswered(r), "on" \notin mcp
  PROVE  /\ SoundVerdict(RetryReport(r), r)
         /\ \/ RetryReport(r).push = "report" /\ RetryReport(r).rec.nudged
            \/ /\ RetryReport(r).push = "none"
               /\ Unanswered(RetryReport(r).rec)
               /\ RetryReport(r).rec.ran = r.ran
               /\ RetryReport(r).rec.sentAny = r.sentAny
               /\ PromptsLeft(RetryReport(r).rec) <= PromptsLeft(r)
<1>1. CASE r.reports < MaxReports
  BY <1>1, ReportVerdict DEF RetryReport
<1>2. CASE ~(r.reports < MaxReports)
  <2> DEFINE spent == [r EXCEPT !.exhausted = TRUE]
  <2>1. /\ Unanswered(spent) /\ spent.ran = r.ran /\ spent.exhausted /\ Alike(spent, r)
        /\ spent.sentAny = r.sentAny
    BY DEF Unanswered, Recovery, Alike
  <2>2. RetryReport(r) = [rec |-> spent, push |-> "none", end |-> TRUE]
    BY <1>2 DEF RetryReport, Verdict
  <2> HIDE DEF spent
  <2>3. PromptsLeft(spent) <= PromptsLeft(r)
    BY <2>1, AlikeLeft DEF Unanswered
  <2> QED BY <2>1, <2>2, <2>3 DEF SoundVerdict, Spends, Explained, Unanswered
<1> QED BY <1>1, <1>2

LEMMA WrapVerdict ==
  ASSUME NEW r, Unanswered(r), ~HasActed(r), ~r.nudged, "on" \notin mcp
  PROVE  SoundVerdict(NudgeToWrap(r), r)
<1> DEFINE wrapping == [r EXCEPT !.nudged = TRUE]
<1>1. /\ wrapping \in Recovery /\ wrapping.mode = "none" /\ wrapping.sentAny = r.sentAny
      /\ wrapping.reports = r.reports /\ wrapping.malformed = r.malformed /\ wrapping.nudged
  BY DEF Unanswered, Recovery
<1>2. NudgeToWrap(r) = [rec |-> wrapping, push |-> "wrap", end |-> FALSE]
  BY DEF NudgeToWrap, Verdict
<1> HIDE DEF wrapping
<1>3. PromptsLeft(wrapping) < PromptsLeft(r)
  BY <1>1, RecoveryFields DEF PromptsLeft, Unanswered, MaxMalformed, MaxReports
<1>4. Spends(NudgeToWrap(r), r)
  BY <1>1, <1>2, <1>3, PromptsAreCounted DEF Spends, Unanswered
<1> QED BY <1>1, <1>2, <1>4 DEF SoundVerdict, Explained

LEMMA ToolVerdict ==
  ASSUME NEW r, Unanswered(r), ~HasActed(r), "on" \notin mcp, r.malformed < MaxMalformed
  PROVE  SoundVerdict(NudgeToCallTools(r), r)
<1> DEFINE calling == [r EXCEPT !.ran = IF r.malformed = 0 THEN FALSE ELSE @,
                                !.malformed = @ + 1, !.mode = "tool"]
<1>1. r.malformed + 1 \in 0 .. MaxMalformed
  BY RecoveryFields DEF Unanswered, MaxMalformed
<1>2. /\ calling \in Recovery /\ calling.mode = "tool" /\ calling.sentAny = r.sentAny
      /\ calling.reports = r.reports /\ calling.nudged = r.nudged
      /\ calling.malformed = r.malformed + 1
  <2>1. (IF r.malformed = 0 THEN FALSE ELSE r.ran) \in BOOLEAN
    BY RecoveryFields DEF Unanswered
  <2> QED BY <1>1, <2>1 DEF Recovery, Unanswered
<1>3. NudgeToCallTools(r) = [rec |-> calling, push |-> "tool", end |-> FALSE]
  BY DEF NudgeToCallTools, Verdict
<1> HIDE DEF calling
<1>4. PromptsLeft(calling) < PromptsLeft(r)
  BY <1>1, <1>2, RecoveryFields DEF PromptsLeft, Unanswered, MaxMalformed, MaxReports
<1>5. Spends(NudgeToCallTools(r), r)
  BY <1>2, <1>3, <1>4, PromptsAreCounted DEF Spends, Unanswered
<1> QED BY <1>2, <1>3, <1>5 DEF SoundVerdict, Unanswered

\* The first report of a turn is within the budget.
LEMMA FirstReport ==
  ASSUME NEW r, Unanswered(r), ~r.nudged
  PROVE  r.reports < MaxReports
BY RecoveryFields DEF Unanswered, MaxReports

\* A reply resets the recovery and asks for nothing.
LEMMA ReplyVerdict ==
  ASSUME NEW r, Unanswered(r), NEW silent \in BOOLEAN
  PROVE  LET replied == [ResetTools([r EXCEPT !.silence = silent]) EXCEPT !.sentAny = TRUE]
         IN  /\ SoundVerdict(Verdict(replied, "none", FALSE), r)
             /\ replied \in Recovery /\ replied.sentAny /\ replied.mode = "none"
             /\ replied.reports = 0
<1> DEFINE h == [r EXCEPT !.silence = silent]
           t == ResetTools(h)
           replied == [t EXCEPT !.sentAny = TRUE]
<1>1. h \in Recovery /\ h.mode = "none"
  BY DEF Unanswered, Recovery
<1> HIDE DEF h
<1>2. t \in Recovery /\ t.mode = "none" /\ t.reports = 0
  <2>1. 0 \in 0 .. MaxMalformed /\ 0 \in 0 .. MaxReports
    BY DEF MaxReports, MaxMalformed
  <2>2. t = [h EXCEPT !.malformed = 0, !.exhausted = FALSE, !.ran = FALSE, !.reports = 0]
    BY DEF ResetTools
  <2> HIDE DEF t
  <2> QED BY <1>1, <2>1, <2>2 DEF Recovery
<1> HIDE DEF t
<1>3. replied \in Recovery /\ replied.mode = "none" /\ replied.reports = 0 /\ replied.sentAny
  BY <1>2 DEF Recovery
<1> HIDE DEF replied
<1>4. SoundVerdict(Verdict(replied, "none", FALSE), r)
  BY <1>3 DEF SoundVerdict, Spends, Verdict
<1> QED BY <1>3, <1>4 DEF replied, t, h

\* Content a tool wrote to the conversation is a reply, whatever else is left.
LEMMA OnRouteReplies ==
  ASSUME NEW left \in BOOLEAN, ~Replied(left)
  PROVE  "on" \notin mcp
BY DEF Replied

\* onTextResult
LEMMA TextVerdict ==
  ASSUME NEW r, Unanswered(r), NEW text \in Texts, NEW report \in BOOLEAN
  PROVE  /\ SoundVerdict(OnText(r, text, report), r)
         /\ Sends(text, report) => OnText(r, text, report).rec.sentAny
<1> DEFINE sent == Sends(text, report)
           left == Unwrapped(text, report)
           silent == r.silence \/ (r.nudged /\ ~sent /\ Notes(text))
           hushed == [r EXCEPT !.silence = silent]
           replied == [ResetTools(hushed) EXCEPT !.sentAny = TRUE]
           again == [hushed EXCEPT !.silence = FALSE]
<1>1. sent \in BOOLEAN /\ left \in BOOLEAN /\ silent \in BOOLEAN
  BY RecoveryFields DEF Unanswered, Sends, Unwrapped, Notes
<1>2. OnText(r, text, report) =
        IF sent \/ Replied(left) THEN Verdict(replied, "none", FALSE)
        ELSE IF report THEN RetryReport(again)
        ELSE IF left /\ ~r.nudged THEN IF HasActed(r) THEN NudgeToReport(r) ELSE NudgeToWrap(r)
        ELSE IF Notes(text) /\ ~r.nudged THEN Verdict([r EXCEPT !.empty = TRUE], "none", TRUE)
        ELSE Verdict(hushed, "none", r.nudged /\ ~Notes(text))
  BY DEF OnText
<1>3. /\ SoundVerdict(Verdict(replied, "none", FALSE), r)
      /\ Verdict(replied, "none", FALSE).rec.sentAny
  <2> HIDE DEF sent, silent
  <2> QED BY <1>1, ReplyVerdict DEF Verdict
<1>4. /\ Unanswered(hushed) /\ Unanswered(again) /\ Alike(hushed, r) /\ Alike(again, r)
      /\ hushed.nudged = r.nudged /\ hushed.sentAny = r.sentAny /\ again.sentAny = r.sentAny
  <2> HIDE DEF silent
  <2> QED BY <1>1 DEF Unanswered, Recovery, Alike
<1> HIDE DEF sent, left, silent, hushed, replied, again
<1>5. CASE sent \/ Replied(left)
  BY <1>2, <1>3, <1>5 DEF sent
<1>6. ASSUME ~(sent \/ Replied(left)), report
      PROVE  SoundVerdict(OnText(r, text, report), r)
  <2>1. SoundVerdict(RetryReport(again), again) /\ HasActed(again) = HasActed(r)
    BY <1>1, <1>4, <1>6, OnRouteReplies, RetryVerdict DEF HasActed, again, hushed, Unanswered, Recovery
  <2>2. PromptsLeft(again) = PromptsLeft(r)
    BY <1>4, AlikeLeft DEF Unanswered
  <2> QED BY <1>1, <1>2, <1>4, <1>6, <2>1, <2>2 DEF SoundVerdict, Spends
<1>7. ASSUME ~(sent \/ Replied(left)), ~report, left /\ ~r.nudged
      PROVE  SoundVerdict(OnText(r, text, report), r)
  BY <1>1, <1>2, <1>7, OnRouteReplies, FirstReport, ReportVerdict, WrapVerdict
<1>8. ASSUME ~(sent \/ Replied(left)), ~report, ~(left /\ ~r.nudged)
      PROVE  SoundVerdict(OnText(r, text, report), r)
  <2>1. "on" \notin mcp
    BY <1>1, <1>8, OnRouteReplies
  <2>2. CASE Notes(text) /\ ~r.nudged
    <3> DEFINE noted == [r EXCEPT !.empty = TRUE]
    <3>1. Unanswered(noted) /\ noted.empty /\ Alike(noted, r) /\ noted.sentAny = r.sentAny
      BY DEF Unanswered, Recovery, Alike
    <3>2. OnText(r, text, report) = [rec |-> noted, push |-> "none", end |-> TRUE]
      BY <1>2, <1>8, <2>2 DEF Verdict
    <3> HIDE DEF noted
    <3>3. PromptsLeft(noted) <= PromptsLeft(r)
      BY <3>1, AlikeLeft DEF Unanswered
    <3> QED BY <2>1, <3>1, <3>2, <3>3 DEF SoundVerdict, Spends, Unanswered, Explained
  <2>3. CASE ~(Notes(text) /\ ~r.nudged)
    <3>1. OnText(r, text, report) =
            [rec |-> hushed, push |-> "none", end |-> r.nudged /\ ~Notes(text)]
      BY <1>2, <1>8, <2>3 DEF Verdict
    <3>2. r.nudged \in BOOLEAN /\ Notes(text) \in BOOLEAN
      BY RecoveryFields DEF Unanswered, Notes
    <3>3. PromptsLeft(hushed) <= PromptsLeft(r)
      BY <1>4, AlikeLeft DEF Unanswered
    <3> QED BY <1>4, <2>1, <3>1, <3>2, <3>3 DEF SoundVerdict, Spends, Unanswered, Explained
  <2> QED BY <2>2, <2>3
<1> QED BY <1>5, <1>6, <1>7, <1>8 DEF sent
\* What is left to do for an empty result once a report was retried or not
EmptyRest(r, base, push, stripped, malformed, reply) ==
    LET canRetry == ~reply /\ ~base.nudged /\ ~failed
    IN  IF canRetry /\ ~HasActed(r) /\ malformed /\ base.malformed < MaxMalformed
        THEN NudgeToCallTools(base)
        ELSE IF canRetry /\ HasActed(r) /\ stripped THEN NudgeToReport(base)
        ELSE IF malformed /\ ~reply
        THEN Verdict([base EXCEPT !.exhausted = TRUE], push, TRUE)
        ELSE IF canRetry /\ stripped THEN NudgeToWrap(base)
        ELSE Verdict([base EXCEPT !.empty = @ \/ ~reply], push, ~base.sentAny)

\* Without a reply and without a report that was asked for
LEMMA EmptyWithoutReport ==
  ASSUME NEW r, Unanswered(r), NEW base, Unanswered(base), base.ran = r.ran,
         base.sentAny = r.sentAny, PromptsLeft(base) <= PromptsLeft(r),
         NEW stripped \in BOOLEAN, NEW malformed \in BOOLEAN, "on" \notin mcp
  PROVE  SoundVerdict(EmptyRest(r, base, "none", stripped, malformed, FALSE), r)
<1> DEFINE v == EmptyRest(r, base, "none", stripped, malformed, FALSE)
           canRetry == ~base.nudged /\ ~failed
           spent == [base EXCEPT !.exhausted = TRUE]
           none == [base EXCEPT !.empty = @ \/ ~FALSE]
<1>1. HasActed(base) <=> HasActed(r)
  BY DEF HasActed
<1>2. /\ Unanswered(spent) /\ spent.exhausted /\ Alike(spent, base)
      /\ spent.sentAny = r.sentAny
  BY DEF Unanswered, Recovery, Alike
<1>3. Unanswered(none) /\ none.empty /\ Alike(none, base) /\ none.sentAny = r.sentAny
  BY DEF Unanswered, Recovery, Alike
<1>4. v = IF canRetry /\ ~HasActed(r) /\ malformed /\ base.malformed < MaxMalformed
          THEN NudgeToCallTools(base)
          ELSE IF canRetry /\ HasActed(r) /\ stripped THEN NudgeToReport(base)
          ELSE IF malformed THEN Verdict(spent, "none", TRUE)
          ELSE IF canRetry /\ stripped THEN NudgeToWrap(base)
          ELSE Verdict(none, "none", ~base.sentAny)
  BY DEF EmptyRest, Unanswered
<1> HIDE DEF v, spent, none
<1>a. PromptsLeft(spent) <= PromptsLeft(r) /\ PromptsLeft(none) <= PromptsLeft(r)
  BY <1>2, <1>3, AlikeLeft DEF Unanswered
<1>b. ASSUME NEW w, SoundVerdict(w, base)
      PROVE  SoundVerdict(w, r)
  <2>1. w.rec \in Recovery
    BY <1>b DEF SoundVerdict
  <2>2. Spends(w, r)
    BY <1>b, <2>1, PromptsAreCounted DEF SoundVerdict, Spends, Unanswered, MaxMalformed, MaxReports
  <2> QED BY <1>1, <1>b, <2>2 DEF SoundVerdict
<1>5. CASE canRetry /\ ~HasActed(r) /\ malformed /\ base.malformed < MaxMalformed
  BY <1>1, <1>4, <1>5, <1>b, ToolVerdict DEF v
<1>6. CASE canRetry /\ HasActed(r) /\ stripped
  BY <1>1, <1>4, <1>6, <1>b, FirstReport, ReportVerdict DEF v
<1>7. SoundVerdict(Verdict(spent, "none", TRUE), r)
  BY <1>2, <1>a DEF SoundVerdict, Spends, Verdict, Explained, Unanswered
<1>8. SoundVerdict(Verdict(none, "none", ~base.sentAny), r)
  BY <1>3, <1>a DEF SoundVerdict, Spends, Verdict, Explained, Unanswered
<1>9. canRetry /\ ~HasActed(r) => SoundVerdict(NudgeToWrap(base), r)
  BY <1>1, <1>b, WrapVerdict
<1> QED BY <1>4, <1>5, <1>6, <1>7, <1>8, <1>9 DEF v

\* After a report that was asked for, and refused
LEMMA EmptyAfterReport ==
  ASSUME NEW r \in Recovery, NEW v, SoundVerdict(v, r), v.push = "report", v.rec.nudged,
         NEW stripped \in BOOLEAN, NEW malformed \in BOOLEAN, "on" \notin mcp
  PROVE  SoundVerdict(EmptyRest(r, v.rec, "report", stripped, malformed, FALSE), r)
<1> DEFINE base == v.rec
           spent == [base EXCEPT !.exhausted = TRUE]
           none == [base EXCEPT !.empty = @ \/ ~FALSE]
<1>1. /\ base \in Recovery /\ base.ran /\ base.nudged /\ base.sentAny = r.sentAny
      /\ PromptsLeft(base) < PromptsLeft(r)
  BY RecoveryFields DEF SoundVerdict, Spends
<1> HIDE DEF base
<1>2. spent \in Recovery /\ spent.ran /\ spent.nudged /\ spent.sentAny = r.sentAny /\ Alike(spent, base)
  BY <1>1 DEF Recovery, Alike
<1>3. none \in Recovery /\ none.ran /\ none.nudged /\ none.sentAny = r.sentAny /\ Alike(none, base)
  BY <1>1 DEF Recovery, Alike
<1>4. EmptyRest(r, base, "report", stripped, malformed, FALSE)
        = IF malformed THEN Verdict(spent, "report", TRUE) 
             ELSE Verdict(none, "report", ~base.sentAny)
  BY <1>1 DEF EmptyRest
<1> HIDE DEF spent, none
<1>a. \A s \in {spent, none} : PromptsLeft(s) < PromptsLeft(r) /\ PromptsLeft(s) <= PromptsLeft(r)
  <2>1. PromptsLeft(spent) = PromptsLeft(base) /\ PromptsLeft(none) = PromptsLeft(base)
    BY <1>1, <1>2, <1>3, AlikeLeft
  <2> QED BY <1>1, <2>1, PromptsAreCounted DEF MaxMalformed, MaxReports
<1>5. SoundVerdict(Verdict(spent, "report", TRUE), r)
  BY <1>2, <1>a DEF SoundVerdict, Spends, Verdict, Explained
<1>6. SoundVerdict(Verdict(none, "report", ~base.sentAny), r)
  BY <1>3, <1>a DEF SoundVerdict, Spends, Verdict, Explained
<1> QED BY <1>4, <1>5, <1>6 DEF base

\* onEmptyResult
LEMMA EmptyVerdict ==
  ASSUME NEW r, Unanswered(r), NEW result \in {"empty", "stripped", "malformed"},
         NEW report \in BOOLEAN
  PROVE  SoundVerdict(OnEmpty(r, result, report), r)
<1> DEFINE stripped == result # "empty"
           malformed == result = "malformed"
           reply == Replied(stripped)
           replied == [ResetTools(r) EXCEPT !.sentAny = TRUE]
           retry == IF report /\ ~reply THEN RetryReport(r) ELSE Verdict(r, "none", FALSE)
           base == IF reply THEN replied ELSE retry.rec
<1>1. OnEmpty(r, result, report) =
        IF retry.push = "report" /\ ~retry.end THEN retry
        ELSE EmptyRest(r, base, retry.push, stripped, malformed, reply)
  BY DEF OnEmpty, EmptyRest
<1>2. stripped \in BOOLEAN /\ malformed \in BOOLEAN /\ reply \in BOOLEAN
  BY DEF Replied
<1> HIDE DEF stripped, malformed
<1>3. CASE reply
  <2> DEFINE same == [r EXCEPT !.silence = r.silence]
             done == [replied EXCEPT !.empty = @ \/ ~TRUE]
  <2>1. same = r
    BY DEF Unanswered, Recovery
  <2>2. r.silence \in BOOLEAN
    BY RecoveryFields DEF Unanswered
  <2>3. replied \in Recovery /\ replied.sentAny /\ replied.mode = "none" /\ replied.reports = 0
    <3> HIDE DEF same
    <3>1. LET rep == [ResetTools(same) EXCEPT !.sentAny = TRUE]
          IN  rep \in Recovery /\ rep.sentAny /\ rep.mode = "none" /\ rep.reports = 0
      BY <2>2, ReplyVerdict DEF same
    <3> QED BY <2>1, <3>1
  <2>4. retry = [rec |-> r, push |-> "none", end |-> FALSE]
    BY <1>3 DEF Verdict
  <2> HIDE DEF retry, replied, reply
  <2>5. done \in Recovery /\ done.sentAny /\ done.mode = "none" /\ done.reports = 0
    BY <2>3 DEF Recovery
  <2>6. OnEmpty(r, result, report) = Verdict(done, "none", FALSE)
    <3>1. base = replied
      BY <1>3
    <3>2. EmptyRest(r, replied, "none", stripped, malformed, TRUE) = Verdict(done, "none", FALSE)
      BY <2>3 DEF EmptyRest
    <3> QED BY <1>1, <1>3, <2>4, <3>1, <3>2
  <2> HIDE DEF done
  <2> QED BY <2>5, <2>6 DEF SoundVerdict, Spends, Verdict
<1>4. CASE ~reply
  <2>1. "on" \notin mcp
    BY <1>2, <1>4, OnRouteReplies
  <2>2. reply = FALSE /\ base = retry.rec
    BY <1>2, <1>4
  <2>3. CASE report
    <3>1. retry = RetryReport(r)
      BY <1>4, <2>3
    <3> HIDE DEF retry, reply, base
    <3>2. CASE RetryReport(r).push = "report"
      BY <1>1, <1>2, <2>1, <2>2, <3>1, <3>2, RetryVerdict, EmptyAfterReport DEF Unanswered
    <3>3. CASE RetryReport(r).push # "report"
      <4> DEFINE b == RetryReport(r).rec
      <4>1. /\ RetryReport(r).push = "none" /\ Unanswered(b) /\ b.ran = r.ran
            /\ b.sentAny = r.sentAny
        BY <2>1, <3>3, RetryVerdict
      <4>3. PromptsLeft(b) <= PromptsLeft(r)
        BY <2>1, <3>3, RetryVerdict
      <4>2. OnEmpty(r, result, report)
              = EmptyRest(r, b, "none", stripped, malformed, FALSE)
        BY <1>1, <2>2, <3>1, <4>1
      <4> HIDE DEF b
      <4> QED BY <1>2, <2>1, <4>1, <4>2, <4>3, EmptyWithoutReport
    <3> QED BY <3>2, <3>3
  <2>4. CASE ~report
    <3>1. retry = [rec |-> r, push |-> "none", end |-> FALSE]
      BY <2>4 DEF Verdict
    <3> HIDE DEF retry, reply, base
    <3>2. PromptsLeft(r) <= PromptsLeft(r)
      BY PromptsAreCounted DEF Unanswered
    <3> QED BY <1>1, <1>2, <2>1, <2>2, <3>1, <3>2, EmptyWithoutReport
  <2> QED BY <2>3, <2>4
<1> QED BY <1>3, <1>4

\* onReplies
LEMMA RepliesVerdict ==
  ASSUME NEW r, Unanswered(r), NEW result \in {"replies", "no_reply", "nothing"}
  PROVE  /\ SoundVerdict(OnReplies(r, result), r)
         /\ result = "replies" => OnReplies(r, result).rec.sentAny
         /\ OnReplies(r, result).push = "none"
<1> DEFINE same == [r EXCEPT !.silence = r.silence]
           replied == [ResetTools(r) EXCEPT !.sentAny = TRUE]
           chosen == [r EXCEPT !.silence = TRUE]
           none == [r EXCEPT !.empty = TRUE]
<1>1. same = r /\ r.silence \in BOOLEAN
  BY DEF Unanswered, Recovery
<1>2. SoundVerdict(Verdict(replied, "none", FALSE), r) /\ replied.sentAny
  <2> HIDE DEF same
  <2>1. LET rep == [ResetTools(same) EXCEPT !.sentAny = TRUE]
        IN  SoundVerdict(Verdict(rep, "none", FALSE), r) /\ rep.sentAny
    BY <1>1, ReplyVerdict DEF same
  <2> QED BY <1>1, <2>1
<1>3. Unanswered(chosen) /\ chosen.silence /\ Alike(chosen, r) /\ chosen.sentAny = r.sentAny
  BY DEF Unanswered, Recovery, Alike
<1>4. Unanswered(none) /\ none.empty /\ Alike(none, r) /\ none.sentAny = r.sentAny
  BY DEF Unanswered, Recovery, Alike
<1>5. CASE result = "replies" \/ "on" \in mcp
  <2>1. OnReplies(r, result) = Verdict(replied, "none", FALSE)
    BY <1>5 DEF OnReplies
  <2> HIDE DEF replied
  <2> QED BY <1>2, <2>1 DEF Verdict
<1>6. CASE result = "no_reply" /\ "on" \notin mcp
  <2>1. OnReplies(r, result) = [rec |-> chosen, push |-> "none", end |-> ~r.sentAny]
    BY <1>1, <1>6 DEF OnReplies, Verdict
  <2> HIDE DEF chosen
  <2>6. PromptsLeft(chosen) <= PromptsLeft(r)
    BY <1>3, AlikeLeft DEF Unanswered
  <2>2. SoundVerdict([rec |-> chosen, push |-> "none", end |-> ~r.sentAny], r)
    BY <1>3, <1>6, <2>6 DEF SoundVerdict, Spends, Explained, Unanswered
  <2>3. SoundVerdict(OnReplies(r, result), r)
    BY <2>1, <2>2
  <2>4. OnReplies(r, result).push = "none"
    BY <2>1
  <2>5. result # "replies"
    BY <1>6
  <2> QED BY <2>3, <2>4, <2>5
<1>7. CASE result = "nothing" /\ "on" \notin mcp
  <2>1. OnReplies(r, result) = [rec |-> none, push |-> "none", end |-> ~r.sentAny]
    BY <1>1, <1>7 DEF OnReplies, Verdict
  <2> HIDE DEF none
  <2>6. PromptsLeft(none) <= PromptsLeft(r)
    BY <1>4, AlikeLeft DEF Unanswered
  <2>2. SoundVerdict([rec |-> none, push |-> "none", end |-> ~r.sentAny], r)
    BY <1>4, <1>7, <2>6 DEF SoundVerdict, Spends, Explained, Unanswered
  <2>3. SoundVerdict(OnReplies(r, result), r)
    BY <2>1, <2>2
  <2>4. OnReplies(r, result).push = "none"
    BY <2>1
  <2>5. result # "replies"
    BY <1>7
  <2> QED BY <2>3, <2>4, <2>5
<1> QED BY <1>5, <1>6, <1>7
-----------------------------------------------------------------------------
\* While the provider works on a prompt, it is the only one and the turn is
\* unanswered, unless a compaction has split the exchange.
LEMMA WorkingTurn ==
  ASSUME IInv, Working
  PROVE  /\ open /\ asked # << >> /\ Head(asked) \in Prompt /\ Tail(asked) \in Seq(Prompt)
         /\ ~compacted => turnActive /\ Tail(asked) = << >> /\ ~rec.sentAny
<1>1. asked # << >> /\ open
  BY DEF Working, Listening
<1>2. Head(asked) \in Prompt /\ Tail(asked) \in Seq(Prompt)
  BY <1>1 DEF IInv, TypeOK
<1>3. ASSUME ~compacted
      PROVE  turnActive /\ Tail(asked) = << >> /\ ~rec.sentAny
  <2>1. turnActive /\ asked = << Head(asked) >>
    BY <1>1, <1>3 DEF IInv, OneExchange, TypeOK
  <2>2. \A h : Tail(<< h >>) = << >>
    OBVIOUS
  <2> QED BY <1>3, <2>1, <2>2 DEF IInv, RepliesSettle
<1> QED BY <1>1, <1>2, <1>3

\* What the result of any provider makes of the recovery object
LEMMA ResultVerdict ==
  ASSUME IInv, Working, NEW result \in ResultsOf(provider)
  PROVE  /\ SoundVerdict(OnResult(result), rec)
         /\ \/ result = "replies"
            \/ result \in Texts /\ Sends(result, rec.mode = "delivery")
            => OnResult(result).rec.sentAny
         /\ provider = "native" => OnResult(result).push = "none"
<1> DEFINE r == [rec EXCEPT !.mode = "none"]
           report == rec.mode = "delivery"
<1>1. rec \in Recovery /\ (rec.reports > 0 => rec.nudged)
  BY DEF IInv, TypeOK, RepliesSettle
<1>2. /\ Unanswered(r) /\ r.ran = rec.ran /\ r.sentAny = rec.sentAny
      /\ PromptsLeft(r) = PromptsLeft(rec)
  <2>1. Unanswered(r) /\ r.ran = rec.ran /\ r.sentAny = rec.sentAny /\ Alike(r, rec)
    BY <1>1 DEF Unanswered, Recovery, Alike
  <2> QED BY <1>1, <2>1, AlikeLeft
<1>3. report \in BOOLEAN
  OBVIOUS
<1>4. OnResult(result) = IF provider = "native" THEN OnReplies(r, result)
                         ELSE IF result \in Texts THEN OnText(r, result, report)
                         ELSE OnEmpty(r, result, report)
  BY DEF OnResult
<1>5. provider \in {"opencode", "claude", "native"}
  BY ProvidersAssumption DEF IInv, TypeOK
<1>6. \A v : SoundVerdict(v, r) => SoundVerdict(v, rec)
  BY <1>2 DEF SoundVerdict, Spends, HasActed
<1> HIDE DEF r, report
<1>7. CASE provider = "native"
  <2>1. result \in {"replies", "no_reply", "nothing"} /\ result \notin Texts
    BY <1>7 DEF ResultsOf, Texts
  <2>2. OnResult(result) = OnReplies(r, result)
    BY <1>4, <1>7
  <2> QED BY <1>2, <1>6, <2>1, <2>2, RepliesVerdict
<1>8. CASE provider # "native" /\ result \in Texts
  <2>1. OnResult(result) = OnText(r, result, report) /\ result # "replies"
    BY <1>4, <1>8 DEF Texts
  <2> QED BY <1>2, <1>3, <1>6, <1>8, <2>1, TextVerdict DEF report
<1>9. CASE provider # "native" /\ result \notin Texts
  <2>1. result \in {"empty", "stripped", "malformed"}
    BY <1>5, <1>9 DEF ResultsOf
  <2>2. OnResult(result) = OnEmpty(r, result, report)
    BY <1>4, <1>9
  <2> QED BY <1>2, <1>3, <1>6, <1>9, <2>1, <2>2, EmptyVerdict
<1> QED BY <1>7, <1>8, <1>9

LEMMA InitIInv == Init => IInv
<1> SUFFICES ASSUME Init PROVE IInv
  OBVIOUS
<1> USE TurnsAssumption
<1>1. 1 \in Turns
  BY DEF Turns
<1>2. TypeOK
  <2>1. [turn |-> 1, kind |-> "input", acted |-> FALSE] \in Prompt
    BY <1>1 DEF Prompt
  <2>2. asked \in Seq(Prompt) /\ queue \in Seq(Turns)
    BY <1>1, <2>1 DEF Init
  <2>3. rec \in Recovery /\ turn \in Turns
    BY <1>1, FreshIsRecovery DEF Init
  <2>4. outcome \in [Turns -> {"none", "pending", "replied", "silent", "warning", "failed",
                                 "interrupted", "stopped"}]
    BY DEF Init
  <2>5. told \in [Turns -> {"none", "reply", "choice", "runaway", "malformed", "delivery",
                              "empty", "error", "stopped"}]
    BY DEF Init
  <2> QED BY <2>2, <2>3, <2>4, <2>5 DEF Init, TypeOK
<1>3. OneBatch /\ OneExchange
  BY DEF Init, OneBatch, OneExchange, FreshRecovery
<1>4. WorkIsSeen
  BY DEF Init, WorkIsSeen
<1>5. RepliesSettle
  BY DEF Init, RepliesSettle, FreshRecovery
<1>6. SilenceIsNoted
  BY DEF Init, SilenceIsNoted
<1>7. NoRetryAfterTools /\ NoticeOnlyWithoutReply /\ SilenceIsChosen
  BY DEF Init, NoRetryAfterTools, NoticeOnlyWithoutReply, SilenceIsChosen
<1> QED BY <1>2, <1>3, <1>4, <1>5, <1>6, <1>7 DEF IInv

LEMMA StutterIInv == IInv /\ UNCHANGED vars => IInv'
BY DEF IInv, vars, TypeOK, OneBatch, OneExchange, WorkIsSeen, RepliesSettle, SilenceIsNoted, Explained,
       NoRetryAfterTools, NoticeOnlyWithoutReply, SilenceIsChosen

\* Tools of the turn that is being worked on
LEMMA ToolStep ==
  ASSUME IInv, RunTool \/ (\E route \in {"on", "off"} : SendByTool(route))
  PROVE  IInv'
<1>1. /\ Working /\ rec \in Recovery
      /\ UNCHANGED << provider, oneShot, ended, aborted, open, asked, queue, turn, turnActive,
                      failed, resultSeen, outcome, told, unheard, compacted >>
      /\ acted' = acted \cup {turn}
      /\ turn \in Turns /\ turn \in 1 .. turn
  BY TurnsAssumption DEF RunTool, SendByTool, MayUseTools, IInv, TypeOK, Turns
<1>2. open /\ asked # << >>
  BY <1>1, WorkingTurn DEF Working
<1>3. \/ rec' = [rec EXCEPT !.ran = TRUE] /\ UNCHANGED << mcp, delivered >>
      \/ \E route \in {"on", "off"} :
            /\ UNCHANGED rec /\ mcp' = mcp \cup {route}
            /\ delivered' = IF route = "on" THEN delivered \cup {turn} ELSE delivered
  BY DEF RunTool, SendByTool
<1>4. /\ rec' \in Recovery /\ mcp' \subseteq {"on", "off"} /\ (rec'.ran \/ mcp' # {})
      /\ rec'.sentAny = rec.sentAny /\ rec'.mode = rec.mode /\ rec'.reports = rec.reports
      /\ rec'.nudged = rec.nudged /\ rec'.empty = rec.empty /\ rec'.exhausted = rec.exhausted
      /\ rec'.silence = rec.silence
      /\ mcp \subseteq mcp'
      /\ delivered' = delivered \/ (delivered' = delivered \cup {turn} /\ "on" \in mcp')
  BY <1>1, <1>3 DEF IInv, TypeOK, Recovery
<1>5. TypeOK'
  BY <1>1, <1>4 DEF IInv, TypeOK
<1>6. OneBatch' /\ OneExchange'
  BY <1>1, <1>4 DEF IInv, OneBatch, OneExchange
<1>7. WorkIsSeen'
  BY <1>1, <1>2, <1>4 DEF IInv, WorkIsSeen
<1>8. RepliesSettle'
  BY <1>1, <1>4 DEF IInv, RepliesSettle
<1>9. SilenceIsNoted'
  BY <1>1, <1>4 DEF IInv, SilenceIsNoted, Explained
<1>10. NoRetryAfterTools' /\ SilenceIsChosen'
  BY <1>1 DEF IInv, NoRetryAfterTools, SilenceIsChosen
<1>11. NoticeOnlyWithoutReply'
  BY <1>1, <1>2, <1>4 DEF IInv, NoticeOnlyWithoutReply, SilenceIsNoted
<1> QED BY <1>5, <1>6, <1>7, <1>8, <1>9, <1>10, <1>11 DEF IInv
\* The result handler, for an answer and for the notice of a compaction
LEMMA ResultStep ==
  ASSUME IInv, NEW result \in ResultsOf(provider), NEW left, ResultEvent(result, left),
         \/ left = Tail(asked) /\ compacted' = compacted
         \/ left = asked /\ provider = "claude" /\ compacted' = TRUE
  PROVE  IInv'
<1> DEFINE retrying == rec.mode # "none"
           rest == IF retrying \/ queue = << >> THEN queue ELSE Tail(queue)
           v == OnResult(result)
           nudge == [turn |-> turn, kind |-> v.push, acted |-> turn \in acted]
           pushed == v.push # "none" /\ Accepts(v.push)
           active == StaysActive(rest, v.push)
           reply == \/ result = "replies"
                    \/ result \in Texts /\ Sends(result, rec.mode = "delivery")
           settles == ~active /\ (v.rec.sentAny \/ v.rec.silence) /\ outcome[turn] = "pending"
           final == IF failed THEN "failed" ELSE IF v.rec.sentAny THEN "replied" ELSE "silent"
           word == IF v.rec.sentAny THEN "reply" ELSE "choice"
<1>1. Working
  BY DEF ResultEvent
<1>2. /\ open /\ turn \in Turns /\ left \in Seq(Prompt) /\ compacted' \in BOOLEAN
      /\ compacted' => provider = "claude"
      /\ ~compacted' => ~compacted /\ turnActive /\ left = << >> /\ ~rec.sentAny
  <2>1. /\ open /\ turn \in Turns /\ compacted \in BOOLEAN /\ asked \in Seq(Prompt)
        /\ compacted => provider = "claude"
    BY <1>1, WorkingTurn DEF IInv, TypeOK, OneExchange
  <2>2. /\ Tail(asked) \in Seq(Prompt)
        /\ ~compacted => turnActive /\ Tail(asked) = << >> /\ ~rec.sentAny
    BY <1>1, WorkingTurn
  <2>3. CASE left = Tail(asked) /\ compacted' = compacted
    BY <2>1, <2>2, <2>3
  <2>4. CASE left = asked /\ provider = "claude" /\ compacted' = TRUE
    BY <2>1, <2>4
  <2> QED BY <2>3, <2>4
<1>3. SoundVerdict(v, rec) /\ (reply => v.rec.sentAny)
      /\ (provider = "native" => v.push = "none")
  BY <1>1, ResultVerdict
<1>4. rest = << >>
  <2>1. \A t : Tail(<< t >>) = << >>
    OBVIOUS
  <2> QED BY <2>1 DEF IInv, OneBatch
<1>5. active = (v.push # "none")
  BY <1>4 DEF StaysActive
<1>6. /\ asked' = IF pushed THEN Append(left, nudge) ELSE left
      /\ queue' = rest /\ rec' = v.rec /\ turnActive' = active /\ mcp' = {} /\ resultSeen'
      /\ ended' = IF ended = "no" /\ ((v.end /\ rest = << >>) \/ oneShot
                                         \/ (~active /\ v.rec.silence))
                   THEN "asked" ELSE ended
      /\ outcome' = IF settles THEN [outcome EXCEPT ![turn] = final] ELSE outcome
      /\ told' = IF settles THEN [told EXCEPT ![turn] = word] ELSE told
      /\ delivered' = IF reply THEN delivered \cup {turn} ELSE delivered
      /\ unheard' = IF \/ (~active /\ ~v.end /\ ~v.rec.sentAny /\ ~v.rec.silence)
                        \/ (v.push = "tool" /\ ~pushed)
                     THEN unheard \cup {turn} ELSE unheard
      /\ UNCHANGED << provider, oneShot, aborted, open, turn, failed, acted >>
      /\ resultSeen' = TRUE
  BY DEF ResultEvent, SettleAtBoundary
<1> HIDE DEF v, rest, active, reply, settles, pushed, nudge
<1>7. /\ v.rec \in Recovery /\ v.push \in {"none", "wrap", "tool", "report"}
      /\ v.rec.sentAny \in BOOLEAN /\ v.rec.silence \in BOOLEAN
  BY <1>3, RecoveryFields DEF SoundVerdict
<1>8. /\ pushed => v.push # "none" /\ asked' = Append(left, nudge) /\ asked' # << >>
      /\ ~pushed => asked' = left
      /\ ~compacted' => asked' = IF pushed THEN << nudge >> ELSE << >>
  <2>1. \A n : Append(<< >>, n) = << n >>
    OBVIOUS
  <2>2. Append(left, nudge) # << >>
    BY <1>2
  <2>3. pushed => v.push # "none"
    BY DEF pushed
  <2> QED BY <1>2, <1>6, <2>1, <2>2, <2>3
<1>9. nudge \in Prompt \/ v.push = "none"
  BY <1>2, <1>7 DEF nudge, Prompt
<1>10. final \in {"failed", "replied", "silent"} /\ word \in {"reply", "choice"}
  OBVIOUS
<1>11. TypeOK'
  <2>1. asked' \in Seq(Prompt) /\ queue' \in Seq(Turns)
    <3>1. << >> \in Seq(Prompt) /\ << >> \in Seq(Turns)
      OBVIOUS
    <3>2. \A n \in Prompt : Append(left, n) \in Seq(Prompt)
      BY <1>2
    <3> QED BY <1>2, <1>4, <1>6, <1>8, <1>9, <3>1, <3>2
  <2>2. rec' \in Recovery /\ turnActive' \in BOOLEAN /\ mcp' \subseteq {"on", "off"}
    BY <1>5, <1>6, <1>7
  <2>3. outcome' \in [Turns -> {"none", "pending", "replied", "silent", "warning", "failed",
                                  "interrupted", "stopped"}]
    BY <1>2, <1>6, <1>10 DEF IInv, TypeOK
  <2>4. told' \in [Turns -> {"none", "reply", "choice", "runaway", "malformed", "delivery",
                               "empty", "error", "stopped"}]
    BY <1>2, <1>6, <1>10 DEF IInv, TypeOK
  <2>5. delivered' \subseteq Turns /\ unheard' \subseteq Turns
    BY <1>2, <1>6 DEF IInv, TypeOK
  <2>6. ended' \in {"no", "asked", "quit"} /\ resultSeen' \in BOOLEAN
    BY <1>6 DEF IInv, TypeOK
  <2>7. /\ provider' \in Providers /\ oneShot' \in BOOLEAN /\ turn' \in Turns
        /\ aborted' \in {"no", "command", "runaway", "user"} /\ open' \in BOOLEAN
        /\ failed' \in BOOLEAN /\ acted' \subseteq Turns
    BY <1>6 DEF IInv, TypeOK
  <2> QED BY <1>2, <2>1, <2>2, <2>3, <2>4, <2>5, <2>6, <2>7 DEF TypeOK
<1>12. OneBatch' /\ OneExchange'
  <2>1. ~compacted' => asked' = << >> \/ asked' = << Head(asked') >>
    BY <1>8
  <2>2. ~active => v.push = "none" /\ v.rec.mode = "none"
    BY <1>3, <1>5 DEF SoundVerdict
  <2> QED BY <1>2, <1>4, <1>6, <1>8, <2>1, <2>2 DEF OneBatch, OneExchange
<1>13. WorkIsSeen'
  <2>1. acted' \subseteq 1 .. turn' /\ delivered' \subseteq 1 .. turn'
    BY <1>2, <1>6 DEF IInv, WorkIsSeen, Turns
  <2>2. active /\ turn \in acted /\ ~compacted' => v.rec.ran
    BY <1>2, <1>3, <1>5, <1>7 DEF IInv, WorkIsSeen, SoundVerdict, HasActed
  <2>3. turn \in delivered' => v.rec.sentAny
    BY <1>2, <1>3, <1>6 DEF IInv, WorkIsSeen, SoundVerdict
  <2> QED BY <1>2, <1>6, <2>1, <2>2, <2>3 DEF WorkIsSeen
<1>14. RepliesSettle'
  <2>1. v.rec.sentAny => outcome'[turn] # "pending"
    <3>1. CASE active
      BY <1>3, <1>5, <1>6, <3>1 DEF SoundVerdict, settles, IInv, RepliesSettle
    <3>2. CASE ~active
      BY <1>2, <1>6, <1>10, <3>2 DEF settles, IInv, TypeOK
    <3> QED BY <3>1, <3>2
  <2>2. v.rec.sentAny => ~active \/ compacted'
    BY <1>2, <1>3, <1>5 DEF SoundVerdict
  <2>3. provider = "native" => ~active
    BY <1>3, <1>5
  <2> QED BY <1>3, <1>6, <2>1, <2>2, <2>3 DEF RepliesSettle, SoundVerdict
<1>15. SilenceIsNoted'
  <2>1. asked' = << >> => Explained(v.rec) \/ turn \in unheard'
    <3>1. CASE v.push = "none"
      BY <1>3, <1>5, <1>6, <3>1 DEF SoundVerdict, Explained
    <3>2. CASE v.push = "tool"
      BY <1>6, <1>8, <3>2
    <3>3. CASE v.push \in {"wrap", "report"}
      BY <1>3, <3>3 DEF SoundVerdict
    <3> QED BY <1>7, <3>1, <3>2, <3>3
  <2>2. \A t \in Turns : /\ told'[t] \notin {"malformed", "delivery", "empty"}
                         /\ outcome'[t] = "silent" => told'[t] # "none"
    BY <1>2, <1>6, <1>10 DEF IInv, SilenceIsNoted, TypeOK
  <2> QED BY <1>6, <2>1, <2>2 DEF SilenceIsNoted
<1>16. NoRetryAfterTools'
  <2>1. CASE compacted'
    BY <2>1 DEF NoRetryAfterTools
  <2>2. CASE ~compacted'
    <3>1. v.push \in {"wrap", "tool"} => turn \notin acted
      BY <1>2, <1>3, <2>2 DEF IInv, WorkIsSeen, SoundVerdict, HasActed
    <3>2. nudge.kind = v.push /\ nudge.acted = (turn \in acted)
      BY DEF nudge
    <3>3. DOMAIN << nudge >> = {1} /\ << nudge >>[1] = nudge /\ DOMAIN << >> = {}
      OBVIOUS
    <3> QED BY <1>8, <2>2, <3>1, <3>2, <3>3 DEF NoRetryAfterTools
  <2> QED BY <2>1, <2>2
<1>17. NoticeOnlyWithoutReply' /\ SilenceIsChosen'
  BY <1>2, <1>6, <1>15 DEF SilenceIsNoted, NoticeOnlyWithoutReply, SilenceIsChosen
<1> QED BY <1>11, <1>12, <1>13, <1>14, <1>15, <1>16, <1>17 DEF IInv
LEMMA AnswerStep == ASSUME IInv, ProviderAnswers \/ Compaction PROVE IInv'
<1>1. CASE ProviderAnswers
  BY <1>1, ResultStep DEF ProviderAnswers, Result
<1>2. CASE Compaction
  <2>1. "plain" \in ResultsOf(provider)
    BY <1>2 DEF Compaction, ResultsOf, Texts
  <2> QED BY <1>2, <2>1, ResultStep DEF Compaction
<1> QED BY <1>1, <1>2

\* Errors, the closing of the stream, aborts and the provider's own end:
\* what they change no part of the invariant speaks of, as long as the query
\* is open.
LEMMA QuietStep ==
  ASSUME IInv, open,
         UNCHANGED << provider, oneShot, open, asked, queue, turn, turnActive, rec, mcp,
                      resultSeen, outcome, told, acted, delivered, unheard, compacted >>,
         failed' \in BOOLEAN, ended' \in {"no", "asked", "quit"},
         aborted' \in {"no", "command", "runaway", "user"}
  PROVE  IInv'
<1>1. TypeOK' /\ OneBatch' /\ OneExchange' /\ WorkIsSeen' /\ RepliesSettle' /\ SilenceIsNoted'
  BY DEF IInv, TypeOK, OneBatch, OneExchange, WorkIsSeen, RepliesSettle, SilenceIsNoted, Explained
<1>2. NoRetryAfterTools'
  BY DEF IInv, NoRetryAfterTools
<1>3. NoticeOnlyWithoutReply' /\ SilenceIsChosen'
  BY DEF IInv, SilenceIsNoted, NoticeOnlyWithoutReply, SilenceIsChosen
<1> QED BY <1>1, <1>2, <1>3 DEF IInv

LEMMA QuietActions ==
  ASSUME IInv,
         \/ ProviderError \/ EndForTask \/ UserStop \/ ProviderQuits
         \/ \E reason \in {"command", "runaway"} : Abort(reason)
  PROVE  IInv'
<1>1. /\ failed \in BOOLEAN /\ ended \in {"no", "asked", "quit"}
      /\ aborted \in {"no", "command", "runaway", "user"}
  BY DEF IInv, TypeOK
<1> USE DEF Listening, Working
<1>2. CASE ProviderError
  BY <1>1, <1>2, QuietStep DEF ProviderError
<1>3. CASE EndForTask
  BY <1>1, <1>3, QuietStep DEF EndForTask
<1>4. CASE UserStop
  BY <1>1, <1>4, QuietStep DEF UserStop
<1>5. CASE ProviderQuits
  BY <1>1, <1>5, QuietStep DEF ProviderQuits
<1>6. CASE \E reason \in {"command", "runaway"} : Abort(reason)
  BY <1>1, <1>6, QuietStep DEF Abort
<1> QED BY <1>2, <1>3, <1>4, <1>5, <1>6

\* The native provider gives up on its prompt without a result.
LEMMA RetryableErrorStep == IInv /\ RetryableError => IInv'
<1> SUFFICES ASSUME IInv, RetryableError PROVE IInv'
  OBVIOUS
<1>1. /\ provider = "native" /\ asked' = << >> /\ turnActive /\ open
      /\ unheard' = unheard \cup {turn}
      /\ UNCHANGED << provider, oneShot, ended, aborted, open, queue, turn, turnActive, rec, mcp,
                      failed, resultSeen, outcome, told, acted, delivered, compacted >>
      /\ ~compacted
  BY WorkingTurn DEF RetryableError, IInv, OneExchange
<1>2. TypeOK'
  <2>1. << >> \in Seq(Prompt)
    OBVIOUS
  <2> QED BY <1>1, <2>1 DEF IInv, TypeOK
<1>3. OneBatch' /\ OneExchange' /\ WorkIsSeen' /\ RepliesSettle' /\ SilenceIsNoted'
  BY <1>1 DEF IInv, OneBatch, OneExchange, WorkIsSeen, RepliesSettle, SilenceIsNoted, Explained
<1>4. NoRetryAfterTools'
  BY <1>1 DEF NoRetryAfterTools
<1>5. NoticeOnlyWithoutReply' /\ SilenceIsChosen'
  BY <1>1 DEF IInv, NoticeOnlyWithoutReply, SilenceIsChosen
<1> QED BY <1>2, <1>3, <1>4, <1>5 DEF IInv

\* The next turn of the warm query
LEMMA FollowUpStep == IInv /\ FollowUp => IInv'
<1> SUFFICES ASSUME IInv, FollowUp PROVE IInv'
  OBVIOUS
<1> DEFINE next == turn + 1
           ask == [turn |-> next, kind |-> "input", acted |-> FALSE]
<1>1. /\ open /\ ~turnActive /\ queue = << >> /\ rec.mode = "none"
      /\ asked \in Seq(Prompt) /\ compacted' = (compacted /\ asked # << >>)
      /\ compacted => provider = "claude"
      /\ ~compacted' => asked = << >>
  BY DEF FollowUp, Listening, IInv, TypeOK, OneBatch, OneExchange
<1>2. turn \in Turns /\ next \in Turns /\ turn \in Nat /\ next \notin 1 .. turn
  BY TurnsAssumption DEF FollowUp, IInv, TypeOK, Turns
<1>3. rec' = FreshRecovery
  BY <1>1 DEF FollowUp, FreshRecovery
<1>4. /\ turn' = next /\ mcp' = {} /\ failed' = FALSE /\ resultSeen' = FALSE
      /\ UNCHANGED << provider, oneShot, aborted, open, told, acted, delivered, unheard >>
      /\ \/ /\ turnActive' /\ ended' = ended
            /\ turnActive' = TRUE
            /\ outcome' = [outcome EXCEPT ![next] = "pending"]
            /\ asked' = Append(asked, ask) /\ queue' = << next >>
         \/ /\ outcome' = [outcome EXCEPT ![next] = "interrupted"]
            /\ ended' = "asked"
            /\ UNCHANGED << turnActive, asked, queue >>
  <2>1. \A n : Append(<< >>, n) = << n >>
    OBVIOUS
  <2> QED BY <1>1, <2>1 DEF FollowUp
<1>5. ask \in Prompt
  BY <1>2 DEF Prompt
<1> HIDE DEF next, ask
<1>6. TypeOK'
  <2>1. asked' \in Seq(Prompt) /\ queue' \in Seq(Turns)
    <3>1. /\ << >> \in Seq(Turns) /\ << next >> \in Seq(Turns)
          /\ Append(asked, ask) \in Seq(Prompt)
      BY <1>1, <1>2, <1>5
    <3> QED BY <1>1, <1>4, <3>1
  <2>2. outcome' \in [Turns -> {"none", "pending", "replied", "silent", "warning", "failed",
                                  "interrupted", "stopped"}]
    BY <1>2, <1>4 DEF IInv, TypeOK
  <2>3. rec' \in Recovery
    BY <1>3, FreshIsRecovery
  <2>4. /\ provider' \in Providers /\ oneShot' \in BOOLEAN /\ turn' \in Turns
        /\ aborted' \in {"no", "command", "runaway", "user"} /\ open' \in BOOLEAN
        /\ failed' \in BOOLEAN /\ acted' \subseteq Turns /\ mcp' \subseteq {"on", "off"}
        /\ delivered' \subseteq Turns /\ unheard' \subseteq Turns /\ resultSeen' \in BOOLEAN
        /\ ended' \in {"no", "asked", "quit"} /\ turnActive' \in BOOLEAN
        /\ compacted' \in BOOLEAN
    BY <1>1, <1>2, <1>4 DEF IInv, TypeOK
  <2>5. told' \in [Turns -> {"none", "reply", "choice", "runaway", "malformed", "delivery",
                               "empty", "error", "stopped"}]
    BY <1>4 DEF IInv, TypeOK
  <2> QED BY <2>1, <2>2, <2>3, <2>4, <2>5 DEF TypeOK
<1>a. ~compacted' => asked' = << ask >> \/ (asked' = << >> /\ UNCHANGED turnActive)
  <2>1. Append(<< >>, ask) = << ask >>
    OBVIOUS
  <2> QED BY <1>1, <1>4, <2>1
<1>7. OneBatch' /\ OneExchange'
  <2>1. Head(<< ask >>) = ask /\ rec'.mode = "none"
    BY <1>3 DEF FreshRecovery
  <2> QED BY <1>1, <1>4, <1>a, <2>1 DEF OneBatch, OneExchange
<1>8. WorkIsSeen'
  <2>1. 1 .. turn \subseteq 1 .. next
    BY <1>2 DEF next
  <2> QED BY <1>1, <1>2, <1>4, <2>1 DEF IInv, WorkIsSeen
<1>9. RepliesSettle'
  BY <1>3 DEF RepliesSettle, FreshRecovery
<1>10. SilenceIsNoted'
  BY <1>2, <1>4 DEF IInv, SilenceIsNoted, TypeOK
<1>11. NoRetryAfterTools'
  <2>1. DOMAIN << ask >> = {1} /\ << ask >>[1] = ask /\ DOMAIN << >> = {}
    OBVIOUS
  <2>2. ask.kind = "input"
    BY DEF ask
  <2> QED BY <1>a, <2>1, <2>2 DEF NoRetryAfterTools
<1>12. NoticeOnlyWithoutReply' /\ SilenceIsChosen'
  BY <1>1, <1>4, <1>10 DEF SilenceIsNoted, NoticeOnlyWithoutReply, SilenceIsChosen
<1> QED BY <1>6, <1>7, <1>8, <1>9, <1>10, <1>11, <1>12 DEF IInv
\* The query ends with an outcome and a word for the turn that is unsettled.
LEMMA EndStep ==
  ASSUME IInv, open, NEW result, NEW word, Settle(result, word),
         result \in {"stopped", "warning", "failed", "silent", "interrupted"},
         word \in {"none", "choice", "runaway", "malformed", "delivery", "empty", "error",
                   "stopped"},
         open' = FALSE, queue' = << >>,
         UNCHANGED << provider, oneShot, ended, aborted, asked, turn, turnActive, rec, mcp,
                      failed, resultSeen, acted, delivered, unheard, compacted >>,
         /\ word \in {"malformed", "delivery", "empty"}
         /\ outcome[turn] = "pending"
         => turn \notin delivered \/ aborted = "command",
         /\ result = "silent" /\ word = "none"
         /\ outcome[turn] = "pending"
         => turn \in unheard \/ aborted = "command"
  PROVE  IInv'
<1>1. turn \in Turns
  BY DEF IInv, TypeOK
<1>2. TypeOK'
  <2>1. outcome' \in [Turns -> {"none", "pending", "replied", "silent", "warning", "failed",
                                  "interrupted", "stopped"}]
    BY DEF Settle, IInv, TypeOK
  <2>2. told' \in [Turns -> {"none", "reply", "choice", "runaway", "malformed", "delivery",
                               "empty", "error", "stopped"}]
    BY DEF Settle, IInv, TypeOK
  <2>3. << >> \in Seq(Turns)
    OBVIOUS
  <2> QED BY <2>1, <2>2, <2>3 DEF IInv, TypeOK
<1>3. OneBatch' /\ OneExchange' /\ WorkIsSeen'
  BY DEF IInv, OneBatch, OneExchange, WorkIsSeen
<1>4. RepliesSettle'
  BY <1>1 DEF IInv, RepliesSettle, Settle, TypeOK
<1>5. SilenceIsNoted' /\ NoRetryAfterTools'
  BY DEF IInv, SilenceIsNoted, NoRetryAfterTools, Explained
<1>6. NoticeOnlyWithoutReply'
  BY <1>1 DEF IInv, NoticeOnlyWithoutReply, Settle, TypeOK, SilenceIsNoted
<1>7. SilenceIsChosen'
  BY <1>1 DEF IInv, SilenceIsChosen, Settle, TypeOK, SilenceIsNoted
<1> QED BY <1>2, <1>3, <1>4, <1>5, <1>6, <1>7 DEF IInv

LEMMA ThrowStep == IInv /\ Throw => IInv'
BY EndStep DEF Throw, Listening

LEMMA FinishStep == IInv /\ Finish => IInv'
<1> SUFFICES ASSUME IInv, Finish PROVE IInv'
  OBVIOUS
<1>1. /\ FinalOutcome \in {"stopped", "warning", "failed", "silent", "interrupted"}
      /\ FinalWord \in {"none", "choice", "runaway", "malformed", "delivery", "empty", "error",
                         "stopped"}
  BY DEF FinalOutcome, FinalWord, TerminalNotice
<1>2. aborted = "no" => asked = << >>
  BY DEF Finish
<1>3. aborted \in {"no", "command", "runaway", "user"}
  BY DEF IInv, TypeOK
<1>4. ASSUME FinalWord \in {"malformed", "delivery", "empty"}, aborted # "command"
      PROVE  turn \notin delivered
  <2>1. /\ aborted = "no" /\ ~rec.sentAny
        /\ rec.exhausted \/ rec.nudged \/ rec.empty
    BY <1>3, <1>4 DEF FinalWord, TerminalNotice
  <2>2. "on" \notin mcp
    BY <1>2, <2>1 DEF IInv, WorkIsSeen, RepliesSettle
  <2> QED BY <2>1, <2>2 DEF IInv, WorkIsSeen
<1>5. ASSUME FinalOutcome = "silent", FinalWord = "none", aborted # "command",
             outcome[turn] = "pending"
      PROVE  turn \in unheard
  <2>1. ~rec.sentAny
    BY <1>5 DEF IInv, RepliesSettle
  <2>2. /\ aborted \notin {"user", "runaway"} /\ ~rec.silence /\ ~rec.exhausted
        /\ ~rec.nudged /\ ~rec.empty /\ resultSeen
    BY <1>5, <2>1 DEF FinalOutcome, FinalWord, TerminalNotice
  <2> QED BY <1>2, <1>3, <1>5, <2>1, <2>2 DEF IInv, SilenceIsNoted, Explained
<1> QED BY <1>1, <1>4, <1>5, EndStep DEF Finish

\* Every step keeps the inductive invariant.
LEMMA NextIInv == IInv /\ [Next]_vars => IInv'
<1> SUFFICES ASSUME IInv, [Next]_vars PROVE IInv'
  OBVIOUS
<1>1. CASE UNCHANGED vars
  BY <1>1, StutterIInv
<1>2. CASE RunTool \/ (\E route \in {"on", "off"} : SendByTool(route))
  BY <1>2, ToolStep
<1>3. CASE ProviderAnswers \/ Compaction
  BY <1>3, AnswerStep
<1>4. CASE \/ ProviderError \/ EndForTask \/ UserStop \/ ProviderQuits
           \/ \E reason \in {"command", "runaway"} : Abort(reason)
  BY <1>4, QuietActions
<1>5. CASE RetryableError
  BY <1>5, RetryableErrorStep
<1>6. CASE FollowUp
  BY <1>6, FollowUpStep
<1>7. CASE Finish \/ Throw
  BY <1>7, FinishStep, ThrowStep
<1> QED BY <1>1, <1>2, <1>3, <1>4, <1>5, <1>6, <1>7 DEF Next

-----------------------------------------------------------------------------
\* The inductive invariant holds in every reachable state of a warm query.
THEOREM IInvAlways == Spec => []IInv
BY InitIInv, NextIInv, PTL DEF Spec

\* Every reachable state of a warm query is well typed: in particular the
\* retries of the recovery stay within their budgets.
THEOREM TypeCorrect == Spec => []TypeOK
<1>1. IInv => TypeOK
  BY DEF IInv
<1> QED BY IInvAlways, <1>1, PTL

\* No corrective prompt that leaves the tools enabled follows work done in
\* its turn (needsPostToolReport), as long as no compaction has split the
\* turn's exchange.
THEOREM WorkIsNotRepeated == Spec => []NoRetryAfterTools
<1>1. IInv => NoRetryAfterTools
  BY DEF IInv
<1> QED BY IInvAlways, <1>1, PTL

\* Between turns no input waits for its result and the provider owes no
\* answer, so that a follow-up joins no exchange (turnActive,
\* beginCorrectiveTurn), unless Claude's notice of a compaction has ended the
\* turn before its exchange and the provider was not idle since.
THEOREM TurnsDoNotOverlap == Spec => []IdleBetweenTurns
<1>1. IInv => IdleBetweenTurns
  BY DEF IInv, OneBatch, OneExchange, IdleBetweenTurns
<1> QED BY IInvAlways, <1>1, PTL

\* Under a provider that yields one result an exchange, which is any but
\* Claude, a follow-up never joins an exchange that still runs.
THEOREM OnlyClaudeOverlaps ==
    Spec => [](open /\ ~turnActive /\ provider # "claude" => asked = << >>)
<1>1. IInv => (open /\ ~turnActive /\ provider # "claude" => asked = << >>)
  BY DEF IInv, OneExchange
<1> QED BY IInvAlways, <1>1, PTL

\* No notice of failure contradicts a reply of its turn (terminalNotice).
THEOREM NoticesAreTrue == Spec => []NoticeOnlyWithoutReply
<1>1. IInv => NoticeOnlyWithoutReply
  BY DEF IInv
<1> QED BY IInvAlways, <1>1, PTL

\* A turn recorded as silent chose silence, but for the turns the recovery
\* did not react to and those a command cut short (the finish of processQuery).
THEOREM SilenceIsMeant == Spec => []SilenceIsChosen
<1>1. IInv => SilenceIsChosen
  BY DEF IInv
<1> QED BY IInvAlways, <1>1, PTL

-----------------------------------------------------------------------------
(* Refinement: each turn is settled once. *)

\* The turns up to the current one have begun, and no other.
BegunInOrder == \A t \in Turns : outcome[t] = "none" <=> t > turn

LEMMA CurrentIsLatest == ASSUME TypeOK, BegunInOrder PROVE Ledger!Latest(turn)
<1>1. turn \in Turns
  BY DEF TypeOK
<1> QED BY <1>1 DEF BegunInOrder, Ledger!Latest, Turns, Ledger!Turns

\* The current turn, when it is pending, is settled with words that agree.
LEMMA SettleStep ==
    ASSUME TypeOK, BegunInOrder, turn' = turn, NEW result \in Ledger!Results, result # "none",
           NEW word \in Ledger!Words(result), Settle(result, word)
    PROVE  BegunInOrder' /\ (Ledger!Next \/ UNCHANGED << outcome, told >>)
<1>1. turn \in Turns /\ Turns = Ledger!Turns
  BY DEF TypeOK, Turns, Ledger!Turns
<1>2. CASE outcome[turn] # "pending"
  BY <1>2 DEF Settle, BegunInOrder
<1>3. CASE outcome[turn] = "pending"
  <2>1. /\ outcome' = [outcome EXCEPT ![turn] = result]
        /\ told' = [told EXCEPT ![turn] = word]
    BY <1>3 DEF Settle
  <2>2. Ledger!Settle(turn, result)
    BY <1>3, <2>1, CurrentIsLatest DEF Ledger!Settle
  <2>3. BegunInOrder'
    BY <1>1, <1>3, <2>1 DEF BegunInOrder, TypeOK
  <2> QED BY <1>1, <2>2, <2>3 DEF Ledger!Next
<1> QED BY <1>2, <1>3

LEMMA LedgerStep ==
    ASSUME IInv, BegunInOrder, [Next]_vars
    PROVE  BegunInOrder' /\ [Ledger!Next]_(Ledger!vars)
<1> USE DEF Ledger!vars
<1>0. TypeOK /\ turn \in Turns /\ Turns = Ledger!Turns
  BY DEF IInv, TypeOK, Turns, Ledger!Turns
<1>1. ASSUME NEW result, NEW left, ResultEvent(result, left)
      PROVE  BegunInOrder' /\ [Ledger!Next]_(Ledger!vars)
  <2>1. PICK r, active : SettleAtBoundary(r, active)
    BY <1>1 DEF ResultEvent
  <2>2. turn' = turn
    BY <1>1 DEF ResultEvent
  <2> DEFINE record == IF failed THEN "failed" ELSE IF r.sentAny THEN "replied" ELSE "silent"
             word == IF r.sentAny THEN "reply" ELSE "choice"
  <2>3. record \in Ledger!Results /\ record # "none" /\ word \in Ledger!Words(record)
    BY DEF Ledger!Results, Ledger!Words
  <2>4. UNCHANGED << outcome, told >> \/ Settle(record, word)
    BY <2>1 DEF SettleAtBoundary, Settle
  <2>5. CASE UNCHANGED << outcome, told >>
    BY <2>2, <2>5 DEF BegunInOrder
  <2> HIDE DEF record, word
  <2>6. CASE Settle(record, word)
    BY <1>0, <2>2, <2>3, <2>6, SettleStep
  <2> QED BY <2>4, <2>5, <2>6
<1>2. CASE Finish
  <2>1. FinalOutcome \in Ledger!Results /\ FinalOutcome # "none" /\ FinalWord \in Ledger!Words(FinalOutcome)
    BY DEF FinalOutcome, FinalWord, TerminalNotice, Ledger!Results, Ledger!Words
  <2> QED BY <1>0, <1>2, <2>1, SettleStep DEF Finish
<1>3. CASE Throw
  <2>1. "failed" \in Ledger!Results /\ "failed" # "none" /\ "error" \in Ledger!Words("failed")
    BY DEF Ledger!Results, Ledger!Words
  <2> QED BY <1>0, <1>3, <2>1, SettleStep DEF Throw
<1>4. CASE FollowUp
  <2> DEFINE next == turn + 1
  <2>1. /\ turn < MaxTurns /\ turn' = next /\ UNCHANGED told
        /\ outcome' \in {[outcome EXCEPT ![next] = "pending"], [outcome EXCEPT ![next] = "interrupted"]}
    BY <1>4 DEF FollowUp
  <2>2. next \in Turns /\ next - 1 = turn /\ \A t \in Turns : t > next <=> t > turn /\ t # next
    BY <1>0, <2>1, TurnsAssumption DEF Turns
  <2>3. BegunInOrder'
    BY <1>0, <2>1, <2>2 DEF BegunInOrder, TypeOK
  <2>4. Ledger!Begin(next)
    BY <1>0, <2>1, <2>2, CurrentIsLatest DEF Ledger!Begin
  <2> QED BY <1>0, <2>2, <2>3, <2>4 DEF Ledger!Next
<1>5. CASE \/ RunTool \/ \E route \in {"on", "off"} : SendByTool(route)
           \/ ProviderError \/ RetryableError \/ EndForTask
           \/ \E reason \in {"command", "runaway"} : Abort(reason)
           \/ UserStop \/ ProviderQuits \/ UNCHANGED vars
  <2>1. UNCHANGED << outcome, told, turn >>
    BY <1>5 DEF RunTool, SendByTool, ProviderError, RetryableError, EndForTask, Abort, UserStop,
                ProviderQuits, vars
  <2> QED BY <2>1 DEF BegunInOrder
<1> QED BY <1>1, <1>2, <1>3, <1>4, <1>5 DEF Next, ProviderAnswers, Result, Compaction

\* The turns of a query implement a ledger in which each is settled once, as
\* what its user was told.
THEOREM LedgerRefinement == Spec => TurnsAreSettledOnce
<1>1. Init => BegunInOrder /\ Ledger!Init
  BY TurnsAssumption DEF Init, BegunInOrder, Turns, Ledger!Init, Ledger!Turns
<1>2. IInv /\ BegunInOrder /\ [Next]_vars => BegunInOrder' /\ [Ledger!Next]_(Ledger!vars)
  BY LedgerStep
<1> QED
  BY <1>1, <1>2, IInvAlways, PTL DEF Spec, TurnsAreSettledOnce, Ledger!Spec

-----------------------------------------------------------------------------
(* Retries: what a turn has left decreases. *)

\* A result that asks again pays for it, and one that gives prompts back has
\* settled its turn.
LEMMA ResultSpends ==
  ASSUME IInv, IInv', NEW result \in ResultsOf(provider), NEW left, ResultEvent(result, left)
  PROVE  /\ asked' # left => PromptsLeft(rec') < PromptsLeft(rec)
         /\ outcome'[turn] = "pending" => PromptsLeft(rec') <= PromptsLeft(rec)
<1> DEFINE v == OnResult(result)
<1>1. Working /\ rec' = v.rec /\ turn' = turn
  BY DEF ResultEvent
<1>2. Spends(v, rec)
  BY <1>1, ResultVerdict DEF SoundVerdict
<1>3. asked' # left => v.push # "none"
  BY DEF ResultEvent
<1>4. rec'.sentAny => outcome'[turn] # "pending"
  BY <1>1 DEF IInv, RepliesSettle
<1> HIDE DEF v
<1> QED BY <1>1, <1>2, <1>3, <1>4 DEF Spends

LEMMA AnswerSpends ==
  ASSUME IInv, IInv', ProviderAnswers \/ Compaction
  PROVE  /\ \/ ProviderAnswers /\ asked' # Tail(asked)
            \/ Compaction /\ asked' # asked
            => PromptsLeft(rec') < PromptsLeft(rec)
         /\ outcome'[turn] = "pending" => PromptsLeft(rec') <= PromptsLeft(rec)
<1>1. ASSUME ProviderAnswers
      PROVE  /\ asked' # Tail(asked) => PromptsLeft(rec') < PromptsLeft(rec)
             /\ outcome'[turn] = "pending" => PromptsLeft(rec') <= PromptsLeft(rec)
  BY <1>1, ResultSpends DEF ProviderAnswers, Result
<1>2. ASSUME Compaction
      PROVE  /\ asked' # asked => PromptsLeft(rec') < PromptsLeft(rec)
             /\ outcome'[turn] = "pending" => PromptsLeft(rec') <= PromptsLeft(rec)
  <2>1. "plain" \in ResultsOf(provider)
    BY <1>2 DEF Compaction, ResultsOf, Texts
  <2> QED BY <1>2, <2>1, ResultSpends DEF Compaction
<1> QED BY <1>1, <1>2

\* Every other step of a turn leaves its prompts alone.
LEMMA NothingSpent ==
  ASSUME IInv, [Next]_vars, turn' = turn, ~ProviderAnswers, ~Compaction
  PROVE  PromptsLeft(rec') = PromptsLeft(rec)
<1>1. CASE RunTool
  <2>1. rec' = [rec EXCEPT !.ran = TRUE] /\ rec \in Recovery
    BY <1>1 DEF RunTool, IInv, TypeOK
  <2>2. Alike(rec', rec)
    BY <2>1 DEF Alike, Recovery
  <2> QED BY <2>1, <2>2, AlikeLeft
<1>2. ~FollowUp
  BY DEF FollowUp, IInv, TypeOK, Turns
<1>3. CASE \/ \E route \in {"on", "off"} : SendByTool(route)
           \/ ProviderError \/ RetryableError \/ EndForTask \/ UserStop \/ ProviderQuits
           \/ Finish \/ Throw \/ UNCHANGED vars
           \/ \E reason \in {"command", "runaway"} : Abort(reason)
  <2>1. rec' = rec
    BY <1>3 DEF SendByTool, ProviderError, RetryableError, EndForTask, Abort, UserStop,
                ProviderQuits, Finish, Throw, vars
  <2> QED BY <2>1
<1> QED BY <1>1, <1>2, <1>3 DEF Next

\* No turn is asked again without end, whatever results, errors, compactions
\* and tools come in which order (the counters of DeliveryRecovery): every
\* corrective prompt of a turn costs one of the few it has, and none comes back
\* before the turn settles.
THEOREM RecoveryAlwaysRunsOut == Spec => RecoveryRunsOut
<1> DEFINE P == /\ \/ ProviderAnswers /\ asked' # Tail(asked)
                   \/ Compaction /\ asked' # asked
                   => PromptsLeft(rec') \in 0 .. PromptsLeft(rec) - 1
                /\ outcome'[turn] = "pending" => PromptsLeft(rec') <= PromptsLeft(rec)
<1>1. ASSUME IInv, IInv', [Next]_vars, turn' = turn PROVE P
  <2>1. PromptsLeft(rec) \in Nat /\ PromptsLeft(rec') \in Nat
    <3>1. rec \in Recovery /\ rec' \in Recovery
      BY <1>1 DEF IInv, TypeOK
    <3>2. \A r \in Recovery : PromptsLeft(r) \in 0 .. MaxMalformed + MaxReports + 1
      BY PromptsAreCounted
    <3> QED BY <3>1, <3>2 DEF MaxMalformed, MaxReports
  <2>2. CASE ProviderAnswers \/ Compaction
    BY <1>1, <2>1, <2>2, AnswerSpends
  <2>3. CASE ~ProviderAnswers /\ ~Compaction
    BY <1>1, <2>1, <2>3, NothingSpent
  <2> QED BY <2>2, <2>3
<1>2. IInv /\ IInv' /\ [Next]_vars => [turn' = turn => P]_vars
  BY <1>1
<1> QED BY <1>2, IInvAlways, PTL DEF Spec, RecoveryRunsOut
==============================================================================
