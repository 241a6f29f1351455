--------------------------- MODULE InputTurnProofs ---------------------------
(***************************************************************************)
(* For any inputs and any number of crashes: one turn is open at a time,   *)
(* an answer to a request holds, an input reaches the model once, and none *)
(* is completed unheard, nor heard again after the user stopped its turn.  *)
(***************************************************************************)
EXTENDS InputTurn, TLAPS

\* The open turn is the one of the running query; between turns of a stream
\* that goes on, it is settled.
TurnInv ==
    /\ openTurns <= 1
    /\ pc = "idle" => openTurns = 0
    /\ pc = "query" <=> turn # "none"
    /\ turn = "open" => openTurns = 1
    /\ turn = "settled" => openTurns = 0
    /\ pc = "query" /\ ~turnActive /\ finishing = "no" /\ ~ended => turn = "settled"

\* What the loop knows of the provider.
LoopInv ==
    /\ pc # "query" => ~turnActive /\ finishing = "no" /\ ~ended /\ halt = "no" /\ consumed = {}
    /\ ~turnActive => prov = "idle" /\ accepted = {}
    /\ finishing # "no" => prov = "idle"
    /\ halt = "command" => prov # "asked" /\ (ended \/ prov = "working")
    /\ prov = "idle" => \A i \in Inputs : prompt[i] = "none"
    /\ prov # "working" => unsaid = {} /\ \A i \in Inputs : buffer[i] = "none"

\* Steering is accepted before it is claimed, buffered before it is prepared,
\* and the runner hears of what was applied before the next input is prepared,
\* unless the exchange failed.
SteeringInv ==
    /\ unsaid \subseteq accepted \cap ingested
    /\ \A i \in accepted : ack[i] = "none" /\ row[i] = "pending"
    /\ \A i \in Inputs :
        /\ buffer[i] # "none" => i \in accepted \ ingested
        /\ prepared[i] # "none" => prepared[i] = buffer[i] /\ unsaid = {}
    /\ pc = "query" /\ ~ended /\ halt = "no" /\ ~Stranded
         => \A i \in ingested : ack[i] = "none" => i \in unsaid

\* An input in a prompt is claimed, and what a turn has consumed was heard,
\* is in the prompt, was stopped, or had its exchange fail.
ClaimInv ==
    /\ \A i \in Inputs : prompt[i] # "none"
         => ack[i] # "none" /\ i \in claimed /\ row[i] = "pending"
    /\ \A i \in consumed :
        /\ ack[i] # "none"
        /\ entered[i] # {} \/ i \in excused \/ (prov = "asked" /\ prompt[i] # "none")
        /\ halt = "user" => i \in stopped \/ entered[i] # {}
    /\ \A i \in stopped : ack[i] = "completed"
    /\ \A i \in ingested : row[i] = "pending" /\ entered[i] # {}
    /\ \A i \in Inputs : entered[i] # {} => i \in ingested \cup claimed

\* An input nobody holds has not reached the model since the last crash.
OnceInv ==
    \A i \in Inputs :
        /\ times[i] <= 1
        /\ i \notin ingested /\ ack[i] = "none" => times[i] = 0
        /\ i \notin ingested /\ pc = "down" /\ ack[i] = "processing" => times[i] = 0
        /\ prov = "asked" /\ prompt[i] # "none" => times[i] = 0

\* Each input has one text wherever it is, the buffer of an aborted query
\* excepted, and a request that was answered left it or changed it.
TextInv ==
    \A i \in Inputs :
        /\ entered[i] \subseteq {text[i]}
        /\ prompt[i] # "none" => prompt[i] = text[i]
        /\ buffer[i] # "none" /\ halt = "no" => buffer[i] = text[i]
        /\ answer[i] # "none" => request[i] # "none"
        /\ text[i] = "edited" <=> answer[i] = "accepted" /\ request[i] = "edit"
        /\ answer[i] = "accepted" /\ request[i] = "cancel"
             => row[i] = "completed" /\ entered[i] = {}

IInv == /\ TypeOK /\ TurnInv /\ LoopInv /\ SteeringInv /\ ClaimInv /\ OnceInv /\ TextInv
        /\ StopHolds /\ NothingDropped

USE DEF Stranded
-----------------------------------------------------------------------------
LEMMA InitIInv == Init => IInv
<1> SUFFICES ASSUME Init PROVE IInv
    OBVIOUS
<1>1. TypeOK
  <2>1. crashes \in 0 .. MaxCrashes
    BY CrashesAssumption DEF Init
  <2>2. /\ prompt \in [Inputs -> Text] /\ buffer \in [Inputs -> Text]
        /\ prepared \in [Inputs -> Text]
    BY DEF Init, Nothing, Text
  <2>3. /\ row \in [Inputs -> {"absent", "pending", "completed"}]
        /\ text \in [Inputs -> {"sent", "edited"}]
        /\ request \in [Inputs -> {"none", "edit", "cancel"}]
        /\ answer \in [Inputs -> {"none", "accepted", "conflict"}]
        /\ ack \in [Inputs -> {"none", "processing", "completed"}]
        /\ disposition \in [Inputs -> {"none", "queued", "steering", "applied", "processing",
                                       "cancelled"}]
    BY DEF Init, Nothing
  <2>4. entered \in [Inputs -> SUBSET {"sent", "edited"}] /\ times \in [Inputs -> Nat]
    BY DEF Init
  <2> QED BY <2>1, <2>2, <2>3, <2>4 DEF Init, TypeOK
<1>2. TurnInv /\ LoopInv
    BY DEF Init, TurnInv, LoopInv, Nothing
<1>3. SteeringInv /\ ClaimInv
    BY DEF Init, SteeringInv, ClaimInv, Nothing
<1>4. OnceInv /\ TextInv
    BY DEF Init, OnceInv, TextInv, Nothing
<1>5. StopHolds /\ NothingDropped
    BY DEF Init, StopHolds, NothingDropped, Nothing
<1> QED BY <1>1, <1>2, <1>3, <1>4, <1>5 DEF IInv

LEMMA StutterIInv == IInv /\ UNCHANGED vars => IInv'
<1> SUFFICES ASSUME IInv, UNCHANGED vars PROVE IInv'
    OBVIOUS
<1> USE DEF vars, rows, durable, loop, provider, history
<1>1. TypeOK' /\ TurnInv' /\ LoopInv'
    BY DEF IInv, TypeOK, TurnInv, LoopInv
<1>2. SteeringInv' /\ ClaimInv' /\ OnceInv'
    BY DEF IInv, SteeringInv, ClaimInv, OnceInv
<1>3. TextInv' /\ StopHolds' /\ NothingDropped'
    BY DEF IInv, TextInv, StopHolds, NothingDropped
<1> QED BY <1>1, <1>2, <1>3 DEF IInv

LEMMA SubmitStep ==
    ASSUME IInv, NEW i \in Inputs, Submit(i)
    PROVE  IInv'
<1>1. /\ row[i] = "absent" /\ row' = [row EXCEPT ![i] = "pending"]
      /\ row \in [Inputs -> {"absent", "pending", "completed"}]
      /\ UNCHANGED << text, request, answer, durable, loop, provider, crashes, history >>
    BY DEF Submit, IInv, TypeOK
<1>2. /\ row' \in [Inputs -> {"absent", "pending", "completed"}]
      /\ \A j \in Inputs : row[j] # "absent" => row'[j] = row[j]
    BY <1>1
<1> USE DEF durable, loop, provider, history
<1>3. TypeOK' /\ TurnInv' /\ LoopInv'
    BY <1>1, <1>2 DEF IInv, TypeOK, TurnInv, LoopInv
<1>4. SteeringInv'
    BY <1>1, <1>2 DEF IInv, TypeOK, SteeringInv
<1>5. ClaimInv' /\ OnceInv'
    BY <1>1, <1>2 DEF IInv, TypeOK, ClaimInv, OnceInv
<1>6. TextInv' /\ StopHolds' /\ NothingDropped'
    BY <1>1, <1>2 DEF IInv, TextInv, StopHolds, NothingDropped
<1> QED BY <1>3, <1>4, <1>5, <1>6 DEF IInv

LEMMA AskStep ==
    ASSUME IInv, NEW i \in Inputs, NEW operation \in {"edit", "cancel"}, Ask(i, operation)
    PROVE  IInv'
<1>1. /\ request[i] = "none" /\ request' = [request EXCEPT ![i] = operation]
      /\ request \in [Inputs -> {"none", "edit", "cancel"}]
      /\ UNCHANGED << row, text, answer, durable, loop, provider, crashes, history >>
    BY DEF Ask, IInv, TypeOK
<1>2. /\ request' \in [Inputs -> {"none", "edit", "cancel"}]
      /\ \A j \in Inputs : request[j] # "none" => request'[j] = request[j]
    BY <1>1
<1> USE DEF durable, loop, provider, history
<1>3. TypeOK' /\ TurnInv' /\ LoopInv'
    BY <1>1, <1>2 DEF IInv, TypeOK, TurnInv, LoopInv
<1>4. SteeringInv' /\ ClaimInv' /\ OnceInv'
    BY <1>1, <1>2 DEF IInv, SteeringInv, ClaimInv, OnceInv
<1>5. TextInv' /\ StopHolds' /\ NothingDropped'
    BY <1>1, <1>2 DEF IInv, TextInv, StopHolds, NothingDropped
<1> QED BY <1>3, <1>4, <1>5 DEF IInv

-----------------------------------------------------------------------------
(* The requests answered at the beginning of a poll. *)

\* An honoured request names an input that nobody has taken.
LEMMA HonouredAreFree ==
    ASSUME IInv, NEW i \in Honoured
    PROVE  /\ i \in Inputs /\ row[i] = "pending" /\ ack[i] = "none" /\ answer[i] = "none"
           /\ i \notin ingested \cup claimed \cup unsaid
           /\ entered[i] = {} /\ prompt[i] = "none" /\ prepared[i] = "none"
           /\ text[i] = "sent"
<1>1. /\ i \in Inputs /\ row[i] = "pending" /\ ack[i] = "none" /\ answer[i] = "none"
      /\ i \notin ingested /\ i \notin claimed
    BY DEF Honoured, Asked, NotPending
<1>2. entered[i] = {} /\ prompt[i] = "none" /\ i \notin unsaid
    BY <1>1 DEF IInv, ClaimInv, SteeringInv
<1>3. prepared[i] = "none"
    BY <1>1 DEF Honoured, SteeringConsumed, IInv, SteeringInv
<1>4. text[i] = "sent"
    BY <1>1 DEF IInv, TypeOK, TextInv
<1> QED BY <1>1, <1>2, <1>3, <1>4

LEMMA AnswersHold ==
    ASSUME IInv, AnswerRequests
    PROVE  /\ row' \in [Inputs -> {"absent", "pending", "completed"}]
           /\ text' \in [Inputs -> {"sent", "edited"}]
           /\ answer' \in [Inputs -> {"none", "accepted", "conflict"}]
           /\ BufferNow \in [Inputs -> Text]
           /\ request' = request
           /\ Cancelled \subseteq Inputs
           /\ \A i \in Inputs :
                /\ row'[i] = IF i \in Cancelled THEN "completed" ELSE row[i]
                /\ entered[i] \subseteq {text'[i]}
                /\ prompt[i] # "none" => prompt[i] = text'[i]
                /\ BufferNow[i] # "none" => buffer[i] # "none" /\ i \notin Cancelled
                /\ BufferNow[i] # "none" /\ halt = "no" => BufferNow[i] = text'[i]
                /\ prepared[i] # "none" => prepared[i] = BufferNow[i]
                /\ answer'[i] # "none" => request[i] # "none"
                /\ text'[i] = "edited" <=> answer'[i] = "accepted" /\ request[i] = "edit"
                /\ answer'[i] = "accepted" /\ request[i] = "cancel"
                     => row'[i] = "completed" /\ entered[i] = {}
<1>1. /\ answer' = [i \in Inputs |-> IF i \notin Asked THEN answer[i]
                                     ELSE IF i \in Honoured THEN "accepted" ELSE "conflict"]
      /\ text' = With(text, Edited, "edited")
      /\ row' = With(row, Cancelled, "completed")
      /\ request' = request
    BY DEF AnswerRequests
<1>2. /\ row \in [Inputs -> {"absent", "pending", "completed"}]
      /\ text \in [Inputs -> {"sent", "edited"}]
      /\ answer \in [Inputs -> {"none", "accepted", "conflict"}]
      /\ request \in [Inputs -> {"none", "edit", "cancel"}]
      /\ buffer \in [Inputs -> Text] /\ prepared \in [Inputs -> Text]
    BY DEF IInv, TypeOK
<1>3. /\ Honoured \subseteq Asked
      /\ Asked = {i \in Inputs : request[i] # "none" /\ answer[i] = "none"}
      /\ Cancelled = {i \in Honoured : request[i] = "cancel"}
      /\ Edited = Honoured \ Cancelled
    BY DEF Honoured, Asked, Cancelled, Edited
<1>4. /\ text' \in [Inputs -> {"sent", "edited"}]
      /\ \A i \in Inputs : text'[i] = IF i \in Edited THEN "edited" ELSE text[i]
    BY <1>1, <1>2 DEF With
<1>5. /\ row' \in [Inputs -> {"absent", "pending", "completed"}]
      /\ \A i \in Inputs : row'[i] = IF i \in Cancelled THEN "completed" ELSE row[i]
    BY <1>1, <1>2 DEF With
<1>6. /\ answer' \in [Inputs -> {"none", "accepted", "conflict"}]
      /\ \A i \in Inputs : answer'[i] = IF i \notin Asked THEN answer[i]
                                        ELSE IF i \in Honoured THEN "accepted" ELSE "conflict"
    BY <1>1, <1>2
<1>7. /\ BufferNow \in [Inputs -> Text]
      /\ \A i \in Inputs :
           BufferNow[i] = IF buffer[i] = "none" \/ i \in Cancelled THEN "none"
                          ELSE IF i \in Edited THEN "edited" ELSE buffer[i]
    BY <1>2 DEF BufferNow, Text
<1>8. \A i \in Honoured : /\ entered[i] = {} /\ prompt[i] = "none" /\ prepared[i] = "none"
                          /\ text[i] = "sent"
    BY HonouredAreFree
<1>9. \A i \in Inputs :
        /\ entered[i] \subseteq {text[i]}
        /\ prompt[i] # "none" => prompt[i] = text[i]
        /\ buffer[i] # "none" /\ halt = "no" => buffer[i] = text[i]
        /\ prepared[i] # "none" => prepared[i] = buffer[i]
        /\ answer[i] # "none" => request[i] # "none"
        /\ text[i] = "edited" <=> answer[i] = "accepted" /\ request[i] = "edit"
        /\ answer[i] = "accepted" /\ request[i] = "cancel"
             => row[i] = "completed" /\ entered[i] = {}
    BY DEF IInv, TextInv, SteeringInv
<1>10. \A i \in Inputs :
         /\ entered[i] \subseteq {text'[i]}
         /\ prompt[i] # "none" => prompt[i] = text'[i]
    BY <1>3, <1>4, <1>8, <1>9
<1>11. \A i \in Inputs :
         /\ BufferNow[i] # "none" => buffer[i] # "none" /\ i \notin Cancelled
         /\ BufferNow[i] # "none" /\ halt = "no" => BufferNow[i] = text'[i]
         /\ prepared[i] # "none" => prepared[i] = BufferNow[i]
    BY <1>3, <1>4, <1>7, <1>8, <1>9
<1>12. \A i \in Inputs :
         /\ answer'[i] # "none" => request[i] # "none"
         /\ text'[i] = "edited" <=> answer'[i] = "accepted" /\ request[i] = "edit"
         /\ answer'[i] = "accepted" /\ request[i] = "cancel"
              => row'[i] = "completed" /\ entered[i] = {}
    BY <1>2, <1>3, <1>4, <1>5, <1>6, <1>8, <1>9
<1>13. Cancelled \subseteq Inputs
    BY <1>3
<1> QED BY <1>1, <1>4, <1>5, <1>6, <1>7, <1>10, <1>11, <1>12, <1>13

\* A poll between turns: what the provider knows is completed, the rest is
\* claimed and begins a turn.
LEMMA ClaimingPoll ==
    ASSUME IInv, AnswerRequests,
           NEW known \in SUBSET (Waiting \cap ingested), NEW batch,
           batch = Waiting \ known, batch \cap ingested = {},
           pc # "down", ~turnActive, finishing = "no", ~ended, halt = "no",
           ack' = With(With(ack, Cancelled \cup known, "completed"), batch, "processing"),
           disposition' = With(With(With(disposition, Cancelled, "cancelled"), known, "applied"),
                               batch, "processing"),
           claimed' = claimed \cup batch,
           \/ batch = {} /\ UNCHANGED << openTurns, turn, turnActive, consumed, prov, prompt, pc >>
           \/ batch # {} /\ Begin(batch) /\ pc' = "query",
           UNCHANGED << ingested, finishing, ended, halt, accepted, declined, buffer, prepared,
                        unsaid, crashes, history >>
    PROVE  IInv'
<1>1. /\ row' \in [Inputs -> {"absent", "pending", "completed"}]
      /\ text' \in [Inputs -> {"sent", "edited"}]
      /\ answer' \in [Inputs -> {"none", "accepted", "conflict"}]
      /\ request' = request
      /\ \A i \in Inputs :
           /\ row'[i] = IF i \in Cancelled THEN "completed" ELSE row[i]
           /\ entered[i] \subseteq {text'[i]}
           /\ answer'[i] # "none" => request[i] # "none"
           /\ text'[i] = "edited" <=> answer'[i] = "accepted" /\ request[i] = "edit"
           /\ answer'[i] = "accepted" /\ request[i] = "cancel"
                => row'[i] = "completed" /\ entered[i] = {}
    BY AnswersHold
<1>2. /\ Cancelled \subseteq Inputs
      /\ \A i \in Cancelled : /\ row[i] = "pending" /\ ack[i] = "none" /\ entered[i] = {}
                              /\ i \notin ingested \cup claimed
    BY HonouredAreFree, AnswersHold DEF Cancelled
<1>3. /\ Waiting = {i \in Inputs : row[i] = "pending" /\ ack[i] = "none"} \ Cancelled
      /\ batch \subseteq Waiting /\ known \subseteq Waiting
      /\ \A i \in Waiting : i \in batch \cup known
    BY DEF Waiting
<1>4. /\ prov = "idle" /\ accepted = {} /\ unsaid = {}
      /\ \A i \in Inputs : prompt[i] = "none" /\ buffer[i] = "none" /\ prepared[i] = "none"
      /\ turn # "open" /\ openTurns = 0
    BY DEF IInv, LoopInv, SteeringInv, TypeOK, TurnInv
<1>5. /\ ack' \in [Inputs -> {"none", "processing", "completed"}]
      /\ \A i \in Inputs : ack'[i] = IF i \in batch THEN "processing"
                                     ELSE IF i \in Cancelled \cup known THEN "completed"
                                     ELSE ack[i]
    BY DEF With, IInv, TypeOK
<1>6. /\ disposition' \in [Inputs -> {"none", "queued", "steering", "applied", "processing",
                                      "cancelled"}]
      /\ \A i \in Inputs : disposition'[i] = IF i \in batch THEN "processing"
                                             ELSE IF i \in known THEN "applied"
                                             ELSE IF i \in Cancelled THEN "cancelled"
                                             ELSE disposition[i]
    BY DEF With, IInv, TypeOK
<1>7. \/ /\ batch = {} /\ UNCHANGED << openTurns, turn, turnActive, consumed, prov, prompt, pc >>
      \/ /\ batch # {} /\ pc' = "query"
         /\ openTurns' = 1 /\ turn' = "open" /\ turnActive' = TRUE
         /\ consumed' = batch /\ prov' = "asked"
         /\ prompt' = [i \in Inputs |-> IF i \in batch THEN text'[i] ELSE "none"]
    BY <1>4 DEF Begin, PromptOf
<1>8. /\ prompt' \in [Inputs -> Text]
      /\ \A i \in Inputs : prompt'[i] # "none" => i \in batch /\ prompt'[i] = text'[i]
      /\ \A i \in batch : prompt'[i] # "none" /\ batch # {} /\ prov' = "asked"
    BY <1>1, <1>3, <1>4, <1>7 DEF Text, IInv, TypeOK
<1>9. TypeOK'
  <2>1. claimed' \subseteq Inputs
    BY <1>3 DEF IInv, TypeOK
  <2>2. /\ openTurns' \in Nat /\ pc' \in {"down", "idle", "query"}
        /\ turn' \in {"none", "open", "settled"} /\ turnActive' \in BOOLEAN
        /\ consumed' \subseteq Inputs /\ prov' \in {"idle", "asked", "working"}
    <3>1. /\ openTurns \in Nat /\ pc \in {"down", "idle", "query"}
          /\ turn \in {"none", "open", "settled"} /\ turnActive \in BOOLEAN
          /\ consumed \subseteq Inputs /\ prov \in {"idle", "asked", "working"}
      BY DEF IInv, TypeOK
    <3>2. batch \subseteq Inputs
      BY <1>3
    <3>3. CASE batch = {}
      BY <1>7, <3>1, <3>3
    <3>4. CASE batch # {}
      <4>1. /\ openTurns' = 1 /\ pc' = "query" /\ turn' = "open" /\ turnActive' = TRUE
            /\ consumed' = batch /\ prov' = "asked"
        BY <1>7, <3>4
      <4>2. turnActive' \in BOOLEAN
        BY <4>1, Zenon
      <4> QED BY <3>2, <4>1, <4>2
    <3> QED BY <3>3, <3>4
  <2> QED BY <1>1, <1>5, <1>6, <1>8, <2>1, <2>2 DEF IInv, TypeOK, history
<1>10. TurnInv'
    BY <1>4, <1>7 DEF IInv, TurnInv
<1>11. LoopInv'
    BY <1>4, <1>7 DEF IInv, LoopInv
<1>12. SteeringInv'
  <2>1. ASSUME NEW i \in ingested, ack'[i] = "none" PROVE FALSE
    <3>1. i \in Inputs /\ row[i] = "pending"
      BY DEF IInv, TypeOK, ClaimInv
    <3>2. i \notin batch /\ i \notin Cancelled \cup known
      BY <1>5, <2>1, <3>1
    <3>3. ack[i] = "none"
      BY <1>5, <2>1, <3>1, <3>2
    <3>4. i \in Waiting
      BY <1>3, <3>1, <3>2, <3>3
    <3> QED BY <1>3, <3>2, <3>4
  <2> QED BY <1>4, <2>1 DEF SteeringInv
<1>13. ClaimInv'
  <2>1. \A i \in Inputs : ack[i] # "none" => ack'[i] = ack[i]
    BY <1>2, <1>3, <1>5
  <2>2. \A i \in ingested : row'[i] = "pending" /\ entered[i] # {}
    BY <1>1, <1>2 DEF IInv, TypeOK, ClaimInv
  <2>3. \A i \in Inputs : prompt'[i] # "none"
          => ack'[i] # "none" /\ i \in claimed' /\ row'[i] = "pending"
    BY <1>1, <1>3, <1>5, <1>8
  <2>4. \A i \in stopped : ack'[i] = "completed"
    BY <2>1 DEF IInv, TypeOK, ClaimInv
  <2>5. \A i \in consumed' :
          /\ ack'[i] # "none"
          /\ entered[i] # {} \/ i \in excused \/ (prov' = "asked" /\ prompt'[i] # "none")
    <3>1. CASE batch = {}
      BY <1>4, <1>7, <2>1, <3>1 DEF IInv, TypeOK, ClaimInv
    <3>2. CASE batch # {}
      BY <1>3, <1>5, <1>7, <1>8, <3>2
    <3> QED BY <3>1, <3>2
  <2>6. \A i \in Inputs : entered[i] # {} => i \in ingested \cup claimed'
    BY DEF IInv, ClaimInv
  <2> QED BY <2>2, <2>3, <2>4, <2>5, <2>6 DEF ClaimInv, history
<1>14. OnceInv'
  <2>1. pc' # "down"
    BY <1>7
  <2>2. \A i \in Inputs : /\ ack'[i] = "none" => ack[i] = "none"
                          /\ prompt'[i] # "none" => ack[i] = "none" /\ i \notin ingested
    BY <1>3, <1>5, <1>8
  <2> QED BY <2>1, <2>2 DEF IInv, OnceInv, history
<1>15. TextInv'
    BY <1>1, <1>4, <1>8 DEF TextInv, history
<1>16. StopHolds'
  <2>1. \A i \in stopped : i \in Inputs /\ i \notin batch
    BY <1>3 DEF IInv, TypeOK, ClaimInv
  <2> QED BY <1>8, <2>1 DEF StopHolds, history
<1>17. NothingDropped'
  <2>1. \A i \in known : entered[i] # {}
    BY DEF IInv, ClaimInv
  <2>2. SUFFICES ASSUME NEW i \in Inputs, ack'[i] = "completed"
                 PROVE  entered[i] # {} \/ disposition'[i] = "cancelled"
                          \/ i \in stopped \cup excused
    BY DEF NothingDropped, history
  <2>3. i \notin batch /\ (i \in Cancelled \cup known \/ ack[i] = "completed")
    BY <1>5, <2>2
  <2>4. CASE i \in Cancelled /\ i \notin known
    BY <1>6, <2>3, <2>4
  <2>5. CASE i \notin Cancelled \cup known
    BY <1>6, <2>3, <2>5 DEF IInv, NothingDropped
  <2> QED BY <2>1, <2>4, <2>5
<1> QED BY <1>9, <1>10, <1>11, <1>12, <1>13, <1>14, <1>15, <1>16, <1>17 DEF IInv

LEMMA MainPollStep == IInv /\ MainPoll => IInv'
<1> SUFFICES ASSUME IInv, MainPoll PROVE IInv'
    OBVIOUS
<1> DEFINE batch == Waiting \ Ingested
<1>1. /\ pc # "down" /\ AnswerRequests
      /\ ack' = With(With(ack, Cancelled \cup Ingested, "completed"), batch, "processing")
      /\ disposition' = With(With(With(disposition, Cancelled, "cancelled"),
                                  Ingested, "applied"), batch, "processing")
      /\ claimed' = claimed \cup batch
      /\ \/ batch = {} /\ UNCHANGED << openTurns, turn, turnActive, consumed, prov, prompt, pc >>
         \/ batch # {} /\ Begin(batch) /\ pc' = "query"
      /\ UNCHANGED << ingested, finishing, ended, halt, accepted, declined, buffer, prepared,
                      unsaid, crashes, history >>
    BY DEF MainPoll
<1>2. ~turnActive /\ finishing = "no" /\ ~ended /\ halt = "no"
    BY DEF MainPoll, IInv, LoopInv
<1>3. Ingested \in SUBSET (Waiting \cap ingested) /\ batch \cap ingested = {}
    BY DEF Ingested
<1> HIDE DEF batch
<1>4. batch = Waiting \ Ingested
    BY DEF batch
<1> QED BY <1>1, <1>2, <1>3, <1>4, ClaimingPoll

LEMMA FollowUpPollStep == IInv /\ FollowUpPoll => IInv'
<1> SUFFICES ASSUME IInv, FollowUpPoll PROVE IInv'
    OBVIOUS
<1>1. /\ pc = "query" /\ halt = "no" /\ ~ended /\ finishing = "no" /\ ~turnActive
      /\ AnswerRequests
      /\ ack' = With(With(ack, Cancelled, "completed"), Waiting, "processing")
      /\ disposition' = With(With(disposition, Cancelled, "cancelled"), Waiting, "processing")
      /\ claimed' = claimed \cup Waiting
      /\ \/ Waiting = {} /\ UNCHANGED << openTurns, turn, turnActive, consumed, prov, prompt, pc >>
         \/ Waiting # {} /\ Begin(Waiting) /\ pc' = "query"
      /\ UNCHANGED << ingested, finishing, ended, halt, accepted, declined, buffer, prepared,
                      unsaid, crashes, history >>
  <2>1. FollowUpPoll /\ prov = "idle" /\ halt # "command"
    BY DEF FollowUpPoll, Polling, IInv, LoopInv
  <2>2. halt = "no"
    BY <2>1 DEF FollowUpPoll, Polling, IInv, TypeOK
  <2> QED BY <2>2 DEF FollowUpPoll, Polling
<1>2. Waiting \cap ingested = {}
  <2>1. unsaid = {}
    BY <1>1 DEF IInv, LoopInv
  <2> QED BY <1>1, <2>1 DEF IInv, SteeringInv, Waiting
<1>3. With(With(disposition, Cancelled, "cancelled"), {}, "applied")
        = With(disposition, Cancelled, "cancelled")
    BY DEF With
<1>4. Cancelled \cup {} = Cancelled /\ {} \in SUBSET (Waiting \cap ingested)
      /\ Waiting = Waiting \ {}
    OBVIOUS
<1> QED BY <1>1, <1>2, <1>3, <1>4, ClaimingPoll

\* A poll within a turn, or one that closes the stream: what is taken goes
\* into the provider's buffer.
LEMMA OfferingPoll ==
    ASSUME IInv, AnswerRequests, pc = "query", halt # "user", ~ended, finishing = "no",
           NEW taken \in SUBSET (Waiting \ accepted),
           taken # {} => turnActive /\ prov = "working" /\ halt = "no",
           ack' = With(ack, Cancelled, "completed"),
           disposition' \in [Inputs -> {"none", "queued", "steering", "applied", "processing",
                                        "cancelled"}],
           \A i \in Cancelled : disposition'[i] = "cancelled",
           \A i \in Inputs : ack[i] = "completed" /\ disposition[i] = "cancelled"
             => disposition'[i] = "cancelled",
           accepted' = (accepted \ Cancelled) \cup taken,
           declined' \subseteq Inputs,
           buffer' = [i \in Inputs |-> IF i \in taken THEN text'[i] ELSE BufferNow[i]],
           \/ UNCHANGED << ended, halt >>
           \/ ended' = TRUE /\ halt' = halt
           \/ ended' = TRUE /\ halt' = "command" /\ prov # "asked",
           UNCHANGED << claimed, openTurns, ingested, pc, turn, turnActive, finishing, consumed,
                        prov, prompt, prepared, unsaid, crashes, history >>
    PROVE  IInv'
<1>1. /\ row' \in [Inputs -> {"absent", "pending", "completed"}]
      /\ text' \in [Inputs -> {"sent", "edited"}]
      /\ answer' \in [Inputs -> {"none", "accepted", "conflict"}]
      /\ BufferNow \in [Inputs -> Text]
      /\ request' = request
      /\ \A i \in Inputs :
           /\ row'[i] = IF i \in Cancelled THEN "completed" ELSE row[i]
           /\ entered[i] \subseteq {text'[i]}
           /\ prompt[i] # "none" => prompt[i] = text'[i]
           /\ BufferNow[i] # "none" => buffer[i] # "none" /\ i \notin Cancelled
           /\ BufferNow[i] # "none" /\ halt = "no" => BufferNow[i] = text'[i]
           /\ prepared[i] # "none" => prepared[i] = BufferNow[i]
           /\ answer'[i] # "none" => request[i] # "none"
           /\ text'[i] = "edited" <=> answer'[i] = "accepted" /\ request[i] = "edit"
           /\ answer'[i] = "accepted" /\ request[i] = "cancel"
                => row'[i] = "completed" /\ entered[i] = {}
    BY AnswersHold
<1>2. /\ Cancelled \subseteq Inputs
      /\ \A i \in Cancelled : /\ row[i] = "pending" /\ ack[i] = "none" /\ entered[i] = {}
                              /\ i \notin ingested \cup claimed \cup unsaid
                              /\ prompt[i] = "none"
    BY HonouredAreFree, AnswersHold DEF Cancelled
<1>3. \A i \in taken : /\ i \in Inputs /\ row[i] = "pending" /\ ack[i] = "none"
                       /\ i \notin Cancelled /\ i \notin accepted /\ i \notin ingested
  <2>1. \A i \in taken : /\ i \in Inputs /\ row[i] = "pending" /\ ack[i] = "none"
                         /\ i \notin Cancelled /\ i \notin accepted
    BY DEF Waiting
  <2> QED BY <2>1 DEF IInv, SteeringInv
<1>4. /\ ack' \in [Inputs -> {"none", "processing", "completed"}]
      /\ \A i \in Inputs : ack'[i] = IF i \in Cancelled THEN "completed" ELSE ack[i]
    BY DEF With, IInv, TypeOK
<1>5. /\ buffer' \in [Inputs -> Text]
      /\ \A i \in Inputs : buffer'[i] = IF i \in taken THEN text'[i] ELSE BufferNow[i]
    BY <1>1, <1>3 DEF Text
<1>6. /\ ended' \in BOOLEAN /\ halt' \in {"no", "command"} /\ (ended => ended')
      /\ (halt' = "command" => prov # "asked" /\ (ended' \/ prov = "working"))
      /\ (halt' = "no" => halt = "no")
    BY DEF IInv, TypeOK, LoopInv
<1>7. TypeOK'
  <2>1. accepted' \subseteq Inputs
    BY <1>3 DEF IInv, TypeOK
  <2> QED BY <1>1, <1>4, <1>5, <1>6, <2>1 DEF IInv, TypeOK, history
<1>8. TurnInv' /\ LoopInv'
  <2>1. TurnInv'
    BY <1>6 DEF IInv, TurnInv
  <2>2. prov # "working" => \A i \in Inputs : buffer'[i] = "none"
    BY <1>1, <1>5 DEF IInv, LoopInv
  <2>3. ~turnActive => accepted' = {}
    BY DEF IInv, LoopInv
  <2> QED BY <1>6, <2>1, <2>2, <2>3 DEF IInv, LoopInv
<1>9. SteeringInv'
  <2>1. unsaid \subseteq accepted' \cap ingested
    BY <1>2 DEF IInv, SteeringInv
  <2>2. \A i \in accepted' : ack'[i] = "none" /\ row'[i] = "pending"
    <3>1. \A i \in accepted : i \in Inputs
      BY DEF IInv, TypeOK
    <3> QED BY <1>1, <1>3, <1>4, <3>1 DEF IInv, SteeringInv
  <2>3. \A i \in Inputs : buffer'[i] # "none" => i \in accepted' \ ingested
    BY <1>1, <1>3, <1>5 DEF IInv, SteeringInv
  <2>4. \A i \in Inputs : prepared[i] # "none" => prepared[i] = buffer'[i] /\ unsaid = {}
    <3>1. \A i \in Inputs : prepared[i] # "none" => i \in accepted /\ unsaid = {}
      BY DEF IInv, SteeringInv
    <3> QED BY <1>1, <1>3, <1>5, <3>1
  <2>5. \A i \in ingested : ack'[i] = "none" => ack[i] = "none"
    BY <1>4 DEF IInv, TypeOK
  <2> QED BY <1>6, <2>1, <2>2, <2>3, <2>4, <2>5 DEF IInv, SteeringInv
<1>10. ClaimInv'
  <2>1. \A i \in Inputs : (ack[i] # "none" => ack'[i] = ack[i]) /\ (i \notin Cancelled => row'[i] = row[i])
    BY <1>1, <1>2, <1>4
  <2>2. /\ \A i \in Inputs : prompt[i] # "none"
              => ack'[i] # "none" /\ i \in claimed /\ row'[i] = "pending"
        /\ \A i \in ingested : row'[i] = "pending" /\ entered[i] # {}
    BY <1>2, <2>1 DEF IInv, TypeOK, ClaimInv
  <2>3. /\ \A i \in consumed : ack'[i] # "none"
        /\ \A i \in stopped : ack'[i] = "completed"
    BY <2>1 DEF IInv, TypeOK, ClaimInv
  <2> QED BY <1>6, <2>2, <2>3 DEF IInv, ClaimInv, history
<1>11. OnceInv'
    BY <1>4 DEF IInv, OnceInv, history
<1>12. TextInv'
    BY <1>1, <1>5, <1>6 DEF TextInv, history
<1>13. StopHolds' /\ NothingDropped'
  <2>1. StopHolds'
    BY DEF IInv, StopHolds, history
  <2>2. NothingDropped'
    BY <1>4 DEF IInv, NothingDropped, history
  <2> QED BY <2>1, <2>2
<1> QED BY <1>7, <1>8, <1>9, <1>10, <1>11, <1>12, <1>13 DEF IInv

LEMMA OfferPollStep == IInv /\ OfferPoll => IInv'
<1> SUFFICES ASSUME IInv, OfferPoll PROVE IInv'
    OBVIOUS
<1> DEFINE candidates == (Waiting \cap Steerable) \ (accepted \cup declined)
           taken == IF TakesSteering THEN candidates ELSE {}
<1>1. /\ pc = "query" /\ halt # "user" /\ ~ended /\ finishing = "no" /\ turnActive
      /\ AnswerRequests
      /\ ack' = With(ack, Cancelled, "completed")
      /\ disposition' = With(With(With(disposition, Waiting \ accepted, "queued"),
                                  taken, "steering"), Cancelled, "cancelled")
      /\ accepted' = (accepted \ Cancelled) \cup taken
      /\ declined' = declined \cup (candidates \ taken)
      /\ buffer' = [i \in Inputs |-> IF i \in taken THEN text'[i] ELSE BufferNow[i]]
      /\ UNCHANGED << claimed, openTurns, ingested, pc, turn, turnActive, finishing, ended,
                      halt, consumed, prov, prompt, prepared, unsaid, crashes, history >>
    BY DEF OfferPoll, Polling
<1>2. /\ taken \in SUBSET (Waiting \ accepted) /\ candidates \subseteq Waiting
      /\ taken # {} => prov = "working" /\ halt = "no"
    BY DEF TakesSteering
<1> HIDE DEF candidates, taken
<1>3. \A i \in Waiting : i \in Inputs /\ ack[i] = "none"
    BY DEF Waiting
<1>4. /\ disposition' \in [Inputs -> {"none", "queued", "steering", "applied", "processing",
                                      "cancelled"}]
      /\ \A i \in Inputs : disposition'[i] = IF i \in Cancelled THEN "cancelled"
                                             ELSE IF i \in taken THEN "steering"
                                             ELSE IF i \in Waiting \ accepted THEN "queued"
                                             ELSE disposition[i]
    BY <1>1 DEF With, IInv, TypeOK
<1>5. declined' \subseteq Inputs
    BY <1>1, <1>2, <1>3 DEF IInv, TypeOK
<1>6. Cancelled \subseteq Inputs
    BY <1>1, AnswersHold
<1>7. /\ \A i \in Cancelled : disposition'[i] = "cancelled"
      /\ \A i \in Inputs : ack[i] = "completed" /\ disposition[i] = "cancelled"
           => disposition'[i] = "cancelled"
    BY <1>2, <1>3, <1>4, <1>6
<1> QED BY <1>1, <1>2, <1>4, <1>5, <1>7, OfferingPoll

LEMMA ClosingPollStep ==
    ASSUME IInv, NEW how \in {"task", "command"}, ClosingPoll(how)
    PROVE  IInv'
<1>1. /\ pc = "query" /\ halt # "user" /\ ~ended /\ finishing = "no"
      /\ AnswerRequests
      /\ ack' = With(ack, Cancelled, "completed")
      /\ disposition' = With(disposition, Cancelled, "cancelled")
      /\ accepted' = accepted \ Cancelled
      /\ buffer' = BufferNow
      /\ UNCHANGED << claimed, openTurns, ingested, pc, turn, turnActive, finishing, consumed,
                      declined, prov, prompt, prepared, unsaid, crashes, history >>
    BY DEF ClosingPoll, Polling
<1>2. \/ ended' = TRUE /\ halt' = halt
      \/ ended' = TRUE /\ halt' = "command" /\ prov # "asked"
    BY DEF ClosingPoll, Polling
<1>3. /\ disposition' \in [Inputs -> {"none", "queued", "steering", "applied", "processing",
                                      "cancelled"}]
      /\ \A i \in Inputs : disposition'[i] = IF i \in Cancelled THEN "cancelled"
                                             ELSE disposition[i]
    BY <1>1 DEF With, IInv, TypeOK
<1>4. BufferNow = [i \in Inputs |-> IF i \in {} THEN text'[i] ELSE BufferNow[i]]
    BY <1>1, AnswersHold
<1>5. Cancelled \subseteq Inputs /\ declined' \subseteq Inputs
    BY <1>1, AnswersHold DEF IInv, TypeOK
<1>6. /\ \A i \in Cancelled : disposition'[i] = "cancelled"
      /\ \A i \in Inputs : ack[i] = "completed" /\ disposition[i] = "cancelled"
           => disposition'[i] = "cancelled"
    BY <1>3, <1>5
<1>7. {} \in SUBSET (Waiting \ accepted) /\ accepted' = (accepted \ Cancelled) \cup {}
    BY <1>1
<1>8. buffer' = [i \in Inputs |-> IF i \in {} THEN text'[i] ELSE BufferNow[i]]
    BY <1>1, <1>4
<1> QED BY <1>1, <1>2, <1>3, <1>5, <1>6, <1>7, <1>8, OfferingPoll

-----------------------------------------------------------------------------
(* The provider. *)

\* A commit that fails leaves the durable state alone; what it did to the
\* provider's buffer goes with the aborted query.
LEMMA CommitFailsStep ==
  ASSUME IInv, NEW i \in Inputs, CommitFails(i)
  PROVE  IInv'
<1>1. /\ pc = "query" /\ prov = "working" /\ halt = "no" /\ halt' = "command" /\ i \in accepted
      /\ prepared[i] = "none" /\ buffer[i] # "none"
      /\ buffer' = [buffer EXCEPT ![i] = BufferNow[i]]
      /\ UNCHANGED << rows, durable, pc, turn, turnActive, finishing, ended, consumed, accepted,
                      declined, prov, prompt, prepared, unsaid, crashes, history >>
    BY DEF CommitFails, Polling, Honoured, SteeringConsumed, TakesSteering
<1>2. BufferNow[i] \in Text
    BY DEF IInv, TypeOK, BufferNow, Text
<1> USE DEF rows, durable, history
<1>3. TypeOK' /\ TurnInv' /\ LoopInv'
    BY <1>1, <1>2 DEF IInv, TypeOK, TurnInv, LoopInv
<1>4. SteeringInv'
    BY <1>1, <1>2 DEF IInv, SteeringInv, TypeOK
<1>5. ClaimInv' /\ OnceInv'
    BY <1>1 DEF IInv, ClaimInv, OnceInv
<1>6. TextInv' /\ StopHolds' /\ NothingDropped'
    BY <1>1 DEF IInv, TextInv, StopHolds, NothingDropped
<1> QED BY <1>3, <1>4, <1>5, <1>6 DEF IInv

\* A provider that works, or was asked, does so within a turn of the query.
LEMMA WorkingTurn ==
    ASSUME IInv, prov # "idle"
    PROVE  turnActive /\ pc = "query" /\ finishing = "no"
BY DEF IInv, LoopInv, TypeOK

LEMMA EnterIs ==
    ASSUME TypeOK, NEW said \in [Inputs -> Text], Enter(In(said), said)
    PROVE  /\ entered' \in [Inputs -> SUBSET {"sent", "edited"}] /\ times' \in [Inputs -> Nat]
           /\ \A i \in Inputs :
                /\ entered'[i] = IF said[i] # "none" THEN entered[i] \cup {said[i]}
                                 ELSE entered[i]
                /\ times'[i] = IF said[i] # "none" THEN times[i] + 1 ELSE times[i]
<1>1. /\ entered' = [i \in Inputs |-> entered[i] \cup (IF i \in In(said) THEN {said[i]} ELSE {})]
      /\ times' = [i \in Inputs |-> IF i \in In(said) THEN times[i] + 1 ELSE times[i]]
    BY DEF Enter
<1>2. \A i \in Inputs : i \in In(said) <=> said[i] # "none"
    BY DEF In
<1>3. \A i \in Inputs : said[i] \in {"none", "sent", "edited"}
    BY DEF Text
<1>4. entered \in [Inputs -> SUBSET {"sent", "edited"}] /\ times \in [Inputs -> Nat]
    BY DEF TypeOK
<1>5. \A i \in Inputs : entered[i] \cup (IF i \in In(said) THEN {said[i]} ELSE {})
                          \in SUBSET {"sent", "edited"}
    BY <1>2, <1>3, <1>4
<1>6. entered' \in [Inputs -> SUBSET {"sent", "edited"}]
    BY <1>1, <1>5
<1>7. times' \in [Inputs -> Nat]
    BY <1>1, <1>4
<1>8. \A i \in Inputs : entered'[i] = IF said[i] # "none" THEN entered[i] \cup {said[i]}
                                      ELSE entered[i]
    BY <1>1, <1>2
<1>9. \A i \in Inputs : times'[i] = IF said[i] # "none" THEN times[i] + 1 ELSE times[i]
    BY <1>1, <1>2
<1> QED BY <1>6, <1>7, <1>8, <1>9

LEMMA TakeStep == IInv /\ Take => IInv'
<1> SUFFICES ASSUME IInv, Take PROVE IInv'
    OBVIOUS
<1>1. /\ prov = "asked" /\ prov' = "working" /\ Enter(In(prompt), prompt)
      /\ UNCHANGED << row, text, request, answer, ack, claimed, disposition, openTurns, ingested,
                      pc, turn, turnActive, finishing, ended, halt, consumed, accepted, declined,
                      prompt, buffer, prepared, unsaid, crashes, stopped, excused >>
    BY DEF Take, rows, durable, loop
<1>2. /\ entered' \in [Inputs -> SUBSET {"sent", "edited"}] /\ times' \in [Inputs -> Nat]
      /\ \A i \in Inputs :
           /\ entered'[i] = IF prompt[i] # "none" THEN entered[i] \cup {prompt[i]} ELSE entered[i]
           /\ times'[i] = IF prompt[i] # "none" THEN times[i] + 1 ELSE times[i]
    BY <1>1, EnterIs DEF IInv, TypeOK
<1>3. turnActive /\ pc = "query" /\ finishing = "no"
    BY <1>1, WorkingTurn
<1>4. \A i \in Inputs : prompt[i] # "none" =>
        /\ ack[i] # "none" /\ i \in claimed /\ row[i] = "pending"
        /\ prompt[i] = text[i] /\ times[i] = 0
    BY <1>1 DEF IInv, ClaimInv, TextInv, OnceInv
<1>5. TypeOK'
    BY <1>1, <1>2 DEF IInv, TypeOK
<1>6. TurnInv' /\ LoopInv' /\ SteeringInv'
    BY <1>1, <1>3 DEF IInv, TurnInv, LoopInv, SteeringInv
<1>7. ClaimInv'
  <2>1. \A i \in Inputs : entered[i] # {} => entered'[i] # {}
    BY <1>2
  <2>2. \A i \in Inputs : prompt[i] # "none" => entered'[i] # {}
    BY <1>2
  <2>3. \A i \in Inputs : entered'[i] # {} => i \in ingested \cup claimed
    BY <1>2, <1>4 DEF IInv, ClaimInv
  <2>4. consumed \subseteq Inputs /\ ingested \subseteq Inputs
    BY DEF IInv, TypeOK
  <2> QED BY <1>1, <2>1, <2>2, <2>3, <2>4 DEF IInv, ClaimInv
<1>8. OnceInv'
  <2>1. \A i \in Inputs : times'[i] <= 1
    BY <1>2, <1>4 DEF IInv, OnceInv
  <2>2. \A i \in Inputs : i \notin ingested /\ ack[i] = "none" => times'[i] = 0
    BY <1>2, <1>4 DEF IInv, OnceInv
  <2> QED BY <1>1, <1>3, <2>1, <2>2 DEF OnceInv
<1>9. TextInv'
  <2>1. \A i \in Inputs : entered'[i] \subseteq {text[i]}
    BY <1>2, <1>4 DEF IInv, TextInv
  <2>2. \A i \in Inputs : answer[i] = "accepted" /\ request[i] = "cancel" => entered'[i] = {}
    BY <1>2, <1>4 DEF IInv, TextInv
  <2> QED BY <1>1, <2>1, <2>2 DEF IInv, TextInv
<1>10. StopHolds' /\ NothingDropped'
  <2>1. \A i \in Inputs : entered[i] # {} => entered'[i] # {}
    BY <1>2
  <2> QED BY <1>1, <2>1 DEF IInv, StopHolds, NothingDropped
<1> QED BY <1>5, <1>6, <1>7, <1>8, <1>9, <1>10 DEF IInv

LEMMA PrepareStep ==
    ASSUME IInv, NEW i \in Inputs, Prepare(i)
    PROVE  IInv'
<1>1. /\ unsaid = {} /\ prepared' = [prepared EXCEPT ![i] = buffer[i]]
      /\ UNCHANGED << rows, durable, loop, prov, prompt, buffer, unsaid, crashes, history >>
    BY DEF Prepare
<1>2. /\ prepared' \in [Inputs -> Text]
      /\ \A j \in Inputs : prepared'[j] = prepared[j] \/ prepared'[j] = buffer[j]
    BY <1>1 DEF IInv, TypeOK
<1> USE DEF rows, durable, loop, history
<1>3. TypeOK' /\ TurnInv' /\ LoopInv'
    BY <1>1, <1>2 DEF IInv, TypeOK, TurnInv, LoopInv
<1>4. SteeringInv'
    BY <1>1, <1>2 DEF IInv, SteeringInv
<1>5. ClaimInv' /\ OnceInv'
    BY <1>1 DEF IInv, ClaimInv, OnceInv
<1>6. TextInv' /\ StopHolds' /\ NothingDropped'
    BY <1>1 DEF IInv, TextInv, StopHolds, NothingDropped
<1> QED BY <1>3, <1>4, <1>5, <1>6 DEF IInv

LEMMA NothingIs == Nothing \in [Inputs -> Text] /\ \A i \in Inputs : Nothing[i] = "none"
BY DEF Nothing, Text

LEMMA ApplyStep == IInv /\ Apply => IInv'
<1> SUFFICES ASSUME IInv, Apply PROVE IInv'
    OBVIOUS
<1> DEFINE S == In(prepared)
<1>1. /\ prov = "working" /\ halt = "no" /\ ~ended /\ S # {}
      /\ ingested' = ingested \cup S /\ unsaid' = S /\ Enter(In(prepared), prepared)
      /\ buffer' = Nothing /\ prepared' = Nothing
      /\ UNCHANGED << row, text, request, answer, ack, claimed, disposition, openTurns,
                      pc, turn, turnActive, finishing, ended, halt, consumed, accepted, declined,
                      prov, prompt, crashes, stopped, excused >>
    BY DEF Apply, rows, loop
<1>2. /\ entered' \in [Inputs -> SUBSET {"sent", "edited"}] /\ times' \in [Inputs -> Nat]
      /\ \A i \in Inputs :
           /\ entered'[i] = IF prepared[i] # "none" THEN entered[i] \cup {prepared[i]}
                            ELSE entered[i]
           /\ times'[i] = IF prepared[i] # "none" THEN times[i] + 1 ELSE times[i]
  <2>1. TypeOK /\ prepared \in [Inputs -> Text]
    BY DEF IInv, TypeOK
  <2>2. Enter(In(prepared), prepared)
    BY DEF Apply
  <2> QED BY <2>1, <2>2, EnterIs
<1>3. S \subseteq Inputs /\ \A i \in Inputs : i \in S <=> prepared[i] # "none"
    BY DEF In
<1> HIDE DEF S
<1>4. turnActive /\ pc = "query" /\ finishing = "no"
    BY <1>1, WorkingTurn
<1>5. unsaid = {}
    BY <1>1, <1>3 DEF IInv, SteeringInv
<1>6. \A i \in S :
        /\ i \in accepted /\ i \notin ingested /\ ack[i] = "none" /\ row[i] = "pending"
        /\ prepared[i] = text[i] /\ times[i] = 0
  <2>1. \A i \in S : i \in accepted /\ i \notin ingested /\ prepared[i] = text[i]
    BY <1>1, <1>3 DEF IInv, SteeringInv, TextInv
  <2> QED BY <1>3, <2>1 DEF IInv, SteeringInv, OnceInv
<1>7. \A i \in Inputs : entered[i] # {} => entered'[i] # {}
    BY <1>2
<1>8. TypeOK'
    BY <1>1, <1>2, <1>3, NothingIs DEF IInv, TypeOK
<1>9. TurnInv' /\ LoopInv'
    BY <1>1, <1>4 DEF IInv, TurnInv, LoopInv
<1>10. SteeringInv'
  <2>1. unsaid' \subseteq accepted' \cap ingested'
    BY <1>1, <1>6
  <2>2. \A i \in ingested' : ack[i] = "none" => i \in unsaid'
    BY <1>1, <1>4, <1>5 DEF IInv, SteeringInv
  <2> QED BY <1>1, <2>1, <2>2, NothingIs DEF IInv, SteeringInv
<1>11. ClaimInv'
  <2>1. \A i \in ingested' : row[i] = "pending" /\ entered'[i] # {}
    <3>1. \A i \in S : entered'[i] # {}
      BY <1>2, <1>3
    <3>2. \A i \in ingested : i \in Inputs
      BY DEF IInv, TypeOK
    <3> QED BY <1>1, <1>6, <1>7, <3>1, <3>2 DEF IInv, ClaimInv
  <2>2. \A i \in Inputs : entered'[i] # {} => i \in ingested' \cup claimed
    BY <1>1, <1>2, <1>3 DEF IInv, ClaimInv
  <2>3. consumed \subseteq Inputs
    BY DEF IInv, TypeOK
  <2> QED BY <1>1, <1>7, <2>1, <2>2, <2>3 DEF IInv, ClaimInv
<1>12. OnceInv'
  <2>1. \A i \in Inputs : times'[i] <= 1 /\ (i \notin ingested' => times'[i] = times[i])
    BY <1>1, <1>2, <1>3, <1>6 DEF IInv, OnceInv, TypeOK
  <2> QED BY <1>1, <1>4, <2>1 DEF IInv, OnceInv
<1>13. TextInv'
  <2>1. \A i \in Inputs : entered'[i] \subseteq {text[i]}
    BY <1>2, <1>3, <1>6 DEF IInv, TextInv
  <2>2. \A i \in Inputs : answer[i] = "accepted" /\ request[i] = "cancel" => entered'[i] = {}
    BY <1>2, <1>3, <1>6 DEF IInv, TextInv
  <2> QED BY <1>1, <2>1, <2>2, NothingIs DEF IInv, TextInv
<1>14. StopHolds' /\ NothingDropped'
    BY <1>1, <1>7 DEF IInv, StopHolds, NothingDropped
<1> QED BY <1>8, <1>9, <1>10, <1>11, <1>12, <1>13, <1>14 DEF IInv

LEMMA AcknowledgeStep ==
    ASSUME IInv, NEW i \in Inputs, Acknowledge(i)
    PROVE  IInv'
<1>1. /\ pc = "query" /\ i \in unsaid
      /\ disposition' = [disposition EXCEPT ![i] = "applied"]
      /\ accepted' = accepted \ {i} /\ consumed' = consumed \cup {i} /\ unsaid' = unsaid \ {i}
      /\ UNCHANGED << row, text, request, answer, openTurns, ingested, pc, turn, turnActive,
                      finishing, ended, halt, declined, prov, prompt, buffer, prepared, crashes,
                      entered, times, stopped, excused >>
    BY DEF Acknowledge, rows, history
<1>2. /\ ack' = [ack EXCEPT ![i] = "completed"] \/ ack' = [ack EXCEPT ![i] = "processing"]
      /\ claimed' = claimed \/ claimed' = claimed \cup {i}
    BY DEF Acknowledge
<1>3. i \in accepted /\ i \in ingested /\ ack[i] = "none" /\ entered[i] # {}
    BY <1>1 DEF IInv, SteeringInv, ClaimInv
<1>4. /\ ack' \in [Inputs -> {"none", "processing", "completed"}] /\ ack'[i] # "none"
      /\ \A j \in Inputs : j # i => ack'[j] = ack[j]
      /\ disposition' \in [Inputs -> {"none", "queued", "steering", "applied", "processing",
                                      "cancelled"}]
      /\ \A j \in Inputs : j # i => disposition'[j] = disposition[j]
    BY <1>1, <1>2 DEF IInv, TypeOK
<1>5. \A j \in Inputs : prepared[j] = "none"
    BY <1>1 DEF IInv, SteeringInv
<1>6. TypeOK'
    BY <1>1, <1>2, <1>4 DEF IInv, TypeOK
<1>7. TurnInv' /\ LoopInv'
    BY <1>1 DEF IInv, TurnInv, LoopInv
<1>8. SteeringInv'
  <2>1. \A j \in accepted' : ack'[j] = "none" /\ row[j] = "pending"
    BY <1>1, <1>4 DEF IInv, TypeOK, SteeringInv
  <2>2. \A j \in ingested : ack'[j] = "none" => ack[j] = "none" /\ j # i
    BY <1>4 DEF IInv, TypeOK
  <2> QED BY <1>1, <1>3, <1>5, <2>1, <2>2 DEF IInv, SteeringInv
<1>9. ClaimInv'
  <2>1. \A j \in Inputs : ack[j] # "none" => ack'[j] = ack[j]
    BY <1>3, <1>4
  <2>2. \A j \in consumed' : ack'[j] # "none"
    BY <1>1, <1>4, <2>1 DEF IInv, TypeOK, ClaimInv
  <2>3. \A j \in stopped : ack'[j] = "completed"
    BY <2>1 DEF IInv, TypeOK, ClaimInv
  <2>4. \A j \in Inputs : prompt[j] # "none"
          => ack'[j] # "none" /\ j \in claimed' /\ row[j] = "pending"
    BY <1>2, <2>1 DEF IInv, ClaimInv
  <2>5. claimed \subseteq claimed'
    BY <1>2
  <2> QED BY <1>1, <1>3, <2>2, <2>3, <2>4, <2>5 DEF IInv, ClaimInv
<1>10. OnceInv'
    BY <1>1, <1>3, <1>4 DEF IInv, OnceInv
<1>11. TextInv' /\ StopHolds'
    BY <1>1 DEF IInv, TextInv, StopHolds
<1>12. NothingDropped'
    BY <1>1, <1>3, <1>4 DEF IInv, NothingDropped
<1> QED BY <1>6, <1>7, <1>8, <1>9, <1>10, <1>11, <1>12 DEF IInv

LEMMA ProviderResultStep == IInv /\ ProviderResult => IInv'
<1> SUFFICES ASSUME IInv, ProviderResult PROVE IInv'
    OBVIOUS
<1>1. /\ prov = "working" /\ halt = "no" /\ unsaid = {}
      /\ prov' = "idle" /\ prompt' = Nothing /\ buffer' = Nothing /\ prepared' = Nothing
      /\ finishing' = "tools"
      /\ UNCHANGED << rows, durable, pc, turn, turnActive, ended, halt, consumed, accepted,
                      declined, unsaid, crashes, history >>
    BY DEF ProviderResult
<1>2. turnActive /\ pc = "query"
    BY <1>1, WorkingTurn
<1> USE DEF rows, durable, history
<1>3. TypeOK' /\ TurnInv' /\ LoopInv'
    BY <1>1, <1>2, NothingIs DEF IInv, TypeOK, TurnInv, LoopInv
<1>4. SteeringInv'
    BY <1>1, NothingIs DEF IInv, SteeringInv
<1>5. ClaimInv' /\ OnceInv'
    BY <1>1, NothingIs DEF IInv, ClaimInv, OnceInv
<1>6. TextInv' /\ StopHolds' /\ NothingDropped'
    BY <1>1, NothingIs DEF IInv, TextInv, StopHolds, NothingDropped, TypeOK
<1> QED BY <1>3, <1>4, <1>5, <1>6 DEF IInv

LEMMA ExchangeFailsStep == ASSUME IInv, ExchangeFails, ended' \in BOOLEAN, ended => ended'
                         PROVE  IInv'
<1>1. /\ prov # "idle" /\ halt = "no"
      /\ prov' = "idle" /\ prompt' = Nothing /\ buffer' = Nothing /\ prepared' = Nothing
      /\ unsaid' = {} /\ excused' = excused \cup consumed
      /\ UNCHANGED << rows, durable, pc, turn, turnActive, finishing, halt, consumed, accepted,
                      declined, crashes, entered, times, stopped >>
    BY DEF ExchangeFails
<1>2. turnActive /\ pc = "query" /\ finishing = "no"
    BY <1>1, WorkingTurn
<1> USE DEF rows, durable
<1>3. TypeOK' /\ TurnInv' /\ LoopInv'
    BY <1>1, <1>2, NothingIs DEF IInv, TypeOK, TurnInv, LoopInv
<1>4. SteeringInv'
    BY <1>1, <1>2, NothingIs DEF IInv, SteeringInv, Stranded
<1>5. ClaimInv' /\ OnceInv'
    BY <1>1, NothingIs DEF IInv, ClaimInv, OnceInv
<1>6. TextInv' /\ StopHolds' /\ NothingDropped'
    BY <1>1, NothingIs DEF IInv, TextInv, StopHolds, NothingDropped, TypeOK
<1> QED BY <1>3, <1>4, <1>5, <1>6 DEF IInv

LEMMA FailureStep == ASSUME IInv, ProviderFails \/ RetryableError PROVE IInv'
<1>1. ended \in BOOLEAN
    BY DEF IInv, TypeOK
<1>2. CASE ProviderFails
  <2>1. ExchangeFails /\ ended' = TRUE
    BY <1>2 DEF ProviderFails
  <2>2. ended' \in BOOLEAN /\ (ended => ended')
    BY <2>1, Zenon
  <2> QED BY <2>1, <2>2, ExchangeFailsStep
<1>3. CASE RetryableError
  <2>1. ExchangeFails /\ ended' = ended
    BY <1>3 DEF RetryableError
  <2>2. ended' \in BOOLEAN /\ (ended => ended')
    BY <1>1, <2>1
  <2> QED BY <2>1, <2>2, ExchangeFailsStep
<1> QED BY <1>2, <1>3

LEMMA AbortRunawayStep == IInv /\ AbortRunaway => IInv'
<1> SUFFICES ASSUME IInv, AbortRunaway PROVE IInv'
    OBVIOUS
<1>1. /\ prov = "working" /\ halt = "no" /\ ended' = TRUE /\ halt' = "command"
      /\ UNCHANGED << rows, durable, pc, turn, turnActive, finishing, consumed, accepted, declined,
                      provider, crashes, history >>
    BY DEF AbortRunaway
<1>2. turnActive /\ pc = "query"
    BY <1>1, WorkingTurn
<1> USE DEF rows, durable, provider, history
<1>3. TypeOK' /\ TurnInv' /\ LoopInv'
    BY <1>1, <1>2 DEF IInv, TypeOK, TurnInv, LoopInv
<1>4. SteeringInv' /\ ClaimInv' /\ OnceInv'
    BY <1>1 DEF IInv, SteeringInv, ClaimInv, OnceInv
<1>5. TextInv' /\ StopHolds' /\ NothingDropped'
    BY <1>1 DEF IInv, TextInv, StopHolds, NothingDropped
<1> QED BY <1>3, <1>4, <1>5 DEF IInv

-----------------------------------------------------------------------------
(* The end of a turn. *)

LEMMA SettledIs ==
    ASSUME IInv, pc = "query"
    PROVE  Settled = 0
BY DEF Settled, IInv, TurnInv, TypeOK

LEMMA ReleaseIs ==
    ASSUME TypeOK
    PROVE  /\ Release \in [Inputs -> {"none", "queued", "steering", "applied", "processing",
                                      "cancelled"}]
           /\ \A i \in Inputs : i \notin accepted => Release[i] = disposition[i]
BY DEF Release, With, TypeOK

LEMMA FinishResultStep ==
    ASSUME IInv, NEW ends \in BOOLEAN, FinishResult(ends)
    PROVE  IInv'
<1>1. /\ finishing = "tools" /\ halt = "no" /\ finishing' = "boundary"
      /\ disposition' = Release /\ accepted' = {} /\ declined' = {}
      /\ ack' = With(ack, consumed, "completed") /\ turnActive' = FALSE
      /\ ended' = (ended \/ ends)
      /\ UNCHANGED << rows, claimed, openTurns, ingested, pc, turn, halt, consumed, provider,
                      crashes, history >>
    BY DEF FinishResult
<1>2. /\ pc = "query" /\ prov = "idle" /\ unsaid = {}
      /\ \A i \in Inputs : prompt[i] = "none" /\ buffer[i] = "none" /\ prepared[i] = "none"
    BY <1>1 DEF IInv, LoopInv, SteeringInv
<1>3. /\ ack' \in [Inputs -> {"none", "processing", "completed"}]
      /\ \A i \in Inputs : ack'[i] = IF i \in consumed THEN "completed" ELSE ack[i]
    BY <1>1 DEF With, IInv, TypeOK
<1>4. \A i \in accepted : ack[i] = "none" /\ i \notin consumed
    BY DEF IInv, SteeringInv, ClaimInv
<1>5. ended' \in BOOLEAN /\ (ended => ended')
    BY <1>1 DEF IInv, TypeOK
<1> USE DEF rows, provider, history
<1>6. TypeOK'
    BY <1>1, <1>3, <1>5, ReleaseIs DEF IInv, TypeOK
<1>7. TurnInv' /\ LoopInv'
    BY <1>1, <1>2, <1>5 DEF IInv, TurnInv, LoopInv
<1>8. SteeringInv'
  <2>1. \A i \in ingested : ack'[i] = "none" => ack[i] = "none"
    BY <1>3 DEF IInv, TypeOK
  <2> QED BY <1>1, <1>2, <1>5, <2>1 DEF IInv, SteeringInv
<1>9. ClaimInv'
  <2>1. \A i \in Inputs : /\ ack'[i] = "completed" \/ ack'[i] = ack[i]
                          /\ i \in consumed => ack'[i] = "completed"
    BY <1>3
  <2>2. \A i \in stopped : ack'[i] = "completed"
    BY <2>1 DEF IInv, TypeOK, ClaimInv
  <2>3. \A i \in consumed : ack'[i] # "none"
    BY <2>1 DEF IInv, TypeOK
  <2> QED BY <1>1, <1>2, <2>2, <2>3 DEF IInv, ClaimInv
<1>10. OnceInv'
    BY <1>1, <1>2, <1>3 DEF IInv, OnceInv
<1>11. TextInv' /\ StopHolds'
    BY <1>1 DEF IInv, TextInv, StopHolds
<1>12. NothingDropped'
  <2>1. \A i \in consumed : entered[i] # {} \/ i \in excused
    BY <1>2 DEF IInv, ClaimInv
  <2>2. \A i \in Inputs : ack[i] = "completed" => disposition'[i] = disposition[i]
    BY <1>1, <1>4, ReleaseIs DEF IInv
  <2> QED BY <1>1, <1>3, <2>1, <2>2 DEF IInv, NothingDropped
<1> QED BY <1>6, <1>7, <1>8, <1>9, <1>10, <1>11, <1>12 DEF IInv

LEMMA SettleStep ==
    ASSUME IInv, NEW settles \in BOOLEAN, Settle(settles)
    PROVE  IInv'
<1>1. /\ finishing = "boundary" /\ (settles \/ ended) /\ finishing' = "no"
      /\ openTurns' = IF settles THEN Settled ELSE openTurns
      /\ turn' = IF settles THEN "settled" ELSE turn
      /\ UNCHANGED << rows, ack, claimed, disposition, ingested, pc, turnActive, ended, halt,
                      consumed, accepted, declined, provider, crashes, history >>
    BY DEF Settle
<1>2. pc = "query"
    BY <1>1 DEF IInv, LoopInv
<1>3. Settled = 0
    BY <1>2, SettledIs
<1> USE DEF rows, provider, history
<1>4. TypeOK' /\ TurnInv' /\ LoopInv'
  <2>1. CASE settles
    BY <1>1, <1>2, <1>3, <2>1 DEF IInv, TypeOK, TurnInv, LoopInv
  <2>2. CASE ~settles
    BY <1>1, <1>2, <2>2 DEF IInv, TypeOK, TurnInv, LoopInv
  <2> QED BY <2>1, <2>2
<1>5. SteeringInv' /\ ClaimInv' /\ OnceInv'
    BY <1>1 DEF IInv, SteeringInv, ClaimInv, OnceInv
<1>6. TextInv' /\ StopHolds' /\ NothingDropped'
    BY <1>1 DEF IInv, TextInv, StopHolds, NothingDropped
<1> QED BY <1>4, <1>5, <1>6 DEF IInv

LEMMA StopTurnStep == IInv /\ StopTurn => IInv'
<1> SUFFICES ASSUME IInv, StopTurn PROVE IInv'
    OBVIOUS
<1>1. /\ pc = "query" /\ turnActive
      /\ ack' = With(ack, consumed, "completed") /\ halt' = "user"
      /\ stopped' = stopped \cup consumed
      /\ UNCHANGED << rows, claimed, disposition, openTurns, ingested, pc, turn, turnActive,
                      finishing, ended, consumed, accepted, declined, provider, crashes, entered,
                      times, excused >>
    BY DEF StopTurn, StoppedInputs
<1>2. /\ ack' \in [Inputs -> {"none", "processing", "completed"}]
      /\ \A i \in Inputs : ack'[i] = IF i \in consumed THEN "completed" ELSE ack[i]
    BY <1>1 DEF With, IInv, TypeOK
<1>3. \A i \in accepted : i \in Inputs /\ ack[i] = "none" /\ i \notin consumed
    BY DEF IInv, TypeOK, SteeringInv, ClaimInv
<1> USE DEF rows, provider
<1>4. TypeOK' /\ TurnInv' /\ LoopInv'
    BY <1>1, <1>2 DEF IInv, TypeOK, TurnInv, LoopInv
<1>5. SteeringInv'
    BY <1>1, <1>2, <1>3 DEF IInv, SteeringInv
<1>6. ClaimInv'
  <2>1. consumed \subseteq Inputs /\ stopped \subseteq Inputs
    BY DEF IInv, TypeOK
  <2>2. \A i \in stopped' : ack'[i] = "completed"
    BY <1>1, <1>2, <2>1 DEF IInv, ClaimInv
  <2>3. \A i \in Inputs : ack[i] # "none" => ack'[i] # "none"
    BY <1>2
  <2> QED BY <1>1, <2>1, <2>2, <2>3 DEF IInv, ClaimInv
<1>7. OnceInv'
    BY <1>1, <1>2 DEF IInv, OnceInv
<1>8. TextInv' /\ StopHolds' /\ NothingDropped'
    BY <1>1, <1>2 DEF IInv, TextInv, StopHolds, NothingDropped
<1> QED BY <1>4, <1>5, <1>6, <1>7, <1>8 DEF IInv

LEMMA StreamOverStep == IInv /\ StreamOver => IInv'
<1> SUFFICES ASSUME IInv, StreamOver PROVE IInv'
    OBVIOUS
<1>1. /\ pc = "query" /\ pc' = "idle" /\ disposition' = Release
      /\ ack' = With(ack, consumed, "completed") /\ openTurns' = Settled
      /\ turn' = "none" /\ turnActive' = FALSE /\ finishing' = "no" /\ ended' = FALSE
      /\ halt' = "no" /\ consumed' = {} /\ accepted' = {} /\ declined' = {}
      /\ prov' = "idle" /\ prompt' = Nothing /\ buffer' = Nothing /\ prepared' = Nothing
      /\ unsaid' = {}
      /\ UNCHANGED << rows, claimed, ingested, crashes, history >>
    BY DEF StreamOver, Orphans
<1>2. halt = "user" \/ prov # "asked"
    BY DEF StreamOver, IInv, LoopInv
<1>3. /\ ack' \in [Inputs -> {"none", "processing", "completed"}]
      /\ \A i \in Inputs : ack'[i] = IF i \in consumed THEN "completed" ELSE ack[i]
    BY <1>1 DEF With, IInv, TypeOK
<1>4. \A i \in accepted : ack[i] = "none" /\ i \notin consumed
    BY DEF IInv, SteeringInv, ClaimInv
<1>5. Settled = 0
    BY <1>1, SettledIs
<1> USE DEF rows, history
<1>6. TypeOK'
    BY <1>1, <1>3, <1>5, ReleaseIs, NothingIs DEF IInv, TypeOK
<1>7. TurnInv' /\ LoopInv'
    BY <1>1, <1>5, NothingIs DEF TurnInv, LoopInv
<1>8. SteeringInv'
    BY <1>1, NothingIs DEF SteeringInv
<1>9. ClaimInv'
  <2>1. \A i \in stopped : ack'[i] = "completed"
    BY <1>3 DEF IInv, TypeOK, ClaimInv
  <2> QED BY <1>1, <2>1, NothingIs DEF IInv, ClaimInv
<1>10. OnceInv'
    BY <1>1, <1>3, NothingIs DEF IInv, OnceInv
<1>11. TextInv' /\ StopHolds'
    BY <1>1, NothingIs DEF IInv, TypeOK, TextInv, StopHolds
<1>12. NothingDropped'
  <2>1. \A i \in consumed : entered[i] # {} \/ i \in stopped \cup excused
    BY <1>2 DEF IInv, ClaimInv
  <2>2. \A i \in Inputs : ack[i] = "completed" => disposition'[i] = disposition[i]
    BY <1>1, <1>4, ReleaseIs DEF IInv
  <2> QED BY <1>1, <1>3, <2>1, <2>2 DEF IInv, NothingDropped
<1> QED BY <1>6, <1>7, <1>8, <1>9, <1>10, <1>11, <1>12 DEF IInv

-----------------------------------------------------------------------------
(* The container. *)

LEMMA CrashStep == IInv /\ Crash => IInv'
<1> SUFFICES ASSUME IInv, Crash PROVE IInv'
    OBVIOUS
<1>1. /\ pc # "down" /\ crashes < MaxCrashes /\ crashes' = crashes + 1 /\ pc' = "down"
      /\ turn' = "none" /\ turnActive' = FALSE /\ finishing' = "no" /\ ended' = FALSE
      /\ halt' = "no" /\ consumed' = {} /\ accepted' = {} /\ declined' = {}
      /\ prov' = "idle" /\ prompt' = Nothing /\ buffer' = Nothing /\ prepared' = Nothing
      /\ unsaid' = {}
      /\ times' = With(times, {i \in Inputs \ ingested : ack[i] = "processing"}, 0)
      /\ UNCHANGED << rows, durable, entered, stopped, excused >>
    BY DEF Crash
<1>2. /\ times' \in [Inputs -> Nat]
      /\ \A i \in Inputs : times'[i] = IF i \notin ingested /\ ack[i] = "processing" THEN 0
                                       ELSE times[i]
    BY <1>1 DEF With, IInv, TypeOK
<1>3. crashes' \in 0 .. MaxCrashes
    BY <1>1, CrashesAssumption DEF IInv, TypeOK
<1> USE DEF rows, durable
<1>4. TypeOK'
    BY <1>1, <1>2, <1>3, NothingIs DEF IInv, TypeOK
<1>5. TurnInv' /\ LoopInv'
    BY <1>1, NothingIs DEF IInv, TurnInv, LoopInv
<1>6. SteeringInv' /\ ClaimInv'
    BY <1>1, NothingIs DEF IInv, SteeringInv, ClaimInv
<1>7. OnceInv'
    BY <1>1, <1>2, NothingIs DEF IInv, OnceInv
<1>8. TextInv' /\ StopHolds' /\ NothingDropped'
    BY <1>1, NothingIs DEF IInv, TypeOK, TextInv, StopHolds, NothingDropped
<1> QED BY <1>4, <1>5, <1>6, <1>7, <1>8 DEF IInv

LEMMA BootStep == IInv /\ Boot => IInv'
<1> SUFFICES ASSUME IInv, Boot PROVE IInv'
    OBVIOUS
<1>1. /\ pc = "down" /\ pc' = "idle" /\ openTurns' = 0
      /\ claimed' = claimed \cup {i \in Inputs : ack[i] # "none"}
      /\ ack' = With(ack, {i \in Inputs : ack[i] = "processing"}, "none")
      /\ UNCHANGED << rows, disposition, ingested, turn, turnActive, finishing, ended, halt,
                      consumed, accepted, declined, provider, crashes, history >>
    BY DEF Boot, Abandoned, Stale
<1>2. /\ ack' \in [Inputs -> {"none", "processing", "completed"}]
      /\ \A i \in Inputs : ack'[i] = IF ack[i] = "processing" THEN "none" ELSE ack[i]
    BY <1>1 DEF With, IInv, TypeOK
<1>3. /\ ~turnActive /\ consumed = {} /\ accepted = {} /\ prov = "idle" /\ turn = "none"
      /\ unsaid = {} /\ \A i \in Inputs : prompt[i] = "none"
    BY <1>1 DEF IInv, LoopInv, TurnInv
<1> USE DEF rows, provider, history
<1>4. TypeOK' /\ TurnInv' /\ LoopInv'
    BY <1>1, <1>2, <1>3 DEF IInv, TypeOK, TurnInv, LoopInv
<1>5. SteeringInv'
    BY <1>1, <1>3 DEF IInv, SteeringInv
<1>6. ClaimInv'
  <2>1. \A i \in stopped : ack'[i] = "completed"
    BY <1>2 DEF IInv, TypeOK, ClaimInv
  <2> QED BY <1>1, <1>3, <2>1 DEF IInv, ClaimInv
<1>7. OnceInv'
    BY <1>1, <1>2, <1>3 DEF IInv, TypeOK, OnceInv
<1>8. TextInv' /\ StopHolds' /\ NothingDropped'
    BY <1>1, <1>2 DEF IInv, TextInv, StopHolds, NothingDropped
<1> QED BY <1>4, <1>5, <1>6, <1>7, <1>8 DEF IInv

LEMMA NextIInv == IInv /\ [Next]_vars => IInv'
<1> SUFFICES ASSUME IInv, [Next]_vars PROVE IInv'
    OBVIOUS
<1>1. CASE UNCHANGED vars
    BY <1>1, StutterIInv
<1>2. CASE \/ \E i \in Inputs : Submit(i) \/ Prepare(i) \/ Acknowledge(i)
           \/ \E i \in Inputs, operation \in {"edit", "cancel"} : Ask(i, operation)
    BY <1>2, SubmitStep, PrepareStep, AcknowledgeStep, AskStep
<1>3. CASE \/ MainPoll \/ OfferPoll \/ FollowUpPoll
           \/ \E how \in {"task", "command"} : ClosingPoll(how)
           \/ \E i \in Inputs : CommitFails(i)
    BY <1>3, MainPollStep, OfferPollStep, FollowUpPollStep, ClosingPollStep, CommitFailsStep
<1>4. CASE \/ Take \/ Apply \/ ProviderResult \/ ProviderFails \/ RetryableError
           \/ AbortRunaway
    BY <1>4, TakeStep, ApplyStep, ProviderResultStep, FailureStep, AbortRunawayStep
<1>5. CASE \/ \E ends \in BOOLEAN : FinishResult(ends)
           \/ \E settles \in BOOLEAN : Settle(settles)
           \/ StopTurn \/ StreamOver
    BY <1>5, FinishResultStep, SettleStep, StopTurnStep, StreamOverStep
<1>6. CASE Crash \/ Boot
    BY <1>6, CrashStep, BootStep
<1> QED BY <1>1, <1>2, <1>3, <1>4, <1>5, <1>6 DEF Next

-----------------------------------------------------------------------------
\* The inductive invariant of the inputs and the turn holds in every
\* reachable state.
THEOREM IInvAlways == Spec => []IInv
BY InitIInv, NextIInv, PTL DEF Spec

\* The tables, the loop and the provider keep their types.
THEOREM TypeCorrect == Spec => []TypeOK
<1>1. IInv => TypeOK
    BY DEF IInv
<1> QED BY <1>1, IInvAlways, PTL

\* A request answered by processPendingInputEdits is honoured, whatever the
\* provider had in its buffer or its store.
THEOREM AnswersAreTrue == Spec => []RequestsAreHonoured
<1>1. IInv => RequestsAreHonoured
  <2> SUFFICES ASSUME IInv, NEW i \in Inputs
               PROVE  /\ answer[i] = "accepted" /\ request[i] = "cancel" => entered[i] = {}
                      /\ answer[i] = "accepted" /\ request[i] = "edit"
                           => entered[i] \subseteq {"edited"}
                      /\ answer[i] = "conflict" => entered[i] \subseteq {"sent"}
    BY DEF RequestsAreHonoured
  <2>1. entered[i] \subseteq {text[i]} /\ text[i] \in {"sent", "edited"}
    BY DEF IInv, TextInv, TypeOK
  <2>2. text[i] = "edited" <=> answer[i] = "accepted" /\ request[i] = "edit"
    BY DEF IInv, TextInv
  <2>3. answer[i] = "accepted" /\ request[i] = "cancel" => entered[i] = {}
    BY DEF IInv, TextInv
  <2> QED BY <2>1, <2>2, <2>3
<1> QED BY <1>1, IInvAlways, PTL

\* An input reaches the model once, unless a crash interrupts its turn before
\* the provider has stored it.
THEOREM InputsArePromptedOnce == Spec => []PromptedOnce
<1>1. IInv => PromptedOnce
    BY DEF IInv, OnceInv, PromptedOnce
<1> QED BY <1>1, IInvAlways, PTL

\* What onTurnStop completed is in no later prompt.
THEOREM StoppedStaysStopped == Spec => []StopHolds
<1>1. IInv => StopHolds
    BY DEF IInv
<1> QED BY <1>1, IInvAlways, PTL

\* No input is completed unread: it was heard, cancelled, stopped, or its turn
\* failed, with a notice unless the error was retryable.
THEOREM NoInputIsDropped == Spec => []NothingDropped
<1>1. IInv => NothingDropped
    BY DEF IInv
<1> QED BY <1>1, IInvAlways, PTL

\* beginTurn, settleTurn and interruptAbandonedTurns leave at most one turn
\* open, and none while the loop looks for input.
THEOREM TurnsAreSettled == Spec => []OneOpenTurn
<1>1. IInv => OneOpenTurn
    BY DEF IInv, TurnInv, OneOpenTurn
<1> QED BY <1>1, IInvAlways, PTL

-----------------------------------------------------------------------------
(* Refinement: the inputs are an inbox whose requests are atomic. *)

Done == {i \in Inputs : ack[i] = "completed"}

\* A step that leaves the texts, the rows and what was heard alone and has the
\* inputs S acknowledged, but no completed one claimed again.
LEMMA CompletionStep ==
    ASSUME IInv, NEW S \in SUBSET Inputs, UNCHANGED << row, text, entered >>,
           \A i \in Inputs : ack'[i] = "completed" <=> i \in S \/ ack[i] = "completed"
    PROVE  Box!Next
<1>1. Done' = Done \cup S
    BY DEF Done
<1>2. Box!Complete(S)
    BY <1>1 DEF Box!Complete, Done
<1> QED BY <1>2 DEF Box!Next

LEMMA WithAt ==
    ASSUME NEW f, NEW S, NEW v, NEW i \in Inputs
    PROVE  With(f, S, v)[i] = IF i \in S THEN v ELSE f[i]
BY DEF With

\* The beginning of a poll, and what it does with the inputs that wait.
LEMMA AnswerStep ==
    ASSUME IInv, AnswerRequests, UNCHANGED entered,
           NEW known \in SUBSET ingested, NEW batch \in SUBSET (Waiting \ known),
           ack' = With(With(ack, Cancelled \cup known, "completed"), batch, "processing")
    PROVE  Box!Next
<1>1. \A i \in Honoured : i \in Inputs /\ row[i] = "pending" /\ ack[i] = "none" /\ entered[i] = {}
    BY HonouredAreFree
<1>2. Edited \in SUBSET Box!Open /\ Cancelled \in SUBSET Box!Open
    BY <1>1 DEF Edited, Cancelled, Box!Open
<1>3. \A i \in known : i \in Inputs /\ entered[i] # {}
    BY DEF IInv, TypeOK, ClaimInv
<1>4. \A i \in batch : i \in Inputs /\ ack[i] = "none" /\ i \notin Cancelled \cup known
    BY DEF Waiting
<1>5. \A i \in Inputs : ack'[i] = IF i \in batch THEN "processing"
                                  ELSE IF i \in Cancelled \cup known THEN "completed" ELSE ack[i]
    BY WithAt
<1>6. Cancelled \subseteq Inputs
    BY <1>1 DEF Cancelled
<1>7. Done' = Done \cup Cancelled \cup known
    BY <1>3, <1>4, <1>5, <1>6 DEF Done
<1>8. \A i \in Inputs : row'[i] = IF i \in Cancelled THEN "completed" ELSE row[i]
    BY AnswersHold
<1>9. {i \in Inputs : row[i] = "completed"}' = {i \in Inputs : row[i] = "completed"} \cup Cancelled
    BY <1>6, <1>8
<1>10. text' = [i \in Inputs |-> IF i \in Edited THEN "edited" ELSE text[i]]
    BY DEF AnswerRequests, With
<1>11. Box!Answer(Edited, Cancelled, known)
    BY <1>3, <1>7, <1>9, <1>10 DEF Box!Answer, Done
<1>12. known \in SUBSET Inputs
    BY <1>3
<1> QED BY <1>2, <1>11, <1>12 DEF Box!Next

\* The model hears texts of inputs that are not cancelled, as they are.
LEMMA ReadStep ==
    ASSUME IInv, NEW said \in [Inputs -> Text], Enter(In(said), said),
           UNCHANGED << row, text, ack >>,
           \A i \in Inputs : said[i] # "none" => said[i] = text[i] /\ row[i] = "pending"
    PROVE  Box!Next
<1>1. \A i \in Inputs : i \in In(said) <=> said[i] # "none"
    BY DEF In
<1>2. entered' = [i \in Inputs |-> entered[i] \cup (IF i \in In(said) THEN {said[i]} ELSE {})]
    BY DEF Enter
<1>3. entered' = [i \in Inputs |-> IF i \in In(said) THEN entered[i] \cup {text[i]} ELSE entered[i]]
  <2>1. \A i \in Inputs : (entered[i] \cup (IF i \in In(said) THEN {said[i]} ELSE {}))
                          = IF i \in In(said) THEN entered[i] \cup {text[i]} ELSE entered[i]
    BY <1>1
  <2> QED BY <1>2, <2>1
<1>4. In(said) \cap {i \in Inputs : row[i] = "completed"} = {}
    BY <1>1
<1>5. Box!Read(In(said))
    BY <1>3, <1>4 DEF Box!Read
<1> QED BY <1>5 DEF Box!Next, In

LEMMA BoxStep ==
    ASSUME IInv, Next
    PROVE  Box!Next
<1> USE DEF rows, durable, loop, provider, history
<1>1. CASE MainPoll
  <2>1. Ingested \in SUBSET ingested /\ Waiting \ Ingested \in SUBSET (Waiting \ Ingested)
    BY DEF Ingested
  <2> QED BY <1>1, <2>1, AnswerStep DEF MainPoll
<1>2. CASE FollowUpPoll
  <2>1. Cancelled \cup {} = Cancelled /\ Waiting \ {} = Waiting
    OBVIOUS
  <2>2. AnswerRequests /\ UNCHANGED entered
        /\ ack' = With(With(ack, Cancelled \cup {}, "completed"), Waiting, "processing")
    BY <1>2, <2>1 DEF FollowUpPoll
  <2> QED BY <2>1, <2>2, AnswerStep
<1>3. CASE OfferPoll \/ \E how \in {"task", "command"} : ClosingPoll(how)
  <2>1. AnswerRequests /\ UNCHANGED entered /\ ack' = With(ack, Cancelled, "completed")
    BY <1>3 DEF OfferPoll, ClosingPoll
  <2>2. With(ack, Cancelled, "completed")
          = With(With(ack, Cancelled \cup {}, "completed"), {}, "processing")
    BY DEF With
  <2> QED BY <2>1, <2>2, AnswerStep
<1>4. CASE Take
  <2>1. prompt \in [Inputs -> Text]
    BY DEF IInv, TypeOK
  <2>2. \A i \in Inputs : prompt[i] # "none" => prompt[i] = text[i] /\ row[i] = "pending"
    BY DEF IInv, TextInv, ClaimInv
  <2> QED BY <1>4, <2>1, <2>2, ReadStep DEF Take
<1>5. CASE Apply
  <2>1. prepared \in [Inputs -> Text]
    BY DEF IInv, TypeOK
  <2>2. \A i \in Inputs : prepared[i] # "none" => buffer[i] = prepared[i] /\ buffer[i] # "none"
    BY DEF IInv, SteeringInv
  <2>3. \A i \in Inputs : prepared[i] # "none" => prepared[i] = text[i] /\ row[i] = "pending"
    BY <1>5, <2>2 DEF IInv, TextInv, SteeringInv, Apply
  <2> QED BY <1>5, <2>1, <2>3, ReadStep DEF Apply
<1>6. ASSUME NEW i \in Inputs, Acknowledge(i) PROVE Box!Next
  <2>1. ack[i] = "none" /\ ack \in [Inputs -> {"none", "processing", "completed"}]
    BY <1>6 DEF Acknowledge, IInv, TypeOK, SteeringInv
  <2>2. UNCHANGED << row, text, entered >>
        /\ ack' \in {[ack EXCEPT ![i] = "completed"], [ack EXCEPT ![i] = "processing"]}
    BY <1>6 DEF Acknowledge
  <2>3. CASE ack' = [ack EXCEPT ![i] = "completed"]
    BY <2>1, <2>2, <2>3, CompletionStep, {i} \in SUBSET Inputs
  <2>4. CASE ack' = [ack EXCEPT ![i] = "processing"]
    BY <2>1, <2>2, <2>4, CompletionStep, {} \in SUBSET Inputs
  <2> QED BY <2>2, <2>3, <2>4
<1>7. CASE (\E ends \in BOOLEAN : FinishResult(ends)) \/ StopTurn \/ StreamOver
  <2>1. UNCHANGED << row, text, entered >> /\ ack' = With(ack, consumed, "completed")
    BY <1>7 DEF FinishResult, StopTurn, StoppedInputs, StreamOver, Orphans
  <2>2. consumed \in SUBSET Inputs
    BY DEF IInv, TypeOK
  <2> QED BY <2>1, <2>2, CompletionStep, WithAt
<1>8. CASE Boot
  <2>1. UNCHANGED << row, text, entered >> /\ ack' = With(ack, Stale, "none")
    BY <1>8 DEF Boot
  <2>2. \A i \in Inputs : ack'[i] = "completed" <=> ack[i] = "completed"
    BY <2>1, WithAt DEF Stale
  <2> QED BY <2>1, <2>2, CompletionStep, {} \in SUBSET Inputs
<1>9. ASSUME NEW i \in Inputs, Submit(i) PROVE Box!Next
  <2>1. UNCHANGED << text, entered, ack >> /\ row[i] = "absent" /\ row' = [row EXCEPT ![i] = "pending"]
    BY <1>9 DEF Submit
  <2>2. {j \in Inputs : row[j] = "completed"}' = {j \in Inputs : row[j] = "completed"}
    BY <2>1 DEF IInv, TypeOK
  <2>3. Box!Complete({})
    BY <2>1, <2>2 DEF Box!Complete
  <2> QED BY <2>3 DEF Box!Next
<1>10. CASE \/ \E i \in Inputs, operation \in {"edit", "cancel"} : Ask(i, operation)
            \/ \E i \in Inputs : CommitFails(i) \/ Prepare(i)
            \/ ProviderResult \/ ProviderFails \/ RetryableError \/ AbortRunaway
            \/ \E settles \in BOOLEAN : Settle(settles)
            \/ Crash
  <2>1. UNCHANGED << row, text, entered, ack >>
    BY <1>10 DEF Ask, CommitFails, Prepare, ProviderResult, ProviderFails, RetryableError,
                 ExchangeFails, AbortRunaway, Settle, Crash
  <2> QED BY <2>1, CompletionStep, {} \in SUBSET Inputs
<1> QED BY <1>1, <1>2, <1>3, <1>4, <1>5, <1>6, <1>7, <1>8, <1>9, <1>10 DEF Next

\* Polls, provider, stops and crashes implement an inbox whose requests take
\* effect in one moment and whose completions are final.
THEOREM InboxRefinement == Spec => RequestsAreAtomic
<1>1. Init => Box!Init
    BY DEF Init, Box!Init, Nothing
<1>2. IInv /\ [Next]_vars => [Box!Next]_(Box!vars)
    BY BoxStep DEF vars, rows, durable, history, Box!vars
<1> QED
    BY <1>1, <1>2, IInvAlways, PTL DEF Spec, RequestsAreAtomic, Box!Spec
=============================================================================
