-------------------------------- MODULE Inbox --------------------------------
(***************************************************************************)
(* What the user of a session sees of the inputs, with nothing of turns,   *)
(* steering, claims, stops, containers and their crashes: a request to     *)
(* edit or to cancel an input takes effect in one moment, before the model *)
(* has read the input and before it is done, or not at all; the model      *)
(* reads an input as it is then, and never a cancelled one; and what is    *)
(* done stays done.                                                        *)
(***************************************************************************)

CONSTANT Inputs

VARIABLES
  text,       \* the text of each input, as sent or as edited
  cancelled,
  read,       \* the texts of each input that the model has read
  done        \* inputs nothing is left to do for

vars == <<text, cancelled, read, done>>

Init ==
  /\ text = [i \in Inputs |-> "sent"]
  /\ cancelled = {}
  /\ read = [i \in Inputs |-> {}]
  /\ done = {}

\* What may still be edited or cancelled.
Open == {i \in Inputs : read[i] = {}} \ (cancelled \cup done)

\* The inputs E are edited and the inputs C cancelled; D, which the model has
\* read, turn out to be done.
Answer(E, C, D) ==
  /\ \A i \in D : read[i] # {}
  /\ text' = [i \in Inputs |-> IF i \in E THEN "edited" ELSE text[i]]
  /\ cancelled' = cancelled \cup C
  /\ done' = done \cup C \cup D
  /\ UNCHANGED read

\* The model reads inputs, after a crash also some that it read before.
Read(S) ==
  /\ S \cap cancelled = {}
  /\ read' = [i \in Inputs |-> IF i \in S THEN read[i] \cup {text[i]} ELSE read[i]]
  /\ UNCHANGED <<text, cancelled, done>>

\* Their turn is over.
Complete(S) ==
  /\ done' = done \cup S
  /\ UNCHANGED <<text, cancelled, read>>

Next ==
  \/ \E E, C \in SUBSET Open, D \in SUBSET Inputs : Answer(E, C, D)
  \/ \E S \in SUBSET Inputs : Read(S) \/ Complete(S)

Spec == Init /\ [][Next]_vars
=============================================================================
