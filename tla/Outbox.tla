------------------------------- MODULE Outbox -------------------------------
(***************************************************************************)
(* What delivery promises about a session's messages, with nothing of      *)
(* drains, attempts, scans or memory that a stop wipes out: messages are   *)
(* handed to the channel one at a time; an acceptance ends in its receipt, *)
(* or the receipt is lost and the message is handed over again or given    *)
(* up; and a receipt is the last thing that happens to a message.          *)
(***************************************************************************)
EXTENDS Naturals

CONSTANT Msgs

VARIABLES
  fate,      \* "waiting", "accepted", and then the receipt
  sends,     \* how often the channel accepted each message
  lost       \* how many of these acceptances left no receipt

vars == <<fate, sends, lost>>

Init ==
  /\ fate = [m \in Msgs |-> "waiting"]
  /\ sends = [m \in Msgs |-> 0]
  /\ lost = [m \in Msgs |-> 0]

Move(m, from, to) == fate[m] = from /\ fate' = [fate EXCEPT ![m] = to]

\* The channel takes a message when it has answered for every other one.
Accept(m) ==
  /\ \A n \in Msgs : fate[n] # "accepted"
  /\ Move(m, "waiting", "accepted")
  /\ sends' = [sends EXCEPT ![m] = @ + 1]
  /\ UNCHANGED lost

\* The receipt of an acceptance is written.
Confirm(m) ==
  /\ Move(m, "accepted", "delivered")
  /\ UNCHANGED <<sends, lost>>

\* It is not: the message waits again, or this was its last attempt.
Lose(m) ==
  /\ \E to \in {"waiting", "failed"} : Move(m, "accepted", to)
  /\ lost' = [lost EXCEPT ![m] = @ + 1]
  /\ UNCHANGED sends

\* The channel has refused the message for the last time.
GiveUp(m) ==
  /\ Move(m, "waiting", "failed")
  /\ UNCHANGED <<sends, lost>>

Next == \E m \in Msgs : Accept(m) \/ Confirm(m) \/ Lose(m) \/ GiveUp(m)

Spec == Init /\ [][Next]_vars
=============================================================================
