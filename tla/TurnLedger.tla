----------------------------- MODULE TurnLedger -----------------------------
(***************************************************************************)
(* What the turns table and the user learn of the turns of a query, with   *)
(* nothing of results, corrective prompts, errors and aborts: turns begin  *)
(* in order, a turn is settled at most once and not after the next began,  *)
(* and the user reads then what is recorded, in one step with it.          *)
(***************************************************************************)
EXTENDS Naturals

CONSTANT MaxTurns

VARIABLES
  outcome,  \* turns row of each turn
  told      \* what the end of each turn told the user

vars == <<outcome, told>>

Turns == 1 .. MaxTurns

Init ==
  /\ outcome = [t \in Turns |-> IF t = 1 THEN "pending" ELSE "none"]
  /\ told = [t \in Turns |-> "none"]

Latest(t) == outcome[t] # "none" /\ \A u \in Turns : u > t => outcome[u] = "none"

\* Which words go with a record.  A provider's error does not unsay a reply.
Words(result) ==
  CASE result = "replied" -> {"reply"}
    [] result = "silent" -> {"choice", "none"}
    [] result = "warning" -> {"runaway", "malformed", "delivery", "empty"}
    [] result = "failed" -> {"error", "reply", "choice"}
    [] result = "interrupted" -> {"none"}
    [] result = "stopped" -> {"stopped"}

Results == {"replied", "silent", "warning", "failed", "interrupted", "stopped"}

\* The next turn begins; the provider may be gone when it does.
Begin(t) ==
  /\ t - 1 \in Turns /\ Latest(t - 1)
  /\ outcome' \in {[outcome EXCEPT ![t] = "pending"], [outcome EXCEPT ![t] = "interrupted"]}
  /\ UNCHANGED told

Settle(t, result) ==
  /\ Latest(t) /\ outcome[t] = "pending"
  /\ outcome' = [outcome EXCEPT ![t] = result]
  /\ \E word \in Words(result) : told' = [told EXCEPT ![t] = word]

Next ==
  \E t \in Turns : Begin(t) \/ \E result \in Results : Settle(t, result)

Spec == Init /\ [][Next]_vars
=============================================================================
