--------------------------- MODULE OrderedJournal ---------------------------
(***************************************************************************)
(* What one direction of the session link promises (docs/session-link.md,  *)
(* "Protocol"): a writer journals events durably, the peer commits every   *)
(* one of them exactly once and in journal order, and the writer forgets   *)
(* an event only after the peer has committed it.  Connections, retries,   *)
(* acknowledgements and crashes are all invisible at this level.           *)
(***************************************************************************)
EXTENDS Naturals, Sequences

CONSTANT Payloads       \* what an event may carry

VARIABLES
  log,       \* every event ever journaled; an event's sequence is its index
  pending,   \* sequences the writer still stores
  applied    \* payloads the peer has committed, oldest first

vars == <<log, pending, applied>>

Init ==
  /\ log = <<>>
  /\ pending = {}
  /\ applied = <<>>

(* The writer commits a mutation together with the event that describes it. *)
Journal(p) ==
  /\ log' = Append(log, p)
  /\ pending' = pending \union {Len(log) + 1}
  /\ UNCHANGED applied

(* The peer commits the first event it has not committed yet. *)
Apply ==
  /\ Len(applied) < Len(log)
  /\ applied' = Append(applied, log[Len(applied) + 1])
  /\ UNCHANGED <<log, pending>>

(* The writer deletes an event the peer has committed. *)
Forget(s) ==
  /\ s \in pending
  /\ s <= Len(applied)
  /\ pending' = pending \ {s}
  /\ UNCHANGED <<log, applied>>

Next ==
  \/ \E p \in Payloads : Journal(p)
  \/ Apply
  \/ \E s \in pending : Forget(s)

Spec == Init /\ [][Next]_vars
=============================================================================
