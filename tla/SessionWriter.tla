---------------------------- MODULE SessionWriter ----------------------------
(***************************************************************************)
(* Who may write the databases of a session in its runner's place: one     *)
(* container at a time, an agent's or a recovery's.  The next one starts   *)
(* only after the one before has stopped; several sessions may lose theirs *)
(* at once.  Wakes, admissions, watchers and host restarts do not show.    *)
(***************************************************************************)

CONSTANTS
  Sessions,
  Containers   \* what can run for a session

VARIABLE writers   \* the containers that run for each session

Init == writers = [s \in Sessions |-> {}]

Start(s, c) ==
  /\ writers[s] = {}
  /\ writers' = [writers EXCEPT ![s] = {c}]

Stop(S) == writers' = [s \in Sessions |-> IF s \in S THEN {} ELSE writers[s]]

Next ==
  \/ \E s \in Sessions, c \in Containers : Start(s, c)
  \/ \E S \in SUBSET Sessions : Stop(S)

Spec == Init /\ [][Next]_writers
=============================================================================
