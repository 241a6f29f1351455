--------------------------- MODULE MessageNumbers ---------------------------
(***************************************************************************)
(* What the host and the runner of a session promise about the numbers of  *)
(* its messages, whoever allocates them and however late the other side    *)
(* learns of it: a new message gets a number no message has, a message     *)
(* keeps its number, and the runner, which names messages by number to the *)
(* agent, forgets none it knows.  Only a fork starts over with a part.     *)
(***************************************************************************)
EXTENDS Naturals

VARIABLES
  rows,   \* the messages with their numbers, as records with id and seq
  known,  \* those in the runner's tables
  forks   \* how often the session was forked

vars == <<rows, known, forks>>

Init == rows = {} /\ known = {} /\ forks = 0

\* A message is given a number, by the host or by the runner itself.
Assign(r) ==
  /\ \A q \in rows : q.seq # r.seq
  /\ rows' = rows \cup {r}
  /\ known' \in {known, known \cup {r}}
  /\ UNCHANGED forks

\* The runner learns of a message of the host.
Learn(r) ==
  /\ known' = known \cup {r}
  /\ UNCHANGED <<rows, forks>>

Fork ==
  /\ rows' \subseteq rows
  /\ known' \subseteq rows'
  /\ forks' = forks + 1

Next ==
  \/ \E r \in rows' : Assign(r)
  \/ \E r \in rows : Learn(r)
  \/ Fork

Spec == Init /\ [][Next]_vars
=============================================================================
