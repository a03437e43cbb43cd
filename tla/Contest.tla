------------------------------ MODULE Contest ------------------------------
(***************************************************************************)
(* What the world-cup program promises its entrants, without accounts,     *)
(* tallies or lamports: entries are made while the contest is open and are *)
(* final; the truth is told after it closed and is final; and the prize is *)
(* awarded once, to the entry that ranks first among all of them.          *)
(***************************************************************************)
EXTENDS Naturals, Sequences

CONSTANTS
  Players,
  Score(_, _),      \* points of an entry for the truth
  Distance(_, _)    \* how far an entry's guess is off the truth

VARIABLES
  phase,            \* "open", "closed" or "awarded"
  entries,          \* in the order they were made, each with its player
  truth,            \* what has been told so far
  told,             \* whether that is everything
  winner            \* the players awarded: none or one

vars == <<phase, entries, truth, told, winner>>

\* Entry i ranks before entry j: points, then distance, then order.
Before(i, j) ==
  LET points == [k \in {i, j} |-> Score(entries[k], truth)]
      off == [k \in {i, j} |-> Distance(entries[k], truth)]
  IN  \/ points[i] > points[j]
      \/ points[i] = points[j] /\ off[i] < off[j]
      \/ points[i] = points[j] /\ off[i] = off[j] /\ i < j

Init ==
  /\ phase = "open"
  /\ entries = <<>>
  /\ ~told
  /\ winner = {}

Enter ==
  /\ phase = "open"
  /\ Len(entries') = Len(entries) + 1
  /\ SubSeq(entries', 1, Len(entries)) = entries
  /\ entries'[Len(entries')].player
       \in Players \ {entries[i].player : i \in DOMAIN entries}
  /\ UNCHANGED <<phase, truth, told, winner>>

Close ==
  /\ phase = "open"
  /\ phase' = "closed"
  /\ UNCHANGED <<entries, truth, told, winner>>

Tell ==
  /\ phase = "closed"
  /\ ~told
  /\ UNCHANGED <<phase, entries, winner>>

Award ==
  /\ phase = "closed"
  /\ told
  /\ phase' = "awarded"
  /\ \E i \in DOMAIN entries :
       /\ \A j \in DOMAIN entries \ {i} : Before(i, j)
       /\ winner' = {entries[i].player}
  /\ UNCHANGED <<entries, truth, told>>

Next == Enter \/ Close \/ Tell \/ Award

Spec == Init /\ [][Next]_vars
=============================================================================
