---------------------------- MODULE Tournament ----------------------------
(***************************************************************************)
(* The pure tournament rules of the world-cup program                      *)
(* (games/world-cup/pinocchio/program/src/tournament.rs): the tree of      *)
(* games, stored leaves first, with a third-place playoff behind the       *)
(* final; which brackets and which results are consistent; the score of a  *)
(* bracket.  Teams are positions, game 0 is played by teams 0 and 1.       *)
(*                                                                         *)
(* The code fixes sixteen leaf games.  Here their number is a parameter,   *)
(* so that small trees of the same shape can be checked exhaustively.      *)
(***************************************************************************)
EXTENDS Integers, Sequences, FiniteSets

CONSTANTS
  LEAVES,           \* games of the first round (16 in the code)
  ROUND_WEIGHT      \* points per game of each round, the playoff's last

ASSUME TournamentAssumption ==
  /\ LEAVES \in {4, 8, 16}
  /\ ROUND_WEIGHT \in Seq(Nat)

GAME_COUNT == 2 * LEAVES
FINAL == GAME_COUNT - 2
THIRD_PLACE_GAME == GAME_COUNT - 1
Game == 0 .. GAME_COUNT - 1
Leaf == 0 .. LEAVES - 1
Knockout == LEAVES .. FINAL             \* the games fed by two others
Team == 0 .. 2 * LEAVES - 1
UNDECIDED == 255                        \* no result posted yet

\* The two semifinals and the games that feed them.
SF == <<GAME_COUNT - 4, GAME_COUNT - 3>>
SemiFeeders == GAME_COUNT - 8 .. GAME_COUNT - 5

-----------------------------------------------------------------------------
(* Slips: wrong forms of the definitions named in the comments (README).      *)

\* Weight: all rounds count alike.
WeightFlat(g) == 1
\* Feeders: the offset is not doubled.
FeedersUndoubled(g) == {g - LEAVES, g - LEAVES + 1}
\* Needs: the playoff is posted after one semifinal.
NeedsOneSemifinal(g) ==
  CASE g \in Leaf             -> {}
    [] g \in Knockout         -> {2 * (g - LEAVES), 2 * (g - LEAVES) + 1}
    [] g = THIRD_PLACE_GAME   -> {SF[1]}
\* ThirdPlaceSlots: the loser of one semifinal, twice.
OneLoserTwice(slots) ==
  LET a == slots[2 * (SF[1] - LEAVES)]
      b == slots[2 * (SF[1] - LEAVES) + 1]
  IN  IF slots[SF[1]] = a THEN {b} ELSE {a}
\* Closeness: the difference is not made absolute.
ClosenessSigned(guess, actual) == guess - actual

-----------------------------------------------------------------------------

\* round_of: round r starts at game FirstGame(r); the playoff is the last.
FirstGame(r) == GAME_COUNT - GAME_COUNT \div 2^r
Round(g) == CHOOSE r \in 0 .. Len(ROUND_WEIGHT) - 1 :
              FirstGame(r) <= g /\ g < FirstGame(r + 1)
Weight(g) == ROUND_WEIGHT[Round(g) + 1]

ASSUME WeightAssumption == \A g \in Game : Weight(g) \in Nat

\* children, r32_slots: what a game is played between.
Feeders(g) == {2 * (g - LEAVES), 2 * (g - LEAVES) + 1}
Slots(g) == {2 * g, 2 * g + 1}

\* third_place_slots: of each semifinal the feeder's winner it did not advance.
Loser(slots, semi) ==
  LET first == slots[2 * (semi - LEAVES)]
      second == slots[2 * (semi - LEAVES) + 1]
  IN  IF slots[semi] = first THEN second ELSE first

ThirdPlaceSlots(slots) == {Loser(slots, SF[1]), Loser(slots, SF[2])}

\* The teams that can win game g when the games before it ended as in slots.
Contestants(slots, g) ==
  CASE g \in Leaf             -> Slots(g)
    [] g \in Knockout         -> {slots[c] : c \in Feeders(g)}
    [] g = THIRD_PLACE_GAME   -> ThirdPlaceSlots(slots)

\* validate_bracket.
ValidBracket(picks) ==
  \A g \in Game : picks[g] \in Team \cap Contestants(picks, g)

\* validate_result: the games whose winner must be known first.
Needs(g) ==
  CASE g \in Leaf             -> {}
    [] g \in Knockout         -> Feeders(g)
    [] g = THIRD_PLACE_GAME   -> SemiFeeders \cup {SF[1], SF[2]}

ValidResult(results, game, winner) ==
  /\ game \in Game
  /\ winner \in Team
  /\ \A f \in Needs(game) : results[f] # UNDECIDED
  /\ winner \in Contestants(results, game)

\* score_bracket: the sum of the weights of the games picked right, counted as
\* the size of a set that holds Weight(g) points for each such game g.
Hits(picks, results) ==
  {g \in Game : results[g] # UNDECIDED /\ picks[g] = results[g]}
Score(picks, results) ==
  Cardinality(UNION {{g} \X (1 .. Weight(g)) : g \in Hits(picks, results)})

\* closeness: u16::abs_diff.
Closeness(guess, actual) ==
  IF guess < actual THEN actual - guess ELSE guess - actual
-----------------------------------------------------------------------------
(* Reference: brackets without the array they are stored in.                  *)

\* The game that the winner of a game plays next.
After(g) == LEAVES + g \div 2

\* The games on the way of each team from its leaf to the final, in order.
Way ==
  LET way[n \in 0 .. 5] == [t \in Team |-> IF n = 0 THEN t \div 2 ELSE After(way[n - 1][t])]
      last == CHOOSE n \in 0 .. 5 : way[n][0] = FINAL
  IN  [t \in Team |-> [n \in 1 .. last + 1 |-> way[n - 1][t]]]

\* Every team wins its games until it loses one, and third is a team that won all of
\* its way but the semifinal and the final.
Playable(picks) ==
  LET wins == [t \in Team |-> {g \in Game \ {THIRD_PLACE_GAME} : picks[g] = t}]
      WonFirst(t, n) == wins[t] = {Way[t][i] : i \in 1 .. n}
      third == picks[THIRD_PLACE_GAME]
  IN  /\ \A g \in Game : picks[g] \in Team
      /\ \A t \in Team : \E n \in 0 .. Len(Way[t]) : WonFirst(t, n)
      /\ WonFirst(third, Len(Way[third]) - 2)
=============================================================================
