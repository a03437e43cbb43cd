------------------------------ MODULE GameRules -----------------------------
(***************************************************************************)
(* The pure rules of the two games against reference definitions: a run of *)
(* consecutive VRF outputs drawn from one fixed set of weights; brackets   *)
(* that were played out, and every bracket that differs from such a one in *)
(* one game, against definitions that do not walk the array.               *)
(***************************************************************************)
EXTENDS Tournament, TierSelect

CONSTANTS
  MaxWeight, Rounds,                \* what is drawn from, and how often
  PlayedOut                         \* which side wins each game: a set of [Game -> 0 .. 1]

ASSUME RulesAssumption ==
  /\ MaxWeight \in Nat /\ Rounds \in Nat
  /\ PlayedOut \subseteq [Game -> 0 .. 1]

VARIABLES
  odds, tiers,            \* weights and their number, fixed when the pool is initialised
  output,                 \* the next VRF output
  card, edited,           \* a bracket
  rules                   \* the rules looked at, the same throughout

rulesVars == <<odds, tiers, output, card, edited, rules>>

TotalOdds == TotalWeight(odds, tiers)
OneTier == [i \in 1 .. MAX_TIERS |-> IF i = 1 THEN 1 ELSE 0]

\* A sample of the ways to play a tournament out: regular ones and mixed ones.
SomeSides ==
  {[g \in Game |-> (g \div 2^i + j) % 2] : i \in 0 .. 4, j \in 0 .. 1}
    \cup {[g \in Game |-> IF (g * g + i) % 5 < 2 THEN 1 ELSE 0] : i \in 0 .. 4}

CodeWeights == <<1, 2, 4, 8, 16, 8>>

\* The game whose winner wins game g: of the two it is fed by the one on the winning side,
\* and third is who lost the semifinal on that side.
From(side, g) ==
  LET semi == GAME_COUNT - 4 + side[g]
  IN  IF g # THIRD_PLACE_GAME THEN 2 * (g - LEAVES) + side[g]
      ELSE 2 * (semi - LEAVES) + 1 - side[semi]

\* A tournament played out: the winner of each game given which side wins.
Play(side) ==
  LET won[g \in Game] == IF g < LEAVES THEN 2 * g + side[g] ELSE won[From(side, g)]
  IN  won

\* The weights init_pool accepts, and the brackets; the rules that are not looked at
\* stay fixed.
RulesInit ==
  \/ /\ rules = "draw"
     /\ tiers \in 1 .. MAX_TIERS
     /\ odds \in [1 .. MAX_TIERS -> 0 .. MaxWeight]
     /\ \A i \in 1 .. MAX_TIERS : (i <= tiers) <=> (odds[i] # 0)
     /\ output = 0
     /\ card = Play(CHOOSE side \in PlayedOut : TRUE) /\ edited = FALSE
  \/ /\ rules = "bracket"
     /\ tiers = 1 /\ odds = OneTier /\ output = 0
     /\ card \in {Play(side) : side \in PlayedOut} /\ edited = FALSE

Draw ==
  /\ rules = "draw"
  /\ output < Rounds * TotalOdds
  /\ output' = output + 1
  /\ UNCHANGED <<odds, tiers, card, edited, rules>>

Change ==
  /\ rules = "bracket"
  /\ ~edited
  /\ edited' = TRUE
  /\ \E g \in Game, t \in Team \cup {GAME_COUNT} :
       card' = [card EXCEPT ![g] = t]
  /\ UNCHANGED <<odds, tiers, output, rules>>

RulesNext == Draw \/ Change

RulesSpec == RulesInit /\ [][RulesNext]_rulesVars

\* Reference: the tier is the one whose interval of the running sums of the
\* weights holds the reduced output.
ReferenceTier(b) == CHOOSE t \in 0 .. tiers - 1 : InShare(t, b % TotalOdds, odds)

\* The odds are the weights (doc comment of select_tier): every VRF output selects the
\* tier in whose share of the total weight it falls, and none selects no tier.
SelectsByInterval ==
  rules = "draw" => SelectTier(output, odds, tiers) = ReferenceTier(output)

\* validate_bracket accepts exactly the brackets in which every team wins its
\* games until it loses one, and third is a team that won all of its way but
\* the semifinal and the final.
AcceptsExactlyThePlayable == ValidBracket(card) <=> Playable(card)

\* Half the number of teams that could reach a game; the playoff's is that of a
\* semifinal.
Reach ==
  [g \in Game |->
     IF g = THIRD_PLACE_GAME THEN LEAVES \div 2
     ELSE Cardinality({t \in Team : \E i \in 1 .. Len(Way[t]) : Way[t][i] = g})
          \div 2]

Truths == {Play(side) : side \in SomeSides}

\* A bracket scores, for each game it has right, half the number of teams that
\* could have reached that game, the playoff counting like a semifinal
\* (score_bracket, round_of and ROUND_WEIGHT together).
ScoreByReach ==
  \A truth \in Truths :
    Score(card, truth) =
      SumFunctionOnSet(Reach, {g \in Game : card[g] = truth[g]})
=============================================================================
