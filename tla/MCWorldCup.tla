---------------------------- MODULE MCWorldCup -----------------------------
(* Small instances of WorldCup for TLC: eight teams, a clock of two ticks.   *)
EXTENDS WorldCup

CONSTANTS adm, ann, bob, out

SmallWeights == <<1, 2, 4, 2>>

\* A bracket in which the lower team always wins, and one in which the higher
\* team does; one that advances a team which has lost, and one whose playoff is
\* contested by a finalist.
Chalk == [g \in Game |-> CASE g = 0 -> 0 [] g = 1 -> 2 [] g = 2 -> 4 [] g = 3 -> 6
                           [] g = 4 -> 0 [] g = 5 -> 4 [] g = 6 -> 0 [] g = 7 -> 2]
Upset == [g \in Game |-> CASE g = 0 -> 1 [] g = 1 -> 3 [] g = 2 -> 5 [] g = 3 -> 7
                           [] g = 4 -> 3 [] g = 5 -> 7 [] g = 6 -> 7 [] g = 7 -> 5]
Ghost == [Chalk EXCEPT ![4] = 1]
NoPlayoff == [Chalk EXCEPT ![7] = 4]

\* Entries of all kinds, and the two a results run needs.
EntriesTried ==
  {[picks |-> Chalk, guess |-> 0], [picks |-> Chalk, guess |-> U16_MAX],
   [picks |-> Upset, guess |-> 0],
   [picks |-> Ghost, guess |-> 0], [picks |-> NoPlayoff, guess |-> 0]}
TwoEntries == {[picks |-> Chalk, guess |-> U16_MAX], [picks |-> Upset, guess |-> 0]}

\* Everything an admin could post, games and teams that do not exist included;
\* and the results of one tournament, all chalk but for the final.
AnyOutcome == [game: Game \cup {GAME_COUNT}, winner: Team \cup {2 * LEAVES}]
OneTruth == {[game |-> g, winner |-> [Chalk EXCEPT ![6] = 4][g]] : g \in Game}
\* Results under which no pick of the upset bracket is right, and some of both.
MixedTruth == OneTruth \cup {[game |-> 6, winner |-> 0], [game |-> 3, winner |-> 7]}

Rich == [w \in Wallets |-> 20]
OneGift == [w \in Wallets |-> IF w = out THEN 1 ELSE 12]
=============================================================================
