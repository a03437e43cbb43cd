--------------------------- MODULE WorldCupProofs ---------------------------
(***************************************************************************)
(* What holds of WorldCup for every number of entrants, every bracket,     *)
(* result, goal total, fee and rent: its types; that the tally decides and *)
(* the recorded winner made the entry that ranks first; that results can   *)
(* be played and completed, and play is fair; that stakes are kept and     *)
(* lamports conserved; that the program implements Contest; and, of the    *)
(* rules of GameRules, which brackets are valid and how they score.        *)
(***************************************************************************)
EXTENDS WorldCup, GameRules, SumLemmas

(***************************************************************************)
(* Lemmas on the rules of the tournament.                                  *)
(***************************************************************************)

\* What the constants are, in the form the steps below use.
LEMMA Constants ==
  /\ LEAVES \in Nat /\ Team \subseteq Nat /\ Game \subseteq Nat
  /\ UNDECIDED \in Nat
  /\ U16_MAX \in Nat /\ U32_MAX \in Nat /\ MaxTime \in Nat
  /\ ENTRY_FEE \in Nat /\ BracketRent \in Nat /\ RentFloor \in Nat
  /\ SetupRent \in Nat /\ LockTimes \subseteq Nat
  /\ GoalTotals \subseteq 0 .. U16_MAX
  /\ Admins \subseteq Wallets /\ Entrants \subseteq Wallets
  /\ Givers \subseteq Wallets
BY TournamentAssumption, WorldCupAssumption
   DEF Team, Game, GAME_COUNT, UNDECIDED

LEMMA EntrantsFinite == IsFiniteSet(Entrants)
BY WorldCupAssumption, FS_Subset

\* A score is a natural number: finitely many games, finitely many points each.
LEMMA ScoreType ==
  ASSUME NEW picks, NEW results
  PROVE  Score(picks, results) \in Nat
<1> DEFINE H == Hits(picks, results)
           points == {{g} \X (1 .. Weight(g)) : g \in H}
           f == [g \in H |-> {g} \X (1 .. Weight(g))]
<1>1. IsFiniteSet(Game) /\ H \in SUBSET Game
  <2>1. 0 \in Int /\ GAME_COUNT - 1 \in Int
    BY Constants DEF GAME_COUNT
  <2>2. IsFiniteSet(0 .. GAME_COUNT - 1)
    BY <2>1, FS_Interval
  <2> QED BY <2>2 DEF Game, Hits
<1>2. IsFiniteSet(H)
  BY <1>1, FS_Subset
<1>3. IsFiniteSet(points)
  <2>1. f \in Surjection(H, points)
    BY DEF Surjection
  <2> QED BY <1>2, <2>1, FS_Surjection
<1>4. \A T \in points : IsFiniteSet(T)
  <2> SUFFICES ASSUME NEW g \in H
               PROVE  IsFiniteSet({g} \X (1 .. Weight(g)))
    OBVIOUS
  <2>1. 1 \in Int /\ Weight(g) \in Int
    BY <1>1, WeightAssumption
  <2>2. IsFiniteSet(1 .. Weight(g))
    BY <2>1, FS_Interval
  <2>3. IsFiniteSet({g})
    BY FS_Singleton
  <2> QED BY <2>2, <2>3, FS_Product
<1>5. IsFiniteSet(UNION points)
  BY <1>3, <1>4, FS_UNION
<1> QED BY <1>5, FS_CardinalityType DEF Score

\* Closeness stays inside the width of its operands.
LEMMA ClosenessType ==
  ASSUME NEW guess \in 0 .. U16_MAX, NEW actual \in 0 .. U16_MAX
  PROVE  Closeness(guess, actual) \in 0 .. U16_MAX
BY Constants DEF Closeness

\* The tally's comparison is a strict total order on keys: what is not better
\* than a key is not better than one that replaced it, and keys with different
\* indices are comparable.
LEMMA BetterIsTransitive ==
  ASSUME NEW a \in Key, NEW b \in Key, NEW c \in Key,
         ~Better(a, b), Better(c, b)
  PROVE  ~Better(a, c)
BY Constants DEF Better, Key

LEMMA BetterIsIrreflexive ==
  ASSUME NEW a \in Key
  PROVE  ~Better(a, a)
BY Constants DEF Better, Key

(***************************************************************************)
(* Types.                                                                  *)
(***************************************************************************)

LEMMA NoAccountTypes ==
  /\ NoBest \in Key
  /\ NoResults \in OracleType
  /\ NoBracket \in BracketType
  /\ NoConfig \in ConfigType
<1>1. NoBest \in Key
  BY Constants DEF NoBest, Key
<1>2. NoResults \in OracleType
  BY Constants DEF NoResults, OracleType
<1>3. NoBracket \in BracketType
  <2>1. 0 \in Team /\ 0 \in 0 .. U16_MAX /\ 0 \in 0 .. U32_MAX
    BY TournamentAssumption, Constants DEF Team
  <2>2. [g \in Game |-> 0] \in [Game -> Team]
    BY <2>1
  <2> QED BY <2>1, <2>2 DEF NoBracket, BracketType
<1>4. NoConfig \in ConfigType
  <2>1. (CHOOSE w \in Wallets : TRUE) \in Wallets
    BY WorldCupAssumption
  <2>2. 0 \in 0 .. U32_MAX /\ {} \in SUBSET Entrants
    BY Constants
  <2> QED BY <1>1, <2>1, <2>2 DEF NoConfig, ConfigType
<1> QED BY <1>1, <1>2, <1>3, <1>4

LEMMA TopUpType ==
  ASSUME NEW held \in Nat, NEW rent \in Nat
  PROVE  TopUp(held, rent) \in Nat /\ held + TopUp(held, rent) >= rent
BY DEF TopUp

LEMMA SweptType ==
  ASSUME TypeOK
  PROVE  Swept \in Nat /\ vault - Swept \in Nat
BY Constants DEF TypeOK, Swept

LEMMA TypeInitially ==
  ASSUME Init
  PROVE  TypeOK
<1>1. entries \in Seq([player: Entrants, picks: [Game -> Team],
                      guess: 0 .. U16_MAX])
  BY DEF Init
<1>2. wallet \in [Wallets -> Nat]
  BY WorldCupAssumption DEF Init
<1> QED BY <1>1, <1>2, NoAccountTypes, Constants DEF Init, TypeOK

LEMMA InitConfigTypes ==
  ASSUME TypeOK, NEW w \in Admins, NEW lock_ts \in LockTimes, InitConfig(w, lock_ts)
  PROVE  TypeOK'
<1> DEFINE cost == SetupRent + TopUp(vault, RentFloor)
           held == vault + TopUp(vault, RentFloor)
<1>1. w \in Wallets /\ lock_ts \in Nat /\ cost \in Nat /\ held \in Nat
  <2>1. vault \in Nat /\ RentFloor \in Nat /\ SetupRent \in Nat
    BY Constants DEF TypeOK
  <2>2. TopUp(vault, RentFloor) \in Nat
    BY <2>1, TopUpType
  <2> QED BY <2>1, <2>2, Constants
<1>2. config' \in ConfigType
  <2>1. NoConfig \in ConfigType
    BY <1>1, NoAccountTypes
  <2>2. config' = [NoConfig EXCEPT !.state = "Registration", !.admin = w,
                                   !.lock_ts = lock_ts]
    BY DEF InitConfig
  <2> QED BY <1>1, <2>1, <2>2 DEF ConfigType
<1>3. wallet' \in [Wallets -> Nat]
  <2>1. wallet' = [wallet EXCEPT ![w] = @ - cost] /\ wallet[w] >= cost
    BY DEF InitConfig
  <2> HIDE DEF cost
  <2> QED BY <1>1, <2>1 DEF TypeOK
<1> QED BY <1>1, <1>2, <1>3 DEF TypeOK, InitConfig

LEMMA SubmitBracketTypes ==
  ASSUME TypeOK, NEW e \in Entrants, NEW entry \in Entries, SubmitBracket(e, entry)
  PROVE  TypeOK'
<1> DEFINE topUp == TopUp(bracketLamports[e], BracketRent)
           opened == [present |-> TRUE, picks |-> entry.picks,
                      guess |-> entry.guess, index |-> config.entrant_count,
                      score |-> 0, folded |-> FALSE]
           made == [player |-> e, picks |-> entry.picks, guess |-> entry.guess]
<1>1. e \in Wallets /\ topUp \in Nat /\ PotShare \in Nat
  <2>1. bracketLamports[e] \in Nat /\ BracketRent \in Nat /\ ENTRY_FEE \in Nat
    BY Constants DEF TypeOK
  <2>2. topUp \in Nat
    BY <2>1, TopUpType
  <2>3. ENTRY_FEE >= BracketRent
    BY DEF SubmitBracket
  <2>4. PotShare \in Nat
    BY <2>1, <2>3 DEF PotShare
  <2> QED BY <2>2, <2>4, Constants
<1>2. entry.picks \in [Game -> Team] /\ entry.guess \in 0 .. U16_MAX
  <2>1. entry.picks \in [Game -> Nat] /\ entry.guess \in 0 .. U16_MAX
    BY WorldCupAssumption
  <2>2. \A g \in Game : entry.picks[g] \in Team
    BY DEF SubmitBracket, ValidBracket
  <2> QED BY <2>1, <2>2
<1>3. config' \in ConfigType
  <2>1. config' = [config EXCEPT !.entrant_count = @ + 1]
        /\ config.entrant_count < U32_MAX
    BY DEF SubmitBracket
  <2>2. config.entrant_count + 1 \in 0 .. U32_MAX
    <3>1. config.entrant_count \in 0 .. U32_MAX
      BY DEF TypeOK, ConfigType
    <3>2. config.entrant_count < U32_MAX
      BY <2>1
    <3> HIDE DEF topUp, opened, made
    <3> QED BY <3>1, <3>2, Constants
  <2> QED BY <2>1, <2>2 DEF TypeOK, ConfigType
<1>4. bracket' \in [Entrants -> BracketType]
  <2>1. opened \in BracketType
    BY <1>2 DEF TypeOK, ConfigType, BracketType
  <2>2. bracket' = [bracket EXCEPT ![e] = opened]
    BY DEF SubmitBracket
  <2> HIDE DEF opened
  <2> QED BY <2>1, <2>2 DEF TypeOK
<1>5. entries' \in Seq([player: Entrants, picks: [Game -> Team],
                       guess: 0 .. U16_MAX])
  <2>1. made \in [player: Entrants, picks: [Game -> Team], guess: 0 .. U16_MAX]
    BY <1>2
  <2>2. entries' = Append(entries, made)
    BY DEF SubmitBracket
  <2> HIDE DEF made
  <2> QED BY <2>1, <2>2 DEF TypeOK
<1>6. /\ wallet' \in [Wallets -> Nat]
      /\ bracketLamports' \in [Entrants -> Nat]
      /\ vault' \in Nat
  <2>1. /\ wallet[e] >= topUp + PotShare
        /\ wallet' = [wallet EXCEPT ![e] = @ - (topUp + PotShare)]
        /\ bracketLamports' = [bracketLamports EXCEPT ![e] = @ + topUp]
        /\ vault' = vault + PotShare
    BY DEF SubmitBracket, Stake
  <2> HIDE DEF topUp
  <2> QED BY <1>1, <2>1 DEF TypeOK
<1> QED BY <1>3, <1>4, <1>5, <1>6 DEF TypeOK, SubmitBracket

LEMMA PostResultTypes ==
  ASSUME TypeOK, NEW w, NEW game, NEW winner, PostResult(w, game, winner)
  PROVE  TypeOK'
<1>1. game \in Game /\ winner \in Team
  BY DEF PostResult, ValidResult
<1>2. oracle' \in OracleType
  BY <1>1 DEF TypeOK, OracleType, PostResult
<1> QED BY <1>2 DEF TypeOK, PostResult

LEMMA PostGoalsTypes ==
  ASSUME TypeOK, NEW w, NEW total \in GoalTotals, PostGoals(w, total)
  PROVE  TypeOK'
<1>1. oracle' \in OracleType
  BY Constants DEF TypeOK, OracleType, PostGoals
<1> QED BY <1>1 DEF TypeOK, PostGoals

\* The key a fold computes for the bracket of e.
KeyOf(e) == [score |-> Score(bracket[e].picks, oracle.results),
             closeness |-> Closeness(bracket[e].guess, oracle.total_goals),
             index |-> bracket[e].index]

LEMMA KeyType ==
  ASSUME TypeOK, NEW e \in Entrants
  PROVE  KeyOf(e) \in Key
<1>1. bracket[e].guess \in 0 .. U16_MAX /\ bracket[e].index \in 0 .. U32_MAX
  BY DEF TypeOK, BracketType
<1>2. oracle.total_goals \in 0 .. U16_MAX
  BY DEF TypeOK, OracleType
<1>3. Closeness(bracket[e].guess, oracle.total_goals) \in 0 .. U16_MAX
  BY <1>1, <1>2, ClosenessType
<1>4. Score(bracket[e].picks, oracle.results) \in Nat
  BY ScoreType
<1> QED BY <1>1, <1>3, <1>4 DEF KeyOf, Key

\* What the tally is before and after a fold.
Tallied == IF config.tallied THEN config.best ELSE NoBest
Counted == IF config.tallied THEN config.refreshed_count ELSE 0
Improved(e) == IF Better(KeyOf(e), Tallied) THEN KeyOf(e) ELSE Tallied

LEMMA RefreshScoreEffect ==
  ASSUME TypeOK, NEW e \in Entrants, RefreshScore(e)
  PROVE  /\ Tallied \in Key /\ Improved(e) \in Key /\ KeyOf(e) \in Key
         /\ Counted \in Nat /\ Counted + 1 \in 0 .. U32_MAX
         /\ bracket' = [bracket EXCEPT ![e].score = KeyOf(e).score,
                                       ![e].folded = TRUE]
         /\ config' = [config EXCEPT !.tallied = TRUE, !.best = Improved(e),
                                     !.refreshed_count = Counted + 1]
<1>1. KeyOf(e) \in Key
  BY KeyType
<1>2. Tallied \in Key
  <2>1. CASE config.tallied
    BY <2>1 DEF Tallied, TypeOK, ConfigType
  <2>2. CASE ~config.tallied
    BY <2>2, NoAccountTypes DEF Tallied
  <2> QED BY <2>1, <2>2
<1>3. Improved(e) \in Key
  BY <1>1, <1>2 DEF Improved
<1>4. Counted \in Nat /\ Counted < U32_MAX
  <2>1. Counted < U32_MAX
    BY DEF RefreshScore, Counted
  <2>2. config.refreshed_count \in Nat
    BY Constants DEF TypeOK, ConfigType
  <2> QED BY <2>1, <2>2 DEF Counted
<1>5. bracket' = [bracket EXCEPT ![e].score = KeyOf(e).score, ![e].folded = TRUE]
  BY DEF RefreshScore, KeyOf
<1>6. config' = [config EXCEPT !.tallied = TRUE, !.best = Improved(e),
                               !.refreshed_count = Counted + 1]
  BY DEF RefreshScore, KeyOf, Improved, Tallied, Counted
<1>7. Counted + 1 \in 0 .. U32_MAX
  BY <1>4, Constants
<1> QED BY <1>1, <1>2, <1>3, <1>4, <1>5, <1>6, <1>7

LEMMA RefreshScoreTypes ==
  ASSUME TypeOK, NEW e \in Entrants, RefreshScore(e)
  PROVE  TypeOK'
<1>1. config' \in ConfigType
  BY RefreshScoreEffect DEF TypeOK, ConfigType
<1>2. bracket' \in [Entrants -> BracketType]
  <2>1. KeyOf(e).score \in Nat
    BY KeyType DEF Key
  <2>2. bracket[e] \in BracketType
    BY DEF TypeOK
  <2>3. [bracket[e] EXCEPT !.score = KeyOf(e).score, !.folded = TRUE]
          \in BracketType
    BY <2>1, <2>2 DEF BracketType
  <2>4. bracket' = [bracket EXCEPT ![e] =
          [bracket[e] EXCEPT !.score = KeyOf(e).score, !.folded = TRUE]]
    <3>1. bracket' = [bracket EXCEPT ![e].score = KeyOf(e).score, ![e].folded = TRUE]
      BY RefreshScoreEffect
    <3>2. bracket \in [Entrants -> BracketType]
      BY DEF TypeOK
    <3>3. \A v : [bracket EXCEPT ![e].score = v, ![e].folded = TRUE]
                  = [bracket EXCEPT ![e] = [bracket[e] EXCEPT !.score = v, !.folded = TRUE]]
      BY <3>2
    <3> QED BY <3>1, <3>3
  <2>5. bracket \in [Entrants -> BracketType]
    BY DEF TypeOK
  <2> QED BY <2>3, <2>4, <2>5
<1> QED BY <1>1, <1>2 DEF TypeOK, RefreshScore

LEMMA TypeStep ==
  ASSUME TypeOK, [Next]_vars
  PROVE  TypeOK'
<1>1. ASSUME NEW w \in Admins, NEW lock_ts \in LockTimes,
             InitConfig(w, lock_ts)
      PROVE  TypeOK'
  BY <1>1, InitConfigTypes
<1>2. ASSUME NEW e \in Entrants, NEW entry \in Entries,
             SubmitBracket(e, entry)
      PROVE  TypeOK'
  BY <1>2, SubmitBracketTypes
<1>3. ASSUME NEW w \in Wallets, Lock(w) PROVE TypeOK'
  <2>1. config' \in ConfigType
    BY <1>3 DEF TypeOK, ConfigType, Lock
  <2> QED BY <1>3, <2>1 DEF TypeOK, Lock
<1>4. ASSUME NEW w \in Wallets, NEW o \in Outcomes,
             PostResult(w, o.game, o.winner)
      PROVE  TypeOK'
  BY <1>4, PostResultTypes
<1>5. ASSUME NEW w \in Wallets, NEW total \in GoalTotals,
             PostGoals(w, total)
      PROVE  TypeOK'
  BY <1>5, PostGoalsTypes
<1>6. ASSUME NEW e \in Entrants, RefreshScore(e) PROVE TypeOK'
  BY <1>6, RefreshScoreTypes
<1>7. ASSUME NEW w \in Wallets, NEW e \in Entrants, Finalize(w, e)
      PROVE  TypeOK'
  <2>1. config' \in ConfigType
    BY <1>7 DEF TypeOK, ConfigType, Finalize
  <2> QED BY <1>7, <2>1 DEF TypeOK, Finalize
<1>8. ASSUME NEW w \in Wallets, Claim(w) PROVE TypeOK'
  <2>1. wallet' \in [Wallets -> Nat] /\ vault' \in Nat /\ claimed' \in Nat
    BY <1>8, SweptType DEF TypeOK, Claim
  <2> QED BY <1>8, <2>1 DEF TypeOK, Claim
<1>9. ASSUME NEW e \in Entrants, CloseBracket(e) PROVE TypeOK'
  <2>1. vault' \in Nat /\ bracketLamports' \in [Entrants -> Nat]
    BY <1>9 DEF TypeOK, CloseBracket
  <2>2. bracket' \in [Entrants -> BracketType]
    BY <1>9, NoAccountTypes DEF TypeOK, CloseBracket
  <2> QED BY <1>9, <2>1, <2>2 DEF TypeOK, CloseBracket
<1>10. ASSUME Tick PROVE TypeOK'
  BY <1>10, Constants DEF TypeOK, Tick
<1>11. ASSUME NEW w \in Givers, NEW n \in 1 .. wallet[w], GiveVault(w, n)
       PROVE  TypeOK'
  <2>1. w \in Wallets /\ n \in Nat /\ wallet[w] - n \in Nat
    BY <1>11, Constants DEF TypeOK
  <2> QED BY <1>11, <2>1 DEF TypeOK, GiveVault
<1>12. ASSUME NEW w \in Givers, NEW e \in Entrants,
              NEW n \in 1 .. wallet[w], GiveBracket(w, e, n)
       PROVE  TypeOK'
  <2>1. w \in Wallets /\ n \in Nat /\ wallet[w] - n \in Nat
    BY <1>12, Constants DEF TypeOK
  <2> QED BY <1>12, <2>1 DEF TypeOK, GiveBracket
<1>13. ASSUME UNCHANGED vars PROVE TypeOK'
  BY <1>13 DEF TypeOK, vars
<1> QED
  BY <1>1, <1>2, <1>3, <1>4, <1>5, <1>6, <1>7, <1>8, <1>9, <1>10, <1>11,
     <1>12, <1>13 DEF Next

\* Every variable always holds a value of its type: no instruction writes a
\* team, a guess, a count or a balance outside of its range.
THEOREM TypeCorrect == Spec => []TypeOK
<1>1. Init => TypeOK
  BY TypeInitially
<1>2. TypeOK /\ [Next]_vars => TypeOK'
  BY TypeStep
<1> QED BY <1>1, <1>2, PTL DEF Spec

(***************************************************************************)
(* The inductive invariant behind WinnerRanksFirst.                        *)
(***************************************************************************)

\* Until the winner is recorded, the brackets are the entries: the one at
\* position i has index i - 1 and its entrant's picks and guess.
EntriesRecorded ==
  config.state # "Finalized" =>
    /\ config.state = "Absent" => entries = <<>>
    /\ config.entrant_count = Len(entries)
    /\ \A i \in 1 .. Len(entries) :
         LET b == bracket[entries[i].player]
         IN  /\ b.present
             /\ b.index = i - 1
             /\ b.picks = entries[i].picks
             /\ b.guess = entries[i].guess
    /\ \A e \in Present : /\ bracket[e].index + 1 \in 1 .. Len(entries)
                          /\ entries[bracket[e].index + 1].player = e

\* Until then the two counters count the brackets and the folded ones.
FoldsCounted ==
  config.state # "Finalized" =>
    /\ Folded \subseteq Present
    /\ config.entrant_count = Cardinality(Present)
    /\ config.refreshed_count = Cardinality(Folded)
    /\ config.tallied <=> Folded # {}

\* Nothing is folded before the oracle is complete, and then nothing can be
\* posted any more.
FoldedIsFinal ==
  /\ Folded # {} => IsComplete /\ config.state \in {"Locked", "Finalized"}
  /\ oracle.decided = {g \in Game : oracle.results[g] # UNDECIDED}

\* No folded bracket is better than the best key.
TallyIsBest ==
  config.state # "Finalized" =>
    \A e \in Folded : /\ bracket[e].score = KeyOf(e).score
                      /\ ~Better(KeyOf(e), config.best)

WinnerWhenFinalized == config.state # "Finalized" => config.winner = {}

RankInv ==
  /\ EntriesRecorded
  /\ FoldsCounted
  /\ FoldedIsFinal
  /\ TallyIsBest
  /\ WinnerWhenFinalized
  /\ WinnerRanksFirst

\* Sets of brackets are finite.
LEMMA BracketsFinite ==
  /\ IsFiniteSet(Present) /\ IsFiniteSet(Folded)
  /\ Cardinality(Present) \in Nat /\ Cardinality(Folded) \in Nat
<1>1. Present \in SUBSET Entrants /\ Folded \in SUBSET Entrants
  BY DEF Present, Folded
<1>2. IsFiniteSet(Present) /\ IsFiniteSet(Folded)
  BY <1>1, EntrantsFinite, FS_Subset
<1> QED BY <1>2, FS_CardinalityType

LEMMA EntryType ==
  ASSUME TypeOK, NEW i \in 1 .. Len(entries)
  PROVE  /\ entries[i].player \in Entrants
         /\ entries[i].guess \in 0 .. U16_MAX
<1> DEFINE Entry == [player: Entrants, picks: [Game -> Team], guess: 0 .. U16_MAX]
<1>1. entries \in Seq(Entry)
  BY DEF TypeOK
<1>2. entries[i] \in Entry
  <2> HIDE DEF Entry
  <2> QED BY <1>1
<1> QED BY <1>2

LEMMA RankInitially ==
  ASSUME Init
  PROVE  RankInv
<1>1. Present = {} /\ Folded = {} /\ Cardinality({}) = 0
  BY FS_EmptySet DEF Init, Present, Folded, NoBracket
<1>2. config.state = "Absent" /\ config.winner = {} /\ ~config.tallied
      /\ config.entrant_count = 0 /\ config.refreshed_count = 0
  BY DEF Init, NoConfig
<1>3. entries = <<>> /\ Len(entries) = 0
  BY DEF Init
<1>4. oracle.decided = {} /\ \A g \in Game : oracle.results[g] = UNDECIDED
  BY DEF Init, NoResults
<1>5. EntriesRecorded
  BY <1>1, <1>2, <1>3 DEF EntriesRecorded
<1>6. FoldsCounted
  BY <1>1, <1>2 DEF FoldsCounted
<1>7. FoldedIsFinal
  BY <1>1, <1>4 DEF FoldedIsFinal
<1>8. TallyIsBest
  BY <1>1 DEF TallyIsBest
<1>9. WinnerWhenFinalized /\ WinnerRanksFirst
  BY <1>2 DEF WinnerWhenFinalized, WinnerRanksFirst
<1> QED BY <1>5, <1>6, <1>7, <1>8, <1>9 DEF RankInv

\* What the lamports and the clock do does not matter.
LEMMA RankUntouched ==
  ASSUME RankInv, UNCHANGED <<config, oracle, bracket, entries>>
  PROVE  RankInv'
<1>1. Present' = Present /\ Folded' = Folded /\ IsComplete' = IsComplete
  BY DEF Present, Folded, IsComplete
<1>2. EntriesRecorded'
  BY <1>1 DEF RankInv, EntriesRecorded
<1>3. FoldsCounted'
  BY <1>1 DEF RankInv, FoldsCounted
<1>4. FoldedIsFinal'
  BY <1>1 DEF RankInv, FoldedIsFinal
<1>5. TallyIsBest'
  BY <1>1 DEF RankInv, TallyIsBest, KeyOf
<1>6. WinnerWhenFinalized'
  BY DEF RankInv, WinnerWhenFinalized
<1>7. WinnerRanksFirst'
  BY DEF RankInv, WinnerRanksFirst, RanksBefore
<1> QED BY <1>2, <1>3, <1>4, <1>5, <1>6, <1>7 DEF RankInv

LEMMA RankInitConfig ==
  ASSUME TypeOK, RankInv, NEW w, NEW lock_ts, InitConfig(w, lock_ts)
  PROVE  RankInv'
<1>1. /\ config.state = "Absent" /\ config'.state = "Registration"
      /\ config'.entrant_count = 0 /\ config'.refreshed_count = 0
      /\ ~config'.tallied /\ config'.winner = {}
      /\ UNCHANGED <<oracle, bracket, entries>>
  BY DEF InitConfig, NoConfig
<1>2. /\ Present' = Present /\ Folded' = Folded
      /\ IsComplete' = IsComplete
  BY <1>1 DEF Present, Folded, IsComplete
<1>3. Folded = {} /\ entries = <<>> /\ Cardinality({}) = 0
  BY <1>1, FS_EmptySet DEF RankInv, FoldedIsFinal, EntriesRecorded
<1>4. Present = {}
  BY <1>1, <1>3 DEF RankInv, EntriesRecorded
<1>5. EntriesRecorded'
  BY <1>1, <1>2, <1>3, <1>4 DEF EntriesRecorded
<1>6. FoldsCounted'
  BY <1>1, <1>2, <1>3, <1>4 DEF FoldsCounted
<1>7. FoldedIsFinal' /\ TallyIsBest'
  BY <1>1, <1>2, <1>3 DEF RankInv, FoldedIsFinal, TallyIsBest
<1>8. WinnerWhenFinalized' /\ WinnerRanksFirst'
  BY <1>1 DEF WinnerWhenFinalized, WinnerRanksFirst
<1> QED BY <1>5, <1>6, <1>7, <1>8 DEF RankInv

LEMMA RankSubmitBracket ==
  ASSUME TypeOK, RankInv, NEW e \in Entrants, NEW entry \in Entries,
         SubmitBracket(e, entry)
  PROVE  RankInv'
<1> DEFINE opened == [present |-> TRUE, picks |-> entry.picks,
                      guess |-> entry.guess, index |-> config.entrant_count,
                      score |-> 0, folded |-> FALSE]
           made == [player |-> e, picks |-> entry.picks, guess |-> entry.guess]
           n == Len(entries)
<1>1. /\ config.state = "Registration"
      /\ ~bracket[e].present
      /\ bracket' = [bracket EXCEPT ![e] = opened]
      /\ config' = [config EXCEPT !.entrant_count = @ + 1]
      /\ entries' = Append(entries, made)
      /\ UNCHANGED oracle
  BY DEF SubmitBracket, RegistrationOpen
<1>2. /\ config'.state = "Registration" /\ config'.winner = config.winner
      /\ config'.entrant_count = config.entrant_count + 1
      /\ config'.refreshed_count = config.refreshed_count
      /\ config'.tallied = config.tallied
  BY <1>1 DEF TypeOK, ConfigType
<1>3. Folded = {}
  BY <1>1 DEF RankInv, FoldedIsFinal
<1>4. /\ bracket'[e] = opened
      /\ \A f \in Entrants \ {e} : bracket'[f] = bracket[f]
  BY <1>1 DEF TypeOK
<1>5. Folded' = {} /\ Present' = Present \cup {e} /\ e \notin Present
  BY <1>1, <1>3, <1>4 DEF Folded, Present
<1>6. n \in Nat /\ config.entrant_count = n
  BY <1>1 DEF TypeOK, RankInv, EntriesRecorded
<1>7. /\ Len(entries') = n + 1 /\ entries'[n + 1] = made
      /\ \A i \in 1 .. n : entries'[i] = entries[i]
  <2> HIDE DEF made
  <2> QED BY <1>1 DEF TypeOK
<1>8. \A i \in 1 .. n : /\ entries[i].player \in Entrants \ {e}
                        /\ bracket'[entries[i].player] = bracket[entries[i].player]
  <2> SUFFICES ASSUME NEW i \in 1 .. n
               PROVE  entries[i].player \in Entrants \ {e}
    BY <1>4
  <2>1. entries[i].player \in Entrants
    BY EntryType
  <2>2. bracket[entries[i].player].present
    BY <1>1 DEF RankInv, EntriesRecorded
  <2> QED BY <1>1, <2>1, <2>2
<1>9. EntriesRecorded'
  <2>1. \A i \in 1 .. n + 1 :
          LET b == bracket'[entries'[i].player]
          IN  /\ b.present
              /\ b.index = i - 1
              /\ b.picks = entries'[i].picks
              /\ b.guess = entries'[i].guess
    <3> SUFFICES ASSUME NEW i \in 1 .. n + 1
                 PROVE  LET b == bracket'[entries'[i].player]
                        IN  /\ b.present
                            /\ b.index = i - 1
                            /\ b.picks = entries'[i].picks
                            /\ b.guess = entries'[i].guess
      OBVIOUS
    <3>1. CASE i = n + 1
      BY <1>4, <1>6, <1>7, <3>1
    <3>2. CASE i \in 1 .. n
      <4>1. /\ bracket[entries[i].player].present
            /\ bracket[entries[i].player].index = i - 1
            /\ bracket[entries[i].player].picks = entries[i].picks
            /\ bracket[entries[i].player].guess = entries[i].guess
        BY <1>1, <3>2 DEF RankInv, EntriesRecorded
      <4>2. entries'[i] = entries[i]
            /\ bracket'[entries[i].player] = bracket[entries[i].player]
        BY <1>7, <1>8, <3>2
      <4> QED BY <4>1, <4>2
    <3> QED BY <1>6, <3>1, <3>2
  <2>2. \A f \in Present' : /\ bracket'[f].index + 1 \in 1 .. n + 1
                             /\ entries'[bracket'[f].index + 1].player = f
    <3> SUFFICES ASSUME NEW f \in Present'
                 PROVE  /\ bracket'[f].index + 1 \in 1 .. n + 1
                        /\ entries'[bracket'[f].index + 1].player = f
      OBVIOUS
    <3>1. CASE f = e
      BY <1>4, <1>6, <1>7, <3>1
    <3>2. CASE f # e
      <4>1. f \in Present /\ bracket'[f] = bracket[f]
        BY <1>4, <1>5, <3>2 DEF Present
      <4>2. /\ bracket[f].index + 1 \in 1 .. n
            /\ entries[bracket[f].index + 1].player = f
        BY <1>1, <4>1 DEF RankInv, EntriesRecorded
      <4> QED BY <1>6, <1>7, <4>1, <4>2
    <3> QED BY <3>1, <3>2
  <2> HIDE DEF opened, made
  <2> QED BY <1>2, <1>6, <1>7, <2>1, <2>2 DEF EntriesRecorded
<1>10. FoldsCounted'
  <2>1. Cardinality(Present \cup {e}) = Cardinality(Present) + 1
    BY <1>5, BracketsFinite, FS_AddElement
  <2>2. /\ config.entrant_count = Cardinality(Present)
        /\ config.refreshed_count = Cardinality(Folded)
        /\ config.tallied <=> Folded # {}
    BY <1>1 DEF RankInv, FoldsCounted
  <2> QED BY <1>2, <1>3, <1>5, <2>1, <2>2 DEF FoldsCounted
<1>11. FoldedIsFinal' /\ TallyIsBest'
  BY <1>1, <1>5 DEF RankInv, FoldedIsFinal, TallyIsBest
<1>12. WinnerWhenFinalized' /\ WinnerRanksFirst'
  BY <1>1, <1>2 DEF RankInv, WinnerWhenFinalized, WinnerRanksFirst
<1> QED BY <1>9, <1>10, <1>11, <1>12 DEF RankInv

LEMMA RankLock ==
  ASSUME TypeOK, RankInv, NEW w, Lock(w)
  PROVE  RankInv'
<1>1. /\ config.state = "Registration"
      /\ config' = [config EXCEPT !.state = "Locked"]
      /\ UNCHANGED <<oracle, bracket, entries>>
  BY DEF Lock
<1>2. /\ config'.state = "Locked" /\ config'.winner = config.winner
      /\ config'.entrant_count = config.entrant_count
      /\ config'.refreshed_count = config.refreshed_count
      /\ config'.tallied = config.tallied
  BY <1>1 DEF TypeOK, ConfigType
<1>3. Present' = Present /\ Folded' = Folded
  BY <1>1 DEF Present, Folded
<1>4. Folded = {}
  BY <1>1 DEF RankInv, FoldedIsFinal
<1>5. EntriesRecorded'
  BY <1>1, <1>2, <1>3 DEF RankInv, EntriesRecorded
<1>6. FoldsCounted'
  BY <1>1, <1>2, <1>3 DEF RankInv, FoldsCounted
<1>7. FoldedIsFinal' /\ TallyIsBest'
  BY <1>1, <1>3, <1>4 DEF RankInv, FoldedIsFinal, TallyIsBest
<1>8. WinnerWhenFinalized' /\ WinnerRanksFirst'
  BY <1>1, <1>2 DEF RankInv, WinnerWhenFinalized, WinnerRanksFirst
<1> QED BY <1>5, <1>6, <1>7, <1>8 DEF RankInv

\* Posting happens only while nothing is folded: a complete oracle has no game
\* left to post, and its goals are posted.
LEMMA RankPosting ==
  ASSUME TypeOK, RankInv, config.state = "Locked", ~IsComplete,
         UNCHANGED <<config, bracket, entries>>,
         oracle'.decided = {g \in Game : oracle'.results[g] # UNDECIDED}
  PROVE  RankInv'
<1>1. Folded = {}
  BY DEF RankInv, FoldedIsFinal
<1>2. Present' = Present /\ Folded' = Folded
  BY DEF Present, Folded
<1>3. EntriesRecorded' /\ FoldsCounted'
  BY <1>2 DEF RankInv, EntriesRecorded, FoldsCounted
<1>4. FoldedIsFinal' /\ TallyIsBest'
  BY <1>1, <1>2 DEF FoldedIsFinal, TallyIsBest
<1>5. WinnerWhenFinalized' /\ WinnerRanksFirst'
  BY DEF RankInv, WinnerWhenFinalized, WinnerRanksFirst
<1> QED BY <1>3, <1>4, <1>5 DEF RankInv

LEMMA RankPostResult ==
  ASSUME TypeOK, RankInv, NEW w, NEW game, NEW winner, PostResult(w, game, winner)
  PROVE  RankInv'
<1>1. /\ config.state = "Locked" /\ game \in Game /\ winner \in Team
      /\ oracle.results[game] = UNDECIDED
      /\ oracle' = [oracle EXCEPT !.results[game] = winner,
                                  !.decided = @ \cup {game}]
      /\ UNCHANGED <<config, bracket, entries>>
  BY DEF PostResult, Undecided, ValidResult
<1>2. oracle.decided = {g \in Game : oracle.results[g] # UNDECIDED}
  BY DEF RankInv, FoldedIsFinal
<1>3. ~IsComplete
  BY <1>1, <1>2 DEF IsComplete
<1>4. winner # UNDECIDED
  BY <1>1, TournamentAssumption DEF Team, UNDECIDED
<1>5. /\ oracle'.decided = oracle.decided \cup {game}
      /\ oracle'.results = [oracle.results EXCEPT ![game] = winner]
      /\ oracle.results \in [Game -> Team \cup {UNDECIDED}]
  BY <1>1 DEF TypeOK, OracleType
<1>6. oracle'.decided = {g \in Game : oracle'.results[g] # UNDECIDED}
  BY <1>1, <1>2, <1>4, <1>5
<1> QED BY <1>1, <1>3, <1>6, RankPosting

LEMMA RankPostGoals ==
  ASSUME TypeOK, RankInv, NEW w, NEW total, PostGoals(w, total)
  PROVE  RankInv'
<1>1. /\ config.state = "Locked" /\ ~oracle.goals_posted
      /\ oracle' = [oracle EXCEPT !.total_goals = total, !.goals_posted = TRUE]
      /\ UNCHANGED <<config, bracket, entries>>
  BY DEF PostGoals
<1>2. ~IsComplete
  BY <1>1 DEF IsComplete
<1>3. oracle'.decided = oracle.decided /\ oracle'.results = oracle.results
  BY <1>1 DEF TypeOK, OracleType
<1>4. oracle'.decided = {g \in Game : oracle'.results[g] # UNDECIDED}
  BY <1>3 DEF RankInv, FoldedIsFinal
<1> QED BY <1>1, <1>2, <1>4, RankPosting

LEMMA RankRefreshScore ==
  ASSUME TypeOK, RankInv, NEW e \in Entrants, RefreshScore(e)
  PROVE  RankInv'
<1>1. /\ config.state = "Locked" /\ IsComplete
      /\ bracket[e].present /\ ~bracket[e].folded
      /\ UNCHANGED <<oracle, entries>>
  BY DEF RefreshScore, Unfolded
<1>2. /\ config' = [config EXCEPT !.tallied = TRUE, !.best = Improved(e),
                                  !.refreshed_count = Counted + 1]
      /\ bracket' = [bracket EXCEPT ![e].score = KeyOf(e).score,
                                    ![e].folded = TRUE]
  BY RefreshScoreEffect
<1>3. /\ config'.state = "Locked" /\ config'.winner = config.winner
      /\ config'.entrant_count = config.entrant_count
      /\ config'.refreshed_count = Counted + 1
      /\ config'.tallied /\ config'.best = Improved(e)
  BY <1>1, <1>2 DEF TypeOK, ConfigType
<1>4. /\ bracket'[e].folded /\ bracket'[e].score = KeyOf(e).score
      /\ \A f \in Entrants \ {e} : bracket'[f] = bracket[f]
      /\ \A f \in Entrants : /\ bracket'[f].present = bracket[f].present
                              /\ bracket'[f].picks = bracket[f].picks
                              /\ bracket'[f].guess = bracket[f].guess
                              /\ bracket'[f].index = bracket[f].index
  BY <1>2 DEF TypeOK, BracketType
<1>5. Present' = Present /\ Folded' = Folded \cup {e} /\ e \notin Folded
  BY <1>1, <1>4 DEF Present, Folded
<1>6. \A f \in Entrants : KeyOf(f)' = KeyOf(f)
  BY <1>1, <1>4 DEF KeyOf
<1>7. Counted = Cardinality(Folded)
  <2>1. /\ config.refreshed_count = Cardinality(Folded)
        /\ config.tallied <=> Folded # {}
    BY <1>1 DEF RankInv, FoldsCounted
  <2>2. Cardinality({}) = 0
    BY FS_EmptySet
  <2> QED BY <2>1, <2>2 DEF Counted
<1>8. EntriesRecorded'
  <2>1. \A i \in 1 .. Len(entries) : entries[i].player \in Entrants
    BY EntryType
  <2>2. /\ config.entrant_count = Len(entries)
        /\ \A i \in 1 .. Len(entries) :
             /\ bracket[entries[i].player].present
             /\ bracket[entries[i].player].index = i - 1
             /\ bracket[entries[i].player].picks = entries[i].picks
             /\ bracket[entries[i].player].guess = entries[i].guess
        /\ \A f \in Present : /\ bracket[f].index + 1 \in 1 .. Len(entries)
                              /\ entries[bracket[f].index + 1].player = f
    BY <1>1 DEF RankInv, EntriesRecorded
  <2>3. \A f \in Present : f \in Entrants
    BY DEF Present
  <2> QED BY <1>1, <1>3, <1>4, <1>5, <2>1, <2>2, <2>3 DEF EntriesRecorded
<1>9. FoldsCounted'
  <2>1. Cardinality(Folded \cup {e}) = Cardinality(Folded) + 1
    BY <1>5, BracketsFinite, FS_AddElement
  <2>2. config.entrant_count = Cardinality(Present) /\ Folded \subseteq Present
    BY <1>1 DEF RankInv, FoldsCounted
  <2>3. e \in Present
    BY <1>1 DEF Present
  <2> QED BY <1>3, <1>5, <1>7, <2>1, <2>2, <2>3 DEF FoldsCounted
<1>10. FoldedIsFinal'
  <2>1. IsComplete'
    BY <1>1 DEF IsComplete
  <2> QED BY <1>1, <1>3, <2>1 DEF RankInv, FoldedIsFinal
<1>11. TallyIsBest'
  <2>1. Tallied \in Key /\ Improved(e) \in Key /\ KeyOf(e) \in Key
    BY RefreshScoreEffect
  <2>2. ~Better(KeyOf(e), Improved(e))
    BY <2>1, BetterIsIrreflexive DEF Improved
  <2>3. ASSUME NEW f \in Folded PROVE /\ bracket'[f].score = KeyOf(f).score
                                       /\ ~Better(KeyOf(f), Improved(e))
    <3>1. f \in Entrants /\ f # e
      BY <1>5 DEF Folded
    <3>2. bracket[f].score = KeyOf(f).score /\ ~Better(KeyOf(f), config.best)
      BY <1>1 DEF RankInv, TallyIsBest
    <3>3. config.best = Tallied
      BY <1>1 DEF RankInv, FoldsCounted, Tallied
    <3>4. KeyOf(f) \in Key
      BY <3>1, KeyType
    <3>5. ~Better(KeyOf(f), Improved(e))
      BY <2>1, <3>2, <3>3, <3>4, BetterIsTransitive DEF Improved
    <3> QED BY <1>4, <3>1, <3>2, <3>5
  <2>4. \A f \in Folded' : /\ bracket'[f].score = KeyOf(f)'.score
                            /\ ~Better(KeyOf(f)', config'.best)
    <3> SUFFICES ASSUME NEW f \in Folded'
                 PROVE  /\ bracket'[f].score = KeyOf(f)'.score
                        /\ ~Better(KeyOf(f)', config'.best)
      OBVIOUS
    <3>1. f \in Entrants
      BY <1>5 DEF Folded
    <3>2. KeyOf(f)' = KeyOf(f)
      BY <1>6, <3>1
    <3>3. CASE f = e
      BY <1>3, <1>4, <2>2, <3>2, <3>3
    <3>4. CASE f \in Folded
      BY <1>3, <2>3, <3>2, <3>4
    <3> QED BY <1>5, <3>3, <3>4
  <2> QED BY <2>4 DEF TallyIsBest, Better
<1>12. WinnerWhenFinalized' /\ WinnerRanksFirst'
  BY <1>1, <1>3 DEF RankInv, WinnerWhenFinalized, WinnerRanksFirst
<1> QED BY <1>8, <1>9, <1>10, <1>11, <1>12 DEF RankInv

\* The heart of the matter: when every bracket is folded, the one that matches
\* the best key ranks before all others.
LEMMA RankFinalize ==
  ASSUME TypeOK, RankInv, NEW w, NEW e \in Entrants, Finalize(w, e)
  PROVE  RankInv'
<1>1. /\ config.state = "Locked" /\ AllFolded /\ bracket[e].present
      /\ bracket[e].folded
      /\ bracket[e].score = config.best.score
      /\ Closeness(bracket[e].guess, oracle.total_goals) = config.best.closeness
      /\ bracket[e].index = config.best.index
      /\ config' = [config EXCEPT !.state = "Finalized", !.winner = {e}]
      /\ UNCHANGED <<oracle, bracket, entries>>
  BY DEF Finalize, Matches
<1>2. config'.state = "Finalized" /\ config'.winner = {e}
  BY <1>1 DEF TypeOK, ConfigType
<1>3. Folded = Present
  <2>1. /\ Folded \subseteq Present
        /\ Cardinality(Present) = Cardinality(Folded)
    BY <1>1 DEF RankInv, FoldsCounted, AllFolded
  <2> QED BY <2>1, BracketsFinite, FS_Subset
<1>4. e \in Present /\ KeyOf(e) \in Key
  BY <1>1, KeyType DEF Present
<1>5. /\ KeyOf(e).score = config.best.score
      /\ KeyOf(e).closeness = config.best.closeness
      /\ KeyOf(e).index = config.best.index
  BY <1>1, <1>3, <1>4 DEF RankInv, TallyIsBest, KeyOf
<1>6. \A f \in Present : ~Better(KeyOf(f), KeyOf(e))
  BY <1>1, <1>3, <1>5 DEF RankInv, TallyIsBest, Better
<1> DEFINE n == Len(entries)
<1>7. PICK i \in 1 .. n : entries[i].player = e
  <2>1. /\ bracket[e].index + 1 \in 1 .. n
        /\ entries[bracket[e].index + 1].player = e
    BY <1>1, <1>4 DEF RankInv, EntriesRecorded
  <2> HIDE DEF n
  <2> QED BY <2>1
<1>8. \A j \in 1 .. n : /\ entries[j].player \in Present
                        /\ KeyOf(entries[j].player) \in Key
                        /\ KeyOf(entries[j].player) =
                             [score |-> Score(entries[j].picks, oracle.results),
                              closeness |-> Closeness(entries[j].guess,
                                                      oracle.total_goals),
                              index |-> j - 1]
  <2> SUFFICES ASSUME NEW j \in 1 .. n
               PROVE  /\ entries[j].player \in Present
                      /\ KeyOf(entries[j].player) \in Key
                      /\ KeyOf(entries[j].player) =
                           [score |-> Score(entries[j].picks, oracle.results),
                            closeness |-> Closeness(entries[j].guess,
                                                    oracle.total_goals),
                            index |-> j - 1]
    OBVIOUS
  <2>1. entries[j].player \in Entrants
    BY EntryType
  <2>2. /\ bracket[entries[j].player].present
        /\ bracket[entries[j].player].index = j - 1
        /\ bracket[entries[j].player].picks = entries[j].picks
        /\ bracket[entries[j].player].guess = entries[j].guess
    BY <1>1 DEF RankInv, EntriesRecorded
  <2> QED BY <2>1, <2>2, KeyType DEF Present, KeyOf
<1>9. ASSUME NEW j \in 1 .. n, j # i
      PROVE  RanksBefore(i, j)
  <2> DEFINE a == KeyOf(e)
             b == KeyOf(entries[j].player)
  <2>1. a \in Key /\ b \in Key /\ ~Better(b, a)
    BY <1>4, <1>6, <1>8
  <2>2. /\ a.score = Score(entries[i].picks, oracle.results)
        /\ a.closeness = Closeness(entries[i].guess, oracle.total_goals)
        /\ a.index = i - 1
    <3>1. KeyOf(entries[i].player) =
            [score |-> Score(entries[i].picks, oracle.results),
             closeness |-> Closeness(entries[i].guess, oracle.total_goals),
             index |-> i - 1]
      <4> HIDE DEF n
      <4> QED BY <1>7, <1>8
    <3>2. KeyOf(entries[i].player) = a
      BY <1>7
    <3> HIDE DEF a
    <3> QED BY <3>1, <3>2
  <2>3. /\ b.score = Score(entries[j].picks, oracle.results)
        /\ b.closeness = Closeness(entries[j].guess, oracle.total_goals)
        /\ b.index = j - 1
    <3>1. b = [score |-> Score(entries[j].picks, oracle.results),
               closeness |-> Closeness(entries[j].guess, oracle.total_goals),
               index |-> j - 1]
      BY <1>8, <1>9
    <3> HIDE DEF b
    <3> QED BY <3>1
  <2>4. \/ a.score > b.score
        \/ a.score = b.score /\ a.closeness < b.closeness
        \/ a.score = b.score /\ a.closeness = b.closeness /\ i < j
    <3>1. /\ a.score \in Nat /\ b.score \in Nat
          /\ a.closeness \in Nat /\ b.closeness \in Nat
          /\ a.index = i - 1 /\ b.index = j - 1
      BY <2>1, <2>2, <2>3, Constants DEF Key
    <3>2. i \in Nat /\ j \in Nat /\ i # j
      BY <1>7, <1>9
    <3> HIDE DEF a, b, n
    <3> QED BY <2>1, <3>1, <3>2 DEF Better
  <2> HIDE DEF a, b, n
  <2> QED BY <2>2, <2>3, <2>4 DEF RanksBefore
<1>10. WinnerRanksFirst'
  <2>1. DOMAIN entries = 1 .. n
    BY DEF TypeOK
  <2>2. \A j \in DOMAIN entries \ {i} : RanksBefore(i, j)'
    BY <1>1, <1>9, <2>1 DEF RanksBefore
  <2>3. i \in DOMAIN entries /\ config'.winner = {entries[i].player}
    BY <1>2, <1>7, <2>1
  <2>4. entries' = entries
    BY <1>1
  <2>5. /\ entries'[i].player = e
        /\ \A j \in DOMAIN entries' \ {i} : RanksBefore(i, j)'
    BY <1>7, <2>2, <2>4
  <2>6. \A f \in config'.winner : f = e
    BY <1>2
  <2>7. i \in DOMAIN entries'
    BY <2>3, <2>4
  <2> HIDE DEF n
  <2> QED BY <2>5, <2>6, <2>7 DEF WinnerRanksFirst
<1>11. EntriesRecorded' /\ FoldsCounted' /\ TallyIsBest' /\ WinnerWhenFinalized'
  BY <1>2 DEF EntriesRecorded, FoldsCounted, TallyIsBest, WinnerWhenFinalized
<1>12. FoldedIsFinal'
  <2>1. Folded' = Folded /\ IsComplete' = IsComplete
    BY <1>1 DEF Folded, IsComplete
  <2> QED BY <1>1, <1>2, <2>1 DEF RankInv, FoldedIsFinal
<1> QED BY <1>10, <1>11, <1>12 DEF RankInv

LEMMA RankCloseBracket ==
  ASSUME TypeOK, RankInv, NEW e \in Entrants, CloseBracket(e)
  PROVE  RankInv'
<1>1. /\ config.state = "Finalized"
      /\ bracket' = [bracket EXCEPT ![e] = NoBracket]
      /\ UNCHANGED <<config, oracle, entries>>
  BY DEF CloseBracket
<1>2. Folded' \subseteq Folded /\ IsComplete' = IsComplete
  BY <1>1 DEF TypeOK, Folded, NoBracket, IsComplete
<1>3. EntriesRecorded' /\ FoldsCounted' /\ TallyIsBest' /\ WinnerWhenFinalized'
  BY <1>1 DEF EntriesRecorded, FoldsCounted, TallyIsBest, WinnerWhenFinalized
<1>4. FoldedIsFinal'
  BY <1>1, <1>2 DEF RankInv, FoldedIsFinal
<1>5. WinnerRanksFirst'
  BY <1>1 DEF RankInv, WinnerRanksFirst, RanksBefore
<1> QED BY <1>3, <1>4, <1>5 DEF RankInv

LEMMA RankStep == TypeOK /\ RankInv /\ [Next]_vars => RankInv'
<1> SUFFICES ASSUME TypeOK, RankInv, [Next]_vars PROVE RankInv'
  OBVIOUS
<1>1. ASSUME NEW w \in Admins, NEW lock_ts \in LockTimes, InitConfig(w, lock_ts)
      PROVE  RankInv'
  BY <1>1, RankInitConfig
<1>2. ASSUME NEW e \in Entrants, NEW entry \in Entries, SubmitBracket(e, entry)
      PROVE  RankInv'
  BY <1>2, RankSubmitBracket
<1>3. ASSUME NEW w \in Wallets, Lock(w) PROVE RankInv'
  BY <1>3, RankLock
<1>4. ASSUME NEW w \in Wallets, NEW o \in Outcomes, PostResult(w, o.game, o.winner)
      PROVE  RankInv'
  BY <1>4, RankPostResult
<1>5. ASSUME NEW w \in Wallets, NEW total \in GoalTotals, PostGoals(w, total)
      PROVE  RankInv'
  BY <1>5, RankPostGoals
<1>6. ASSUME NEW e \in Entrants, RefreshScore(e) PROVE RankInv'
  BY <1>6, RankRefreshScore
<1>7. ASSUME NEW w \in Wallets, NEW e \in Entrants, Finalize(w, e)
      PROVE  RankInv'
  BY <1>7, RankFinalize
<1>8. ASSUME NEW e \in Entrants, CloseBracket(e) PROVE RankInv'
  BY <1>8, RankCloseBracket
<1>9. ASSUME UNCHANGED <<config, oracle, bracket, entries>> PROVE RankInv'
  BY <1>9, RankUntouched
<1> QED BY <1>1, <1>2, <1>3, <1>4, <1>5, <1>6, <1>7, <1>8, <1>9
           DEF Next, vars, Claim, Tick, GiveVault, GiveBracket

\* The recorded winner made the entry that ranks first among all entries, for
\* any number of entrants, whoever folded the brackets in whatever order.
THEOREM WinnerAlwaysRanksFirst == Spec => []WinnerRanksFirst
<1>1. Init => TypeOK /\ RankInv
  BY TypeInitially, RankInitially
<1>2. TypeOK /\ RankInv /\ [Next]_vars => (TypeOK /\ RankInv)'
  BY TypeStep, RankStep
<1>3. TypeOK /\ RankInv => WinnerRanksFirst
  BY DEF RankInv
<1> QED BY <1>1, <1>2, <1>3, PTL DEF Spec

(***************************************************************************)
(* Results: what is posted could have been played.                         *)
(***************************************************************************)

\* The number of leaves is one of three, which makes the tree's arithmetic linear.
LEMMA Tree ==
  /\ LEAVES \in {4, 8, 16}
  /\ GAME_COUNT = 2 * LEAVES /\ FINAL = 2 * LEAVES - 2
  /\ THIRD_PLACE_GAME = 2 * LEAVES - 1
  /\ Game = 0 .. 2 * LEAVES - 1 /\ Leaf = 0 .. LEAVES - 1
  /\ Knockout = LEAVES .. 2 * LEAVES - 2
  /\ SF[1] = 2 * LEAVES - 4 /\ SF[2] = 2 * LEAVES - 3
  /\ SemiFeeders = 2 * LEAVES - 8 .. 2 * LEAVES - 5
BY TournamentAssumption
   DEF GAME_COUNT, FINAL, THIRD_PLACE_GAME, Game, Leaf, Knockout, SF, SemiFeeders

\* A game is a leaf, a knockout game or the playoff, and only one of them.
LEMMA KindsOfGame ==
  ASSUME NEW g \in Game
  PROVE  /\ g \in Int
         /\ \/ g \in Leaf /\ g \notin Knockout /\ g # THIRD_PLACE_GAME
            \/ g \in Knockout /\ g \notin Leaf /\ g # THIRD_PLACE_GAME
            \/ g = THIRD_PLACE_GAME /\ g \notin Leaf /\ g \notin Knockout
BY Tree

LEMMA LeafRules ==
  ASSUME NEW g \in Game, g \in Leaf, NEW r
  PROVE  Needs(g) = {} /\ Contestants(r, g) = {2 * g, 2 * g + 1}
BY KindsOfGame DEF Needs, Contestants, Slots

LEMMA KnockoutRules ==
  ASSUME NEW g \in Game, g \in Knockout, NEW r
  PROVE  /\ Needs(g) = {2 * (g - LEAVES), 2 * (g - LEAVES) + 1}
         /\ Contestants(r, g) = {r[2 * (g - LEAVES)], r[2 * (g - LEAVES) + 1]}
         /\ 2 * (g - LEAVES) \in Game /\ 2 * (g - LEAVES) + 1 \in Game
         /\ 2 * (g - LEAVES) + 1 < g
<1>1. g \notin Leaf /\ g # THIRD_PLACE_GAME
  BY KindsOfGame
<1>2. Needs(g) = {2 * (g - LEAVES), 2 * (g - LEAVES) + 1}
  BY <1>1 DEF Needs, Feeders
<1>3. Contestants(r, g) = {r[c] : c \in Feeders(g)}
  BY <1>1 DEF Contestants
<1>4. Contestants(r, g) = {r[2 * (g - LEAVES)], r[2 * (g - LEAVES) + 1]}
  BY <1>3 DEF Feeders
<1>5. /\ 2 * (g - LEAVES) \in Game /\ 2 * (g - LEAVES) + 1 \in Game
      /\ 2 * (g - LEAVES) + 1 < g
  BY Tree
<1> QED BY <1>2, <1>4, <1>5

\* The playoff is between two of the four teams that won the semifinals' feeders.
LEMMA PlayoffRules ==
  ASSUME NEW r
  PROVE  LET T == THIRD_PLACE_GAME
             m == 2 * LEAVES - 8
         IN  /\ T \in Game
             /\ Needs(T) = m .. m + 5
             /\ \A f \in Needs(T) : f \in Game /\ f < T
             /\ Contestants(r, T) =
                  {IF r[m + 4] = r[m] THEN r[m + 1] ELSE r[m],
                   IF r[m + 5] = r[m + 2] THEN r[m + 3] ELSE r[m + 2]}
<1> DEFINE T == THIRD_PLACE_GAME
           m == 2 * LEAVES - 8
<1>1. T \in Game /\ T \notin Leaf /\ T \notin Knockout
  BY Tree
<1>2. Needs(T) = SemiFeeders \cup {SF[1], SF[2]}
  BY <1>1 DEF Needs
<1>3. Needs(T) = m .. m + 5
  BY <1>2, Tree
<1>4. \A f \in Needs(T) : f \in Game /\ f < T
  BY <1>3, Tree
<1>5. /\ 2 * (SF[1] - LEAVES) = m /\ 2 * (SF[1] - LEAVES) + 1 = m + 1
      /\ 2 * (SF[2] - LEAVES) = m + 2 /\ 2 * (SF[2] - LEAVES) + 1 = m + 3
      /\ SF[1] = m + 4 /\ SF[2] = m + 5
  BY Tree
<1>6. Contestants(r, T) = {Loser(r, SF[1]), Loser(r, SF[2])}
  BY <1>1 DEF Contestants, ThirdPlaceSlots
<1>7. /\ Loser(r, SF[1]) = IF r[m + 4] = r[m] THEN r[m + 1] ELSE r[m]
      /\ Loser(r, SF[2]) = IF r[m + 5] = r[m + 2] THEN r[m + 3] ELSE r[m + 2]
  BY <1>5 DEF Loser
<1> QED BY <1>1, <1>3, <1>4, <1>6, <1>7

\* Who can win a game depends on the games it needs only, all of them before it.
LEMMA NeedsBelow ==
  ASSUME NEW g \in Game, NEW f \in Needs(g)
  PROVE  f \in Game /\ f < g
<1>1. CASE g \in Leaf
  BY <1>1, LeafRules
<1>2. CASE g \in Knockout
  BY <1>2, KnockoutRules, Tree
<1>3. CASE g = THIRD_PLACE_GAME
  BY <1>3, PlayoffRules
<1> QED BY <1>1, <1>2, <1>3, KindsOfGame

LEMMA ContestantsKept ==
  ASSUME NEW g \in Game, NEW r, NEW s, \A f \in Needs(g) : s[f] = r[f]
  PROVE  Contestants(s, g) = Contestants(r, g)
<1>1. CASE g \in Leaf
  BY <1>1, LeafRules
<1>2. CASE g \in Knockout
  BY <1>2, KnockoutRules
<1>3. CASE g = THIRD_PLACE_GAME
  <2> DEFINE m == 2 * LEAVES - 8
  <2>1. m \in Int /\ Needs(g) = m .. m + 5
    BY <1>3, PlayoffRules, Tree
  <2>2. /\ m \in Needs(g) /\ m + 1 \in Needs(g) /\ m + 2 \in Needs(g)
        /\ m + 3 \in Needs(g) /\ m + 4 \in Needs(g) /\ m + 5 \in Needs(g)
    <3> HIDE DEF m
    <3> QED BY <2>1
  <2>3. /\ s[m] = r[m] /\ s[m + 1] = r[m + 1] /\ s[m + 2] = r[m + 2]
        /\ s[m + 3] = r[m + 3] /\ s[m + 4] = r[m + 4] /\ s[m + 5] = r[m + 5]
    BY <2>2
  <2> QED BY <1>3, <2>3, PlayoffRules
<1> QED BY <1>1, <1>2, <1>3, KindsOfGame

\* Two games of one knockout round: round by round there are half as many.
SameRound(g, h) ==
  \E n \in {1, 2, 4, 8, 16} :
    {g, h} \subseteq GAME_COUNT - 2 * n .. GAME_COUNT - n - 1

LEMMA RoundRules ==
  ASSUME NEW g \in Game, NEW h \in Game, SameRound(g, h)
  PROVE  \/ g \in Leaf /\ h \in Leaf
         \/ /\ g \in Knockout /\ h \in Knockout
            /\ \A c \in {2 * (g - LEAVES), 2 * (g - LEAVES) + 1},
                  d \in {2 * (h - LEAVES), 2 * (h - LEAVES) + 1} : SameRound(c, d)
BY Tree DEF SameRound

LEMMA FeedersAreRivals ==
  /\ \A g \in Knockout : SameRound(2 * (g - LEAVES), 2 * (g - LEAVES) + 1)
  /\ \A c, d \in 2 * LEAVES - 8 .. 2 * LEAVES - 5 : SameRound(c, d)
BY Tree DEF SameRound

(***************************************************************************)
(* The inductive invariant behind ResultsPlayable and OracleNeverStuck.    *)
(***************************************************************************)

DecidedPosted == oracle.decided = {g \in Game : oracle.results[g] # UNDECIDED}

\* A result was posted after those it needs, for a team that could win.
PostedInOrder ==
  \A g \in oracle.decided :
    /\ Needs(g) \subseteq oracle.decided
    /\ oracle.results[g] \in Contestants(oracle.results, g)

\* No team wins two games of a round.
WinnersDiffer ==
  \A g, h \in oracle.decided :
    g # h /\ SameRound(g, h) => oracle.results[g] # oracle.results[h]

ResultInv == DecidedPosted /\ PostedInOrder /\ WinnersDiffer

LEMMA ResultInitially == Init => ResultInv
<1> SUFFICES ASSUME Init PROVE ResultInv
  OBVIOUS
<1>1. oracle.decided = {} /\ \A g \in Game : oracle.results[g] = UNDECIDED
  BY DEF Init, NoResults
<1> QED BY <1>1 DEF ResultInv, DecidedPosted, PostedInOrder, WinnersDiffer

\* The two feeders of a decided game are decided, and have different winners.
LEMMA FeedersDecided ==
  ASSUME ResultInv, NEW g \in oracle.decided, g \in Knockout
  PROVE  \A c \in {2 * (g - LEAVES), 2 * (g - LEAVES) + 1} : c \in oracle.decided
<1>1. g \in Game
  BY DEF ResultInv, DecidedPosted
<1> QED BY <1>1, KnockoutRules DEF ResultInv, PostedInOrder

LEMMA PostResultEffect ==
  ASSUME TypeOK, ResultInv, NEW w, NEW game, NEW winner, PostResult(w, game, winner)
  PROVE  /\ config.state = "Locked"
         /\ game \in Game /\ winner \in Team /\ winner # UNDECIDED
         /\ game \notin oracle.decided
         /\ oracle'.decided = oracle.decided \cup {game}
         /\ oracle'.results[game] = winner
         /\ \A f \in Game \ {game} : oracle'.results[f] = oracle.results[f]
         /\ Needs(game) \subseteq oracle.decided
         /\ winner \in Contestants(oracle.results, game)
         /\ oracle'.goals_posted = oracle.goals_posted
         /\ oracle'.total_goals = oracle.total_goals
         /\ UNCHANGED <<config, bracket, entries>>
<1>1. /\ config.state = "Locked" /\ game \in Game /\ winner \in Team
      /\ oracle.results[game] = UNDECIDED
      /\ \A f \in Needs(game) : oracle.results[f] # UNDECIDED
      /\ winner \in Contestants(oracle.results, game)
      /\ oracle' = [oracle EXCEPT !.results[game] = winner,
                                  !.decided = @ \cup {game}]
      /\ UNCHANGED <<config, bracket, entries>>
  BY DEF PostResult, Undecided, ValidResult
<1>2. /\ oracle'.decided = oracle.decided \cup {game}
      /\ oracle'.results = [oracle.results EXCEPT ![game] = winner]
      /\ oracle.results \in [Game -> Team \cup {UNDECIDED}]
      /\ oracle'.goals_posted = oracle.goals_posted
      /\ oracle'.total_goals = oracle.total_goals
  BY <1>1 DEF TypeOK, OracleType
<1>3. winner # UNDECIDED
  BY <1>1, TournamentAssumption DEF Team, UNDECIDED
<1>4. game \notin oracle.decided /\ Needs(game) \subseteq oracle.decided
  BY <1>1, NeedsBelow DEF ResultInv, DecidedPosted
<1> QED BY <1>1, <1>2, <1>3, <1>4

LEMMA ResultPostResult ==
  ASSUME TypeOK, ResultInv, NEW w, NEW game, NEW winner, PostResult(w, game, winner)
  PROVE  ResultInv'
<1>1. /\ game \in Game /\ winner # UNDECIDED /\ game \notin oracle.decided
      /\ oracle'.decided = oracle.decided \cup {game}
      /\ oracle'.results[game] = winner
      /\ \A f \in Game \ {game} : oracle'.results[f] = oracle.results[f]
      /\ Needs(game) \subseteq oracle.decided
      /\ winner \in Contestants(oracle.results, game)
  BY PostResultEffect
<1>2. oracle.decided \subseteq Game
  BY DEF ResultInv, DecidedPosted
<1>3. DecidedPosted'
  BY <1>1 DEF ResultInv, DecidedPosted
<1>4. ASSUME NEW g \in oracle'.decided
      PROVE  /\ Needs(g) \subseteq oracle.decided
             /\ oracle'.results[g] \in Contestants(oracle.results, g)
             /\ Contestants(oracle'.results, g) = Contestants(oracle.results, g)
  <2>1. g \in Game
    BY <1>1, <1>2
  <2>2. Needs(g) \subseteq oracle.decided
    BY <1>1 DEF ResultInv, PostedInOrder
  <2>3. \A f \in Needs(g) : oracle'.results[f] = oracle.results[f]
    BY <1>1, <1>2, <2>2
  <2>4. oracle'.results[g] \in Contestants(oracle.results, g)
    BY <1>1, <1>2 DEF ResultInv, PostedInOrder
  <2> QED BY <2>1, <2>2, <2>3, <2>4, ContestantsKept
<1>5. PostedInOrder'
  BY <1>1, <1>4 DEF PostedInOrder
<1>6. ASSUME NEW h \in oracle.decided, SameRound(game, h)
      PROVE  winner # oracle.results[h]
  <2>1. h \in Game /\ h # game
    BY <1>1, <1>2
  <2>2. oracle.results[h] \in Contestants(oracle.results, h)
    BY DEF ResultInv, PostedInOrder
  <2>3. CASE game \in Leaf /\ h \in Leaf
    <3>1. /\ Contestants(oracle.results, game) = {2 * game, 2 * game + 1}
          /\ Contestants(oracle.results, h) = {2 * h, 2 * h + 1}
      BY <1>1, <2>1, <2>3, LeafRules
    <3>2. game \in Int /\ h \in Int
      BY <1>1, <2>1, KindsOfGame
    <3> QED BY <1>1, <2>1, <2>2, <3>1, <3>2
  <2>4. CASE /\ game \in Knockout /\ h \in Knockout
             /\ \A c \in {2 * (game - LEAVES), 2 * (game - LEAVES) + 1},
                   d \in {2 * (h - LEAVES), 2 * (h - LEAVES) + 1} : SameRound(c, d)
    <3>1. PICK c \in {2 * (game - LEAVES), 2 * (game - LEAVES) + 1} :
                 winner = oracle.results[c]
      BY <1>1, <2>4, KnockoutRules
    <3>2. PICK d \in {2 * (h - LEAVES), 2 * (h - LEAVES) + 1} :
                 oracle.results[h] = oracle.results[d]
      BY <2>1, <2>2, <2>4, KnockoutRules
    <3>3. c \in oracle.decided /\ d \in oracle.decided
      <4>1. c \in oracle.decided
        BY <1>1, <2>4, KnockoutRules
      <4>2. d \in oracle.decided
        BY <2>4, FeedersDecided
      <4> QED BY <4>1, <4>2
    <3>4. c # d
      <4>1. game \in Int /\ h \in Int /\ LEAVES \in Int /\ game # h
        BY <2>1, <1>1, KindsOfGame, Tree
      <4> QED BY <4>1
    <3>5. SameRound(c, d)
      BY <2>4
    <3> QED BY <3>1, <3>2, <3>3, <3>4, <3>5 DEF ResultInv, WinnersDiffer
  <2> QED BY <1>1, <1>6, <2>1, <2>3, <2>4, RoundRules
<1>7. WinnersDiffer'
  <2> SUFFICES ASSUME NEW g \in oracle'.decided, NEW h \in oracle'.decided,
                      g # h, SameRound(g, h)
               PROVE  oracle'.results[g] # oracle'.results[h]
    BY DEF WinnersDiffer
  <2>1. SameRound(h, g)
    BY DEF SameRound
  <2>2. CASE g = game
    BY <1>1, <1>2, <1>6, <2>2
  <2>3. CASE h = game
    BY <1>1, <1>2, <1>6, <2>1, <2>3
  <2>4. CASE g # game /\ h # game
    BY <1>1, <1>2, <2>4 DEF ResultInv, WinnersDiffer
  <2> QED BY <2>2, <2>3, <2>4
<1> QED BY <1>3, <1>5, <1>7 DEF ResultInv

LEMMA ResultStep == TypeOK /\ ResultInv /\ [Next]_vars => ResultInv'
<1> SUFFICES ASSUME TypeOK, ResultInv, [Next]_vars PROVE ResultInv'
  OBVIOUS
<1>1. ASSUME oracle'.decided = oracle.decided, oracle'.results = oracle.results
      PROVE  ResultInv'
  BY <1>1 DEF ResultInv, DecidedPosted, PostedInOrder, WinnersDiffer
<1>2. ASSUME NEW w \in Wallets, NEW o \in Outcomes, PostResult(w, o.game, o.winner)
      PROVE  ResultInv'
  BY <1>2, ResultPostResult
<1>3. ASSUME NEW w \in Wallets, NEW total \in GoalTotals, PostGoals(w, total)
      PROVE  ResultInv'
  <2>1. oracle'.decided = oracle.decided /\ oracle'.results = oracle.results
    BY <1>3 DEF PostGoals, TypeOK, OracleType
  <2> QED BY <1>1, <2>1
<1> QED
  BY <1>1, <1>2, <1>3
     DEF Next, vars, InitConfig, SubmitBracket, Lock, RefreshScore, Finalize, Claim,
         CloseBracket, Tick, GiveVault, GiveBracket

LEMMA ResultAlways == Spec => [](TypeOK /\ ResultInv)
<1>1. Init => TypeOK /\ ResultInv
  BY TypeInitially, ResultInitially
<1>2. TypeOK /\ ResultInv /\ [Next]_vars => TypeOK' /\ ResultInv'
  BY TypeStep, ResultStep
<1> QED BY <1>1, <1>2, PTL DEF Spec

\* Whatever the admin tries to post and in whatever order, what the oracle holds
\* could have been played, and a complete set of results is a valid bracket.
THEOREM ResultsAlwaysPlayable == Spec => []ResultsPlayable
<1>1. TypeOK /\ ResultInv => ResultsPlayable
  <2> SUFFICES ASSUME TypeOK, ResultInv PROVE ResultsPlayable
    OBVIOUS
  <2>1. ASSUME oracle.decided = Game PROVE ValidBracket(oracle.results)
    <3>1. \A g \in Game : oracle.results[g] \in Team
      BY <2>1 DEF TypeOK, OracleType, ResultInv, DecidedPosted
    <3> QED BY <2>1, <3>1 DEF ResultInv, PostedInOrder, ValidBracket
  <2> QED BY <2>1 DEF ResultInv, DecidedPosted, PostedInOrder, ResultsPlayable
<1> QED BY <1>1, ResultAlways, PTL

\* The two contestants of a game whose needs are decided are two teams.
LEMMA TwoContestants ==
  ASSUME TypeOK, ResultInv, NEW g \in Game, Needs(g) \subseteq oracle.decided
  PROVE  \E a, b \in Team : a # b /\ Contestants(oracle.results, g) = {a, b}
<1> DEFINE r == oracle.results
<1>1. \A f \in oracle.decided : f \in Game /\ r[f] \in Team
  BY DEF TypeOK, OracleType, ResultInv, DecidedPosted
<1>2. \A f, h \in oracle.decided : f # h /\ SameRound(f, h) => r[f] # r[h]
  BY DEF ResultInv, WinnersDiffer
<1> HIDE DEF r
<1>3. CASE g \in Leaf
  <2>1. 2 * g \in Team /\ 2 * g + 1 \in Team /\ 2 * g # 2 * g + 1
    BY <1>3, Tree DEF Team
  <2> QED BY <1>3, <2>1, LeafRules DEF r
<1>4. CASE g \in Knockout
  <2> DEFINE c == 2 * (g - LEAVES)
  <2>1. /\ Needs(g) = {c, c + 1} /\ Contestants(r, g) = {r[c], r[c + 1]}
        /\ c \in Int /\ SameRound(c, c + 1)
    BY <1>4, KnockoutRules, FeedersAreRivals, Tree
  <2> HIDE DEF c
  <2>2. c \in oracle.decided /\ c + 1 \in oracle.decided /\ c # c + 1
    BY <2>1
  <2> QED BY <1>1, <1>2, <2>1, <2>2 DEF r
<1>5. CASE g = THIRD_PLACE_GAME
  <2> DEFINE m == 2 * LEAVES - 8
             a == IF r[m + 4] = r[m] THEN r[m + 1] ELSE r[m]
             b == IF r[m + 5] = r[m + 2] THEN r[m + 3] ELSE r[m + 2]
  <2>1. m \in Int /\ Needs(g) = m .. m + 5 /\ Contestants(r, g) = {a, b}
    BY <1>5, PlayoffRules, Tree
  <2>2. \A c, d \in m .. m + 3 : SameRound(c, d)
    BY FeedersAreRivals, Tree
  <2> HIDE DEF m
  <2>3. \A c \in m .. m + 5 : c \in oracle.decided
    BY <2>1
  <2>4. /\ m \in oracle.decided /\ m + 1 \in oracle.decided
        /\ m + 2 \in oracle.decided /\ m + 3 \in oracle.decided
    BY <2>1, <2>3
  <2>5. /\ r[m] # r[m + 2] /\ r[m] # r[m + 3]
        /\ r[m + 1] # r[m + 2] /\ r[m + 1] # r[m + 3]
    <3>1. /\ SameRound(m, m + 2) /\ SameRound(m, m + 3)
          /\ SameRound(m + 1, m + 2) /\ SameRound(m + 1, m + 3)
      BY <2>1, <2>2
    <3>2. m # m + 2 /\ m # m + 3 /\ m + 1 # m + 2 /\ m + 1 # m + 3
      BY <2>1
    <3> QED BY <1>2, <2>4, <3>1, <3>2
  <2>6. a \in Team /\ b \in Team /\ a # b
    BY <1>1, <2>4, <2>5
  <2> HIDE DEF a, b
  <2> QED BY <2>1, <2>6 DEF r
<1> QED BY <1>3, <1>4, <1>5, KindsOfGame

\* As long as a game is open the admin can post some game, for either of exactly two
\* teams: no sequence of accepted results ends in a dead end.
THEOREM OracleIsNeverStuck == Spec => []OracleNeverStuck
<1>1. TypeOK /\ ResultInv => OracleNeverStuck
  <2> SUFFICES ASSUME TypeOK, ResultInv, oracle.decided # Game
               PROVE  \E g \in Game \ oracle.decided :
                        Cardinality({t \in Team : ValidResult(oracle.results, g, t)}) = 2
    BY DEF OracleNeverStuck
  <2> DEFINE open == Game \ oracle.decided
  <2>1. open # {} /\ open \subseteq Int /\ IsFiniteSet(open)
    <3>1. oracle.decided \subseteq Game
      BY DEF ResultInv, DecidedPosted
    <3>2. 0 \in Int /\ 2 * LEAVES - 1 \in Int /\ Game = 0 .. 2 * LEAVES - 1
      BY Tree
    <3>3. IsFiniteSet(0 .. 2 * LEAVES - 1)
      BY <3>2, FS_Interval
    <3>4. open \in SUBSET Game /\ open # {}
      BY <3>1
    <3>5. IsFiniteSet(open)
      BY <3>2, <3>3, <3>4, FS_Subset
    <3>6. open \subseteq Int
      BY <3>2, <3>4
    <3> QED BY <3>4, <3>5, <3>6
  <2>2. PICK g \in open : \A f \in open : g <= f
    <3> HIDE DEF open
    <3> QED BY <2>1, LeastMember
  <2>3. Needs(g) \subseteq oracle.decided
    <3> SUFFICES ASSUME NEW f \in Needs(g), f \notin oracle.decided PROVE FALSE
      OBVIOUS
    <3>1. f \in Game /\ f < g
      BY NeedsBelow
    <3>2. f \in Int /\ g \in Int
      BY <3>1, KindsOfGame
    <3> QED BY <2>2, <3>1, <3>2
  <2>4. PICK a, b \in Team : a # b /\ Contestants(oracle.results, g) = {a, b}
    BY <2>3, TwoContestants
  <2>5. {t \in Team : ValidResult(oracle.results, g, t)} = {a, b}
    BY <2>3, <2>4 DEF ValidResult, ResultInv, DecidedPosted
  <2>6. Cardinality({a, b}) = 2
    <3>1. IsFiniteSet({a}) /\ Cardinality({a}) = 1
      BY FS_Singleton
    <3>2. Cardinality({a} \cup {b}) = 1 + 1
      BY <2>4, <3>1, FS_AddElement
    <3>3. {a} \cup {b} = {a, b}
      OBVIOUS
    <3> QED BY <3>2, <3>3
  <2> QED BY <2>5, <2>6
<1> QED BY <1>1, ResultAlways, PTL

(***************************************************************************)
(* The rules are the same for all.                                         *)
(***************************************************************************)

\* Nothing is known while brackets are taken, and the goals come last.
PostedLate ==
  /\ config.state \in {"Absent", "Registration"} => oracle.decided = {}
  /\ oracle.goals_posted => oracle.decided = Game

FairInv == TypeOK /\ ResultInv /\ RankInv /\ PostedLate

LEMMA PostGoalsEffect ==
  ASSUME TypeOK, NEW w, NEW total, PostGoals(w, total)
  PROVE  /\ config.state = "Locked" /\ ~oracle.goals_posted
         /\ oracle.decided = Game /\ oracle'.decided = oracle.decided
         /\ oracle'.results = oracle.results /\ oracle'.goals_posted
         /\ UNCHANGED <<config, bracket, entries>>
BY DEF PostGoals, TypeOK, OracleType

\* A fold of e touches the score and the mark of the bracket of e only.
LEMMA FoldTouches ==
  ASSUME TypeOK, NEW e \in Entrants, RefreshScore(e)
  PROVE  /\ ~bracket[e].folded
         /\ \A f \in Entrants \ {e} : bracket'[f] = bracket[f]
         /\ \A f \in Entrants : /\ bracket'[f].present = bracket[f].present
                                 /\ bracket'[f].picks = bracket[f].picks
                                 /\ bracket'[f].guess = bracket[f].guess
                                 /\ bracket'[f].index = bracket[f].index
<1>1. bracket' = [bracket EXCEPT ![e].score = KeyOf(e).score, ![e].folded = TRUE]
  BY RefreshScoreEffect
<1> QED BY <1>1 DEF TypeOK, BracketType, RefreshScore, Unfolded

LEMMA LateStep ==
  TypeOK /\ ResultInv /\ RankInv /\ PostedLate /\ [Next]_vars => PostedLate'
<1> SUFFICES ASSUME TypeOK, ResultInv, RankInv, PostedLate, [Next]_vars
             PROVE  PostedLate'
  OBVIOUS
<1> USE DEF PostedLate
<1>1. ASSUME NEW w \in Admins, NEW lock_ts \in LockTimes, InitConfig(w, lock_ts)
      PROVE  PostedLate'
  BY <1>1 DEF InitConfig
<1>2. ASSUME NEW e \in Entrants, NEW entry \in Entries, SubmitBracket(e, entry)
      PROVE  PostedLate'
  BY <1>2 DEF SubmitBracket, RegistrationOpen
<1>3. ASSUME NEW w \in Wallets, Lock(w) PROVE PostedLate'
  BY <1>3 DEF Lock, TypeOK, ConfigType
<1>4. ASSUME NEW w \in Wallets, NEW o \in Outcomes, PostResult(w, o.game, o.winner)
      PROVE  PostedLate'
  BY <1>4, PostResultEffect
<1>5. ASSUME NEW w \in Wallets, NEW total \in GoalTotals, PostGoals(w, total)
      PROVE  PostedLate'
  BY <1>5, PostGoalsEffect
<1>6. ASSUME NEW e \in Entrants, RefreshScore(e) PROVE PostedLate'
  <2>1. config.state = "Locked" /\ UNCHANGED oracle
    BY <1>6 DEF RefreshScore
  <2>2. config' = [config EXCEPT !.tallied = TRUE, !.best = Improved(e),
                                 !.refreshed_count = Counted + 1]
    BY <1>6, RefreshScoreEffect
  <2>3. config'.state = "Locked"
    BY <2>1, <2>2 DEF TypeOK, ConfigType
  <2> QED BY <2>1, <2>3
<1>7. ASSUME NEW w \in Wallets, NEW e \in Entrants, Finalize(w, e)
      PROVE  PostedLate'
  BY <1>7 DEF Finalize, TypeOK, ConfigType
<1>8. ASSUME UNCHANGED <<config, oracle>> PROVE PostedLate'
  BY <1>8
<1> QED BY <1>1, <1>2, <1>3, <1>4, <1>5, <1>6, <1>7, <1>8
           DEF Next, vars, Claim, Tick, GiveVault, GiveBracket, CloseBracket

LEMMA FairAlways == Spec => []FairInv
<1>1. Init => FairInv
  <2>1. Init => PostedLate
    BY DEF Init, NoResults, PostedLate
  <2> QED BY <2>1, TypeInitially, ResultInitially, RankInitially DEF FairInv
<1>2. FairInv /\ [Next]_vars => FairInv'
  BY TypeStep, ResultStep, RankStep, LateStep DEF FairInv
<1> QED BY <1>1, <1>2, PTL DEF Spec

LEMMA FairStep ==
  FairInv /\ [Next]_vars => NoHindsight /\ PostedIsFinal /\ OnlyWinnerPaid
<1> SUFFICES ASSUME FairInv, [Next]_vars
             PROVE  NoHindsight /\ PostedIsFinal /\ OnlyWinnerPaid
  OBVIOUS
<1>0. TypeOK /\ ResultInv /\ RankInv /\ PostedLate
  BY DEF FairInv
<1>0a. config.winner # {} => config.state = "Finalized"
  BY <1>0 DEF RankInv, WinnerWhenFinalized
<1>0b. Present \subseteq Entrants /\ Folded \subseteq Entrants
  BY DEF Present, Folded
<1>a. ASSUME entries' = entries,
             \A e \in Entrants : bracket'[e].present =>
               /\ bracket[e].present => /\ bracket'[e].picks = bracket[e].picks
                                        /\ bracket'[e].guess = bracket[e].guess
                                        /\ bracket'[e].index = bracket[e].index
      PROVE  NoHindsight
  BY <1>a, <1>0b DEF NoHindsight, Present
<1>b. ASSUME UNCHANGED <<config, oracle, bracket>> PROVE PostedIsFinal
  BY <1>b DEF PostedIsFinal
<1>c. ASSUME \A w \in Wallets : ~(wallet'[w] > wallet[w]) PROVE OnlyWinnerPaid
  BY <1>c DEF OnlyWinnerPaid
<1>d. ASSUME UNCHANGED <<entries, bracket>> PROVE NoHindsight
  BY <1>a, <1>d
<1>e. ASSUME UNCHANGED wallet PROVE OnlyWinnerPaid
  BY <1>0, <1>c, <1>e DEF TypeOK
<1>1. ASSUME NEW w \in Admins, NEW lock_ts \in LockTimes, InitConfig(w, lock_ts)
      PROVE  NoHindsight /\ PostedIsFinal /\ OnlyWinnerPaid
  <2> DEFINE cost == SetupRent + TopUp(vault, RentFloor)
  <2>1. /\ config.state = "Absent" /\ UNCHANGED <<oracle, bracket, entries>>
        /\ wallet' = [wallet EXCEPT ![w] = @ - cost]
    BY <1>1 DEF InitConfig
  <2>2. cost \in Nat
    <3>1. vault \in Nat /\ RentFloor \in Nat /\ SetupRent \in Nat
      BY <1>0, Constants DEF TypeOK
    <3>2. TopUp(vault, RentFloor) \in Nat
      BY <3>1, TopUpType
    <3> QED BY <3>1, <3>2
  <2> HIDE DEF cost
  <2>3. \A u \in Wallets : ~(wallet'[u] > wallet[u])
    BY <1>0, <2>1, <2>2, Constants DEF TypeOK
  <2>4. PostedIsFinal
    BY <1>0a, <2>1 DEF PostedIsFinal
  <2> QED BY <1>c, <1>d, <2>1, <2>3, <2>4
<1>2. ASSUME NEW e \in Entrants, NEW entry \in Entries, SubmitBracket(e, entry)
      PROVE  NoHindsight /\ PostedIsFinal /\ OnlyWinnerPaid
  <2> DEFINE topUp == TopUp(bracketLamports[e], BracketRent)
             opened == [present |-> TRUE, picks |-> entry.picks,
                        guess |-> entry.guess, index |-> config.entrant_count,
                        score |-> 0, folded |-> FALSE]
  <2>1. /\ config.state = "Registration" /\ now < config.lock_ts
        /\ ~bracket[e].present /\ ENTRY_FEE >= BracketRent
        /\ UNCHANGED oracle
        /\ bracket' = [bracket EXCEPT ![e] = opened]
        /\ wallet' = [wallet EXCEPT ![e] = @ - (topUp + (ENTRY_FEE - BracketRent))]
    BY <1>2 DEF SubmitBracket, RegistrationOpen, Stake, PotShare
  <2>2. topUp \in Nat
    BY <1>0, Constants, TopUpType DEF TypeOK
  <2> HIDE DEF topUp, opened
  <2>3. \A u \in Wallets : ~(wallet'[u] > wallet[u])
    <3>1. topUp + (ENTRY_FEE - BracketRent) \in Nat
      BY <2>1, <2>2, Constants
    <3> QED BY <1>0, <2>1, <3>1, Constants DEF TypeOK
  <2>4. \A f \in Entrants \ {e} : bracket'[f] = bracket[f]
    BY <1>0, <2>1 DEF TypeOK
  <2>5. NoHindsight
    <3>1. oracle.decided = {}
      BY <1>0, <2>1 DEF PostedLate
    <3>2. \A f \in Present : bracket'[f] = bracket[f]
      BY <2>1, <2>4 DEF Present
    <3> QED BY <2>1, <3>1, <3>2 DEF NoHindsight
  <2>6. PostedIsFinal
    <3>1. Folded = {}
      BY <1>0, <2>1 DEF RankInv, FoldedIsFinal
    <3> QED BY <1>0a, <2>1, <3>1 DEF PostedIsFinal
  <2> QED BY <1>c, <2>3, <2>5, <2>6
<1>3. ASSUME NEW w \in Wallets, Lock(w)
      PROVE  NoHindsight /\ PostedIsFinal /\ OnlyWinnerPaid
  <2>1. config.state = "Registration" /\ UNCHANGED <<oracle, bracket, entries, wallet>>
    BY <1>3 DEF Lock
  <2>2. PostedIsFinal
    BY <1>0a, <2>1 DEF PostedIsFinal
  <2> QED BY <1>d, <1>e, <2>1, <2>2
<1>4. ASSUME NEW w \in Wallets, NEW o \in Outcomes, PostResult(w, o.game, o.winner)
      PROVE  NoHindsight /\ PostedIsFinal /\ OnlyWinnerPaid
  <2>1. /\ o.game \notin oracle.decided /\ o.game \in Game
        /\ \A f \in Game \ {o.game} : oracle'.results[f] = oracle.results[f]
        /\ UNCHANGED <<config, bracket, entries>>
    BY <1>0, <1>4, PostResultEffect
  <2>2. oracle.results[o.game] = UNDECIDED
    BY <1>0, <2>1 DEF ResultInv, DecidedPosted
  <2>3. ~oracle.goals_posted
    BY <1>0, <2>1 DEF PostedLate
  <2>4. PostedIsFinal
    BY <2>1, <2>2, <2>3 DEF PostedIsFinal
  <2>5. UNCHANGED wallet
    BY <1>4 DEF PostResult
  <2> QED BY <1>d, <1>e, <2>1, <2>4, <2>5
<1>5. ASSUME NEW w \in Wallets, NEW total \in GoalTotals, PostGoals(w, total)
      PROVE  NoHindsight /\ PostedIsFinal /\ OnlyWinnerPaid
  <2>1. /\ ~oracle.goals_posted /\ oracle'.results = oracle.results
        /\ UNCHANGED <<config, bracket, entries>>
    BY <1>0, <1>5, PostGoalsEffect
  <2>2. PostedIsFinal
    BY <2>1 DEF PostedIsFinal
  <2>3. UNCHANGED wallet
    BY <1>5 DEF PostGoals
  <2> QED BY <1>d, <1>e, <2>1, <2>2, <2>3
<1>6. ASSUME NEW e \in Entrants, RefreshScore(e)
      PROVE  NoHindsight /\ PostedIsFinal /\ OnlyWinnerPaid
  <2>1. config.state = "Locked" /\ UNCHANGED <<oracle, entries, wallet>>
    BY <1>6 DEF RefreshScore
  <2>2. /\ ~bracket[e].folded
        /\ \A f \in Entrants \ {e} : bracket'[f] = bracket[f]
        /\ \A f \in Entrants : /\ bracket'[f].present = bracket[f].present
                               /\ bracket'[f].picks = bracket[f].picks
                               /\ bracket'[f].guess = bracket[f].guess
                               /\ bracket'[f].index = bracket[f].index
    BY <1>0, <1>6, FoldTouches
  <2>3. NoHindsight
    BY <1>a, <2>1, <2>2
  <2>4. PostedIsFinal
    <3>1. \A f \in Folded : bracket'[f].score = bracket[f].score
      BY <2>2 DEF Folded
    <3> QED BY <1>0a, <2>1, <3>1 DEF PostedIsFinal
  <2> QED BY <1>e, <2>1, <2>3, <2>4
<1>7. ASSUME NEW w \in Wallets, NEW e \in Entrants, Finalize(w, e)
      PROVE  NoHindsight /\ PostedIsFinal /\ OnlyWinnerPaid
  <2>1. config.state = "Locked" /\ UNCHANGED <<oracle, bracket, entries, wallet>>
    BY <1>7 DEF Finalize
  <2>2. PostedIsFinal
    BY <1>0a, <2>1 DEF PostedIsFinal
  <2> QED BY <1>d, <1>e, <2>1, <2>2
<1>8. ASSUME NEW w \in Wallets, Claim(w)
      PROVE  NoHindsight /\ PostedIsFinal /\ OnlyWinnerPaid
  <2>1. /\ config.state = "Finalized" /\ w \in config.winner
        /\ wallet' = [wallet EXCEPT ![w] = @ + Swept]
        /\ UNCHANGED <<config, oracle, bracket, entries>>
    BY <1>8 DEF Claim, IsWinner
  <2>2. \A u \in Wallets \ {w} : wallet'[u] = wallet[u] /\ wallet[u] \in Nat
    BY <1>0, <2>1 DEF TypeOK
  <2>3. OnlyWinnerPaid
    BY <2>1, <2>2 DEF OnlyWinnerPaid
  <2> QED BY <1>b, <1>d, <2>1, <2>3
<1>9. ASSUME NEW e \in Entrants, CloseBracket(e)
      PROVE  NoHindsight /\ PostedIsFinal /\ OnlyWinnerPaid
  <2>1. /\ bracket' = [bracket EXCEPT ![e] = NoBracket]
        /\ UNCHANGED <<config, oracle, entries, wallet>>
    BY <1>9 DEF CloseBracket
  <2>2. /\ ~bracket'[e].present /\ ~bracket'[e].folded
        /\ \A f \in Entrants \ {e} : bracket'[f] = bracket[f]
    BY <1>0, <2>1 DEF TypeOK, NoBracket
  <2>3. NoHindsight
    BY <1>a, <2>1, <2>2
  <2>4. PostedIsFinal
    BY <1>0b, <2>1, <2>2 DEF PostedIsFinal
  <2> QED BY <1>e, <2>1, <2>3, <2>4
<1>10. ASSUME NEW w \in Givers, NEW n \in 1 .. wallet[w],
              UNCHANGED <<config, oracle, bracket, entries>>,
              wallet' = [wallet EXCEPT ![w] = @ - n]
       PROVE  NoHindsight /\ PostedIsFinal /\ OnlyWinnerPaid
  <2>1. w \in Wallets /\ n \in Nat
    BY <1>0, Constants DEF TypeOK
  <2>2. \A u \in Wallets : ~(wallet'[u] > wallet[u])
    BY <1>0, <1>10, <2>1 DEF TypeOK
  <2> QED BY <1>b, <1>c, <1>d, <1>10, <2>2
<1>11. ASSUME UNCHANGED <<config, oracle, bracket, entries, wallet>>
       PROVE  NoHindsight /\ PostedIsFinal /\ OnlyWinnerPaid
  BY <1>b, <1>d, <1>e, <1>11
<1> QED
  BY <1>1, <1>2, <1>3, <1>4, <1>5, <1>6, <1>7, <1>8, <1>9, <1>10, <1>11
     DEF Next, vars, Tick, GiveVault, GiveBracket

\* Nobody enters with hindsight, what was posted or folded stays, and nobody but the
\* winner is ever paid: in no step of any tournament.
THEOREM PlayIsFair == Spec => FairPlay
<1>1. FairInv /\ [Next]_vars => [NoHindsight /\ PostedIsFinal /\ OnlyWinnerPaid]_vars
  BY FairStep
<1> QED BY <1>1, FairAlways, PTL DEF Spec, FairPlay

(***************************************************************************)
(* The tally decides.                                                      *)
(***************************************************************************)

\* The best key is that of a folded bracket, or the initial one before any
\* bracket is folded.
BestIsFolded ==
  config.state # "Finalized" =>
    IF config.tallied THEN \E e \in Folded : config.best = KeyOf(e)
    ELSE config.best = NoBest

TallyInv == TypeOK /\ RankInv /\ BestIsFolded

\* A bracket in the tournament is better than no bracket, whatever its score and
\* its guess: its index is below the largest one.
LEMMA BetterThanNone ==
  ASSUME TypeOK, RankInv, NEW e \in Present, config.state # "Finalized"
  PROVE  Better(KeyOf(e), NoBest)
<1>1. e \in Entrants
  BY DEF Present
<1>2. KeyOf(e) \in Key /\ KeyOf(e).index = bracket[e].index
  BY <1>1, KeyType DEF KeyOf
<1>3. /\ bracket[e].index + 1 \in 1 .. Len(entries)
      /\ config.entrant_count = Len(entries)
  BY DEF RankInv, EntriesRecorded
<1>4. config.entrant_count \in 0 .. U32_MAX /\ bracket[e].index \in Nat
  BY <1>1, Constants DEF TypeOK, ConfigType, BracketType
<1>5. bracket[e].index < U32_MAX
  BY <1>3, <1>4, Constants
<1>6. /\ KeyOf(e).score \in Nat /\ KeyOf(e).closeness \in 0 .. U16_MAX
      /\ KeyOf(e).index < U32_MAX
  BY <1>2, <1>5 DEF Key
<1> HIDE DEF KeyOf
<1> QED BY <1>6, Constants DEF Better, NoBest

\* Nothing is folded while a result can be posted.
LEMMA NoneFoldedYet ==
  ASSUME RankInv, ~IsComplete \/ config.state = "Registration"
  PROVE  Folded = {}
BY DEF RankInv, FoldedIsFinal

LEMMA BestRefreshScore ==
  ASSUME TallyInv, NEW e \in Entrants, RefreshScore(e)
  PROVE  BestIsFolded'
<1>0. TypeOK /\ RankInv /\ BestIsFolded
  BY DEF TallyInv
<1>1. /\ config.state = "Locked" /\ bracket[e].present
      /\ UNCHANGED <<oracle, entries>>
  BY DEF RefreshScore, Unfolded
<1>2. /\ config' = [config EXCEPT !.tallied = TRUE, !.best = Improved(e),
                                  !.refreshed_count = Counted + 1]
      /\ bracket' = [bracket EXCEPT ![e].score = KeyOf(e).score,
                                    ![e].folded = TRUE]
  BY <1>0, RefreshScoreEffect
<1>3. config'.tallied /\ config'.best = Improved(e)
  BY <1>0, <1>2 DEF TypeOK, ConfigType
<1>4. \A f \in Entrants : /\ bracket'[f].picks = bracket[f].picks
                          /\ bracket'[f].guess = bracket[f].guess
                          /\ bracket'[f].index = bracket[f].index
                          /\ bracket[f].folded => bracket'[f].folded
                          /\ f = e => bracket'[f].folded
  BY <1>0, <1>2 DEF TypeOK, BracketType
<1>5. \A f \in Entrants : KeyOf(f)' = KeyOf(f)
  BY <1>1, <1>4 DEF KeyOf
<1>6. e \in Folded' /\ \A f \in Folded : f \in Folded' /\ f \in Entrants
  BY <1>4 DEF Folded
<1>7. e \in Present
  BY <1>1 DEF Present
<1>8. CASE Improved(e) = KeyOf(e)
  <2>1. config'.best = KeyOf(e)'
    BY <1>3, <1>5, <1>8
  <2> QED BY <1>3, <1>6, <2>1 DEF BestIsFolded
<1>9. CASE Improved(e) # KeyOf(e)
  <2>1. Improved(e) = Tallied /\ ~Better(KeyOf(e), Tallied)
    BY <1>9 DEF Improved
  <2>2. config.tallied
    <3> SUFFICES ASSUME ~config.tallied PROVE FALSE
      OBVIOUS
    <3>1. Tallied = NoBest
      BY DEF Tallied
    <3> QED BY <1>0, <1>1, <1>7, <2>1, <3>1, BetterThanNone
  <2>3. PICK f \in Folded : config.best = KeyOf(f)
    BY <1>0, <1>1, <2>2 DEF BestIsFolded
  <2>4. config'.best = KeyOf(f)'
    BY <1>3, <1>5, <1>6, <2>1, <2>2, <2>3 DEF Tallied
  <2>5. f \in Folded'
    BY <1>6, <2>3
  <2> QED BY <1>3, <2>4, <2>5 DEF BestIsFolded
<1> QED BY <1>8, <1>9

LEMMA BestStep ==
  TallyInv /\ [Next]_vars => BestIsFolded'
<1> SUFFICES ASSUME TallyInv, [Next]_vars PROVE BestIsFolded'
  OBVIOUS
<1>0. TypeOK /\ RankInv /\ BestIsFolded
  BY DEF TallyInv
<1>a. ASSUME UNCHANGED <<config, oracle, bracket>> PROVE BestIsFolded'
  <2>1. Folded' = Folded /\ \A e \in Folded : KeyOf(e)' = KeyOf(e)
    BY <1>a DEF Folded, KeyOf
  <2> QED BY <1>0, <1>a, <2>1 DEF BestIsFolded
<1>b. ASSUME Folded = {}, UNCHANGED <<config.tallied, config.best>>,
             config.state # "Finalized"
      PROVE  BestIsFolded'
  <2>1. ~config.tallied
    BY <1>0, <1>b DEF RankInv, FoldsCounted
  <2>2. config.best = NoBest
    BY <1>0, <1>b, <2>1 DEF BestIsFolded
  <2> QED BY <1>b, <2>1, <2>2 DEF BestIsFolded
<1>1. ASSUME NEW w \in Admins, NEW lock_ts \in LockTimes, InitConfig(w, lock_ts)
      PROVE  BestIsFolded'
  BY <1>1 DEF InitConfig, NoConfig, BestIsFolded
<1>2. ASSUME NEW e \in Entrants, NEW entry \in Entries, SubmitBracket(e, entry)
      PROVE  BestIsFolded'
  <2>1. /\ config.state = "Registration"
        /\ config' = [config EXCEPT !.entrant_count = @ + 1]
    BY <1>2 DEF SubmitBracket, RegistrationOpen
  <2>2. UNCHANGED <<config.tallied, config.best>>
    BY <1>0, <2>1 DEF TypeOK, ConfigType
  <2>3. Folded = {}
    BY <1>0, <2>1, NoneFoldedYet
  <2> QED BY <1>b, <2>1, <2>2, <2>3
<1>3. ASSUME NEW w \in Wallets, Lock(w) PROVE BestIsFolded'
  <2>1. config.state = "Registration" /\ config' = [config EXCEPT !.state = "Locked"]
    BY <1>3 DEF Lock
  <2>2. UNCHANGED <<config.tallied, config.best>>
    BY <1>0, <2>1 DEF TypeOK, ConfigType
  <2>3. Folded = {}
    BY <1>0, <2>1, NoneFoldedYet
  <2> QED BY <1>b, <2>1, <2>2, <2>3
<1>4. ASSUME NEW w \in Wallets, NEW o \in Outcomes, PostResult(w, o.game, o.winner)
      PROVE  BestIsFolded'
  <2>1. /\ config.state = "Locked" /\ UNCHANGED config
        /\ o.game \in Game /\ oracle.results[o.game] = UNDECIDED
    BY <1>4 DEF PostResult, Undecided
  <2>2. ~IsComplete
    BY <1>0, <2>1 DEF IsComplete, RankInv, FoldedIsFinal
  <2>3. Folded = {}
    BY <1>0, <2>2, NoneFoldedYet
  <2> QED BY <1>b, <2>1, <2>3
<1>5. ASSUME NEW w \in Wallets, NEW total \in GoalTotals, PostGoals(w, total)
      PROVE  BestIsFolded'
  <2>1. config.state = "Locked" /\ UNCHANGED config /\ ~IsComplete
    BY <1>5 DEF PostGoals, IsComplete
  <2>2. Folded = {}
    BY <1>0, <2>1, NoneFoldedYet
  <2> QED BY <1>b, <2>1, <2>2
<1>6. ASSUME NEW e \in Entrants, RefreshScore(e) PROVE BestIsFolded'
  BY <1>6, BestRefreshScore
<1>7. ASSUME NEW w \in Wallets, NEW e \in Entrants, Finalize(w, e)
      PROVE  BestIsFolded'
  BY <1>0, <1>7 DEF Finalize, BestIsFolded, TypeOK, ConfigType
<1>8. ASSUME NEW e \in Entrants, CloseBracket(e) PROVE BestIsFolded'
  BY <1>8 DEF CloseBracket, BestIsFolded
<1>9. ASSUME NEW w \in Wallets, Claim(w) PROVE BestIsFolded'
  BY <1>9 DEF Claim, BestIsFolded
<1>10. ASSUME \/ Tick
              \/ \E w \in Givers : \E n \in 1 .. wallet[w] : GiveVault(w, n)
              \/ \E w \in Givers, e \in Entrants : \E n \in 1 .. wallet[w] :
                   GiveBracket(w, e, n)
              \/ UNCHANGED vars
       PROVE  BestIsFolded'
  BY <1>a, <1>10 DEF Tick, GiveVault, GiveBracket, vars
<1> QED BY <1>1, <1>2, <1>3, <1>4, <1>5, <1>6, <1>7, <1>8, <1>9, <1>10 DEF Next

LEMMA TallyAlways == Spec => []TallyInv
<1>1. Init => TallyInv
  <2> SUFFICES ASSUME Init PROVE TallyInv
    OBVIOUS
  <2>1. BestIsFolded
    BY DEF Init, NoConfig, BestIsFolded
  <2> QED BY <2>1, TypeInitially, RankInitially DEF TallyInv
<1>2. TallyInv /\ [Next]_vars => TallyInv'
  BY TypeStep, RankStep, BestStep DEF TallyInv
<1> QED BY <1>1, <1>2, PTL DEF Spec

\* With every bracket folded, the best key is that of one bracket and no other:
\* no two of them have the same index.
LEMMA OneMatches ==
  ASSUME TallyInv, config.state = "Locked", AllFolded
  PROVE  \E e \in Present : {f \in Present : Matches(f)} = {e}
<1>0. TypeOK /\ RankInv /\ BestIsFolded
  BY DEF TallyInv
<1>1. config.tallied
  BY DEF AllFolded
<1>2. PICK e \in Folded : config.best = KeyOf(e)
  BY <1>0, <1>1 DEF BestIsFolded
<1>3. e \in Present
  BY <1>0, <1>2 DEF RankInv, FoldsCounted
<1>4. Matches(e)
  BY <1>0, <1>2 DEF RankInv, TallyIsBest, Matches, Folded, KeyOf
<1>5. ASSUME NEW f \in Present, Matches(f) PROVE f = e
  <2>1. bracket[f].index = bracket[e].index
    BY <1>2, <1>5 DEF Matches, KeyOf
  <2>2. /\ entries[bracket[f].index + 1].player = f
        /\ entries[bracket[e].index + 1].player = e
    BY <1>0, <1>3 DEF RankInv, EntriesRecorded
  <2> QED BY <2>1, <2>2
<1>6. {f \in Present : Matches(f)} = {e}
  BY <1>3, <1>4, <1>5
<1> QED BY <1>3, <1>6

\* However many entrants fold their brackets in whatever order, the tally is that
\* of the folded ones and at the end singles out exactly one: finalize is neither
\* stuck nor has a choice.
THEOREM TallyAlwaysDecides == Spec => []TallyDecides
<1>1. TallyInv => TallyOfFolded
  <2> SUFFICES ASSUME TallyInv, config.state \in {"Registration", "Locked"}
               PROVE  TallyOfFolded
    BY DEF TallyOfFolded
  <2>0. TypeOK /\ RankInv /\ BestIsFolded
    BY DEF TallyInv
  <2>1. /\ config.entrant_count = Cardinality(Present)
        /\ config.refreshed_count = Cardinality(Folded)
        /\ config.tallied <=> Folded # {}
    BY <2>0 DEF RankInv, FoldsCounted
  <2> DEFINE keys == {KeyOf(e) : e \in Folded}
  <2>2. config.best \in keys \cup (IF keys = {} THEN {NoBest} ELSE {})
    BY <2>0, <2>1 DEF BestIsFolded
  <2>3. \A key \in keys : ~Better(key, config.best)
    BY <2>0 DEF RankInv, TallyIsBest
  <2>4. keys = {[score |-> Score(bracket[e].picks, oracle.results),
                 closeness |-> Closeness(bracket[e].guess, oracle.total_goals),
                 index |-> bracket[e].index] : e \in Folded}
    BY DEF KeyOf
  <2> HIDE DEF keys
  <2> QED BY <2>1, <2>2, <2>3, <2>4 DEF TallyOfFolded
<1>2. TallyInv => ExactlyOneMatches
  <2> SUFFICES ASSUME TallyInv, config.state = "Locked", AllFolded
               PROVE  Cardinality({e \in Present : Matches(e)}) = 1
    BY DEF ExactlyOneMatches
  <2>1. PICK e \in Present : {f \in Present : Matches(f)} = {e}
    BY OneMatches
  <2> QED BY <2>1, FS_Singleton
<1> QED BY <1>1, <1>2, TallyAlways, PTL DEF TallyDecides

(***************************************************************************)
(* Stakes: none is lost, and no lamport appears or vanishes.               *)
(***************************************************************************)

\* The lamports the program may not have lost: one more entry or one bracket
\* less raises them by as much as the instruction moves to the vault.
LEMMA OneMore ==
  ASSUME NEW n \in Nat, NEW f \in Int
  PROVE  (n + 1) * f = n * f + f /\ n * f \in Int
OBVIOUS

StakesInv == TypeOK /\ RankInv /\ PotHoldsStakes

LEMMA StakesInitially == Init => PotHoldsStakes
BY DEF Init, NoConfig, PotHoldsStakes

\* What PotHoldsStakes says of the sums, with the products named.
Pot == Len(entries) * PotShare
Returned == (Len(entries) - Cardinality(Present)) * BracketRent

LEMMA PotTypes ==
  ASSUME TypeOK
  PROVE  /\ Len(entries) \in Nat /\ Cardinality(Present) \in Nat
         /\ PotShare \in Int /\ Pot \in Int /\ Returned \in Int
         /\ vault \in Nat /\ claimed \in Nat /\ RentFloor \in Nat
         /\ BracketRent \in Nat
<1>1. Len(entries) \in Nat /\ Cardinality(Present) \in Nat
  BY BracketsFinite DEF TypeOK
<1>2. PotShare \in Int
  BY Constants DEF PotShare
<1> QED BY <1>1, <1>2, Constants DEF Pot, Returned, TypeOK

LEMMA PotIs ==
  PotHoldsStakes <=>
    config.state # "Absent" =>
      /\ vault >= RentFloor
      /\ \A e \in Present : bracketLamports[e] >= BracketRent
      /\ vault + claimed >= RentFloor + Pot + Returned
BY DEF PotHoldsStakes, Pot, Returned

\* With the same entries and brackets, the pot only asks for no less.
LEMMA PotUntouched ==
  ASSUME StakesInv, TypeOK', UNCHANGED <<entries, bracket>>,
         config.state # "Absent", vault' >= RentFloor,
         \A e \in Entrants : bracketLamports'[e] >= bracketLamports[e],
         vault' + claimed' >= vault + claimed
  PROVE  PotHoldsStakes'
<1>0. TypeOK /\ PotHoldsStakes
  BY DEF StakesInv
<1>1. Present' = Present /\ Pot' = Pot /\ Returned' = Returned
  BY DEF Present, Pot, Returned
<1>2. /\ vault + claimed >= RentFloor + Pot + Returned
      /\ \A e \in Present : bracketLamports[e] >= BracketRent
  BY <1>0, PotIs
<1>3. vault' + claimed' >= RentFloor + Pot + Returned
  <2>1. vault' \in Nat /\ claimed' \in Nat
    BY DEF TypeOK
  <2> QED BY <1>0, <1>2, <2>1, PotTypes
<1>4. \A e \in Present : bracketLamports'[e] >= BracketRent
  <2> SUFFICES ASSUME NEW e \in Present
               PROVE  bracketLamports'[e] >= BracketRent
    OBVIOUS
  <2>1. e \in Entrants
    BY DEF Present
  <2>2. bracketLamports[e] \in Nat /\ bracketLamports'[e] \in Nat
    BY <1>0, <2>1 DEF TypeOK
  <2> QED BY <1>2, <2>1, <2>2, Constants
<1>5. vault' >= RentFloor /\ \A e \in Present' : bracketLamports'[e] >= BracketRent
  BY <1>1, <1>4
<1>6. vault' + claimed' >= RentFloor + Pot' + Returned'
  BY <1>1, <1>3
<1> HIDE DEF PotHoldsStakes
<1>7. PotHoldsStakes' <=>
        (config'.state # "Absent" =>
           /\ vault' >= RentFloor
           /\ \A e \in Present' : bracketLamports'[e] >= BracketRent
           /\ vault' + claimed' >= RentFloor + Pot' + Returned')
  BY DEF PotHoldsStakes, Pot, Returned, Present, PotShare
<1> QED BY <1>5, <1>6, <1>7

LEMMA StakesInitConfig ==
  ASSUME StakesInv, TypeOK', NEW w \in Admins, NEW lock_ts \in LockTimes,
         InitConfig(w, lock_ts)
  PROVE  PotHoldsStakes'
<1>0. TypeOK /\ RankInv
  BY DEF StakesInv
<1>1. /\ config.state = "Absent"
      /\ vault' = vault + TopUp(vault, RentFloor)
      /\ UNCHANGED <<bracket, entries, claimed>>
  BY DEF InitConfig
<1>2. entries = <<>> /\ Len(entries) = 0
  BY <1>0, <1>1 DEF RankInv, EntriesRecorded
<1>3. Present' = {} /\ Len(entries') = 0
  <2>1. Present = {}
    BY <1>0, <1>1, <1>2 DEF RankInv, EntriesRecorded
  <2>2. Present' = Present
    BY <1>1 DEF Present
  <2> QED BY <1>1, <1>2, <2>1, <2>2
<1>4. vault' >= RentFloor
  <2>1. vault \in Nat
    BY <1>0 DEF TypeOK
  <2> QED BY <1>1, <2>1, TopUpType, Constants
<1>5. vault' \in Nat /\ claimed' \in Nat /\ PotShare \in Int
  BY Constants DEF TypeOK, PotShare
<1>6. Cardinality(Present') = 0
  BY <1>3, FS_EmptySet
<1>7. Len(entries') * PotShare = 0
      /\ (Len(entries') - Cardinality(Present')) * BracketRent = 0
  BY <1>3, <1>5, <1>6, Constants
<1>8. vault' + claimed' >= RentFloor + Len(entries') * PotShare
         + (Len(entries') - Cardinality(Present')) * BracketRent
  BY <1>4, <1>5, <1>7, Constants
<1> QED BY <1>3, <1>4, <1>8 DEF PotHoldsStakes

LEMMA StakesSubmitBracket ==
  ASSUME StakesInv, TypeOK', NEW e \in Entrants, NEW entry \in Entries,
         SubmitBracket(e, entry)
  PROVE  PotHoldsStakes'
<1> DEFINE t == TopUp(bracketLamports[e], BracketRent)
           opened == [present |-> TRUE, picks |-> entry.picks,
                      guess |-> entry.guess, index |-> config.entrant_count,
                      score |-> 0, folded |-> FALSE]
           made == [player |-> e, picks |-> entry.picks, guess |-> entry.guess]
<1>0. TypeOK /\ PotHoldsStakes
  BY DEF StakesInv
<1>1. /\ config.state = "Registration" /\ ~bracket[e].present
      /\ ENTRY_FEE >= BracketRent
      /\ bracket' = [bracket EXCEPT ![e] = opened]
      /\ bracketLamports' = [bracketLamports EXCEPT ![e] = @ + t]
      /\ vault' = vault + PotShare
      /\ entries' = Append(entries, made)
      /\ UNCHANGED claimed
  BY DEF SubmitBracket, RegistrationOpen
<1>2. Present' = Present \cup {e} /\ e \notin Present
  BY <1>0, <1>1 DEF TypeOK, Present
<1>3. Len(entries') = Len(entries) + 1
  <2> HIDE DEF made
  <2> QED BY <1>0, <1>1 DEF TypeOK
<1>4. Cardinality(Present') = Cardinality(Present) + 1
  BY <1>2, BracketsFinite, FS_AddElement
<1>5. Pot' = Pot + PotShare /\ Returned' = Returned
  <2>1. Len(entries) \in Nat /\ PotShare \in Int /\ Cardinality(Present) \in Nat
    BY <1>0, PotTypes
  <2>2. (Len(entries) + 1) * PotShare = Len(entries) * PotShare + PotShare
    BY <2>1, OneMore
  <2>3. Len(entries') - Cardinality(Present') = Len(entries) - Cardinality(Present)
    BY <1>3, <1>4, <2>1
  <2>4. Pot' = Len(entries') * PotShare
    BY DEF Pot, PotShare
  <2>5. Returned' = (Len(entries') - Cardinality(Present')) * BracketRent
    BY DEF Returned
  <2> QED BY <1>3, <2>2, <2>3, <2>4, <2>5 DEF Pot, Returned
<1>6. /\ vault >= RentFloor /\ vault + claimed >= RentFloor + Pot + Returned
      /\ \A f \in Present : bracketLamports[f] >= BracketRent
  BY <1>0, <1>1, PotIs
<1>7. PotShare \in Nat
  BY <1>1, Constants DEF PotShare
<1>8. vault' >= RentFloor /\ vault' + claimed' >= RentFloor + Pot' + Returned'
  <2>1. vault' = vault + PotShare /\ claimed' = claimed
    BY <1>1
  <2>2. /\ vault \in Nat /\ claimed \in Nat /\ RentFloor \in Nat
        /\ Pot \in Int /\ Returned \in Int
    BY <1>0, PotTypes
  <2> HIDE DEF t, opened, made
  <2> QED BY <1>5, <1>6, <1>7, <2>1, <2>2
<1>9. \A f \in Present' : bracketLamports'[f] >= BracketRent
  <2>1. bracketLamports[e] \in Nat
    BY <1>0 DEF TypeOK
  <2>2. bracketLamports[e] + t >= BracketRent
    BY <2>1, Constants, TopUpType
  <2> HIDE DEF t
  <2>3. bracketLamports'[e] >= BracketRent
    BY <1>0, <1>1, <2>2 DEF TypeOK
  <2>4. \A f \in Present : f # e /\ f \in Entrants
    BY <1>2 DEF Present
  <2>5. \A f \in Present : bracketLamports'[f] = bracketLamports[f]
    BY <1>0, <1>1, <2>4 DEF TypeOK
  <2> QED BY <1>2, <1>6, <2>3, <2>5
<1>10. vault' + claimed' >= RentFloor + Len(entries') * PotShare
         + (Len(entries') - Cardinality(Present')) * BracketRent
  BY <1>8 DEF Pot, Returned, PotShare
<1> QED BY <1>8, <1>9, <1>10 DEF PotHoldsStakes, PotShare

LEMMA StakesCloseBracket ==
  ASSUME StakesInv, TypeOK', NEW e \in Entrants, CloseBracket(e)
  PROVE  PotHoldsStakes'
<1>0. TypeOK /\ PotHoldsStakes
  BY DEF StakesInv
<1>1. /\ config.state = "Finalized" /\ bracket[e].present
      /\ vault' = vault + bracketLamports[e]
      /\ bracketLamports' = [bracketLamports EXCEPT ![e] = 0]
      /\ bracket' = [bracket EXCEPT ![e] = NoBracket]
      /\ UNCHANGED <<entries, claimed>>
  BY DEF CloseBracket
<1>2. Present' = Present \ {e} /\ e \in Present
  BY <1>0, <1>1 DEF TypeOK, Present, NoBracket
<1>3. Cardinality(Present') = Cardinality(Present) - 1
  BY <1>2, BracketsFinite, FS_RemoveElement
<1>4. Pot' = Pot /\ Returned' = Returned + BracketRent
  <2> DEFINE k == Len(entries) - Cardinality(Present)
  <2>1. Len(entries) \in Nat /\ Cardinality(Present) \in Nat /\ BracketRent \in Nat
    BY <1>0, PotTypes
  <2>2. Len(entries') - Cardinality(Present') = k + 1 /\ k \in Int
    BY <1>1, <1>3, <2>1
  <2>3. Returned' = (Len(entries') - Cardinality(Present')) * BracketRent
    BY DEF Returned
  <2>4. Returned = k * BracketRent
    BY DEF Returned
  <2> HIDE DEF k
  <2>5. (k + 1) * BracketRent = k * BracketRent + BracketRent
    BY <2>1, <2>2
  <2>6. Pot' = Pot
    BY <1>1 DEF Pot, PotShare
  <2> QED BY <2>2, <2>3, <2>4, <2>5, <2>6
<1>5. /\ vault >= RentFloor /\ vault + claimed >= RentFloor + Pot + Returned
      /\ \A f \in Present : bracketLamports[f] >= BracketRent
  BY <1>0, <1>1, PotIs
<1>6. bracketLamports[e] \in Nat /\ bracketLamports[e] >= BracketRent
  BY <1>0, <1>2, <1>5 DEF TypeOK
<1>7. vault' >= RentFloor /\ vault' + claimed' >= RentFloor + Pot' + Returned'
  <2> DEFINE back == bracketLamports[e]
  <2>1. /\ vault' = vault + back /\ claimed' = claimed
        /\ back \in Nat /\ back >= BracketRent
    BY <1>1, <1>6
  <2>2. /\ Pot \in Int /\ Returned \in Int /\ vault \in Nat /\ claimed \in Nat
        /\ RentFloor \in Nat /\ BracketRent \in Nat
    BY <1>0, PotTypes
  <2> HIDE DEF back, Pot, Returned
  <2> QED BY <1>4, <1>5, <2>1, <2>2
<1>8. \A f \in Present' : bracketLamports'[f] >= BracketRent
  <2>1. \A f \in Present : f \in Entrants
    BY DEF Present
  <2> QED BY <1>0, <1>1, <1>2, <1>5, <2>1 DEF TypeOK
<1>9. vault' + claimed' >= RentFloor + Len(entries') * PotShare
         + (Len(entries') - Cardinality(Present')) * BracketRent
  BY <1>7 DEF Pot, Returned, PotShare
<1> QED BY <1>7, <1>8, <1>9 DEF PotHoldsStakes, PotShare

LEMMA StakesClaim ==
  ASSUME StakesInv, TypeOK', NEW w \in Wallets, Claim(w)
  PROVE  PotHoldsStakes'
<1>0. TypeOK /\ PotHoldsStakes
  BY DEF StakesInv
<1>1. /\ config.state = "Finalized"
      /\ vault' = vault - Swept /\ claimed' = claimed + Swept
      /\ UNCHANGED <<entries, bracket, bracketLamports>>
  BY DEF Claim
<1>2. vault >= RentFloor
  BY <1>0, <1>1, PotIs
<1>3. vault \in Nat /\ claimed \in Nat /\ bracketLamports \in [Entrants -> Nat]
  BY <1>0 DEF TypeOK
<1>4. Swept \in Nat /\ vault - Swept >= RentFloor
  BY <1>2, <1>3, Constants DEF Swept
<1> HIDE DEF Swept
<1>5. vault' >= RentFloor /\ vault' + claimed' >= vault + claimed
  BY <1>1, <1>3, <1>4
<1>6. \A e \in Entrants : bracketLamports'[e] >= bracketLamports[e]
  BY <1>1, <1>3
<1> QED BY <1>1, <1>5, <1>6, PotUntouched

LEMMA StakesStep ==
  StakesInv /\ [Next]_vars => PotHoldsStakes'
<1> SUFFICES ASSUME StakesInv, [Next]_vars PROVE PotHoldsStakes'
  OBVIOUS
<1>0. TypeOK /\ RankInv /\ PotHoldsStakes /\ TypeOK'
  BY TypeStep DEF StakesInv
<1>a. ASSUME UNCHANGED <<entries, bracket, vault, bracketLamports, claimed>>,
             config.state = "Absent" => config'.state = "Absent"
      PROVE  PotHoldsStakes'
  BY <1>0, <1>a DEF PotHoldsStakes, Present, PotShare
<1>1. ASSUME NEW w \in Admins, NEW lock_ts \in LockTimes, InitConfig(w, lock_ts)
      PROVE  PotHoldsStakes'
  BY <1>0, <1>1, StakesInitConfig
<1>2. ASSUME NEW e \in Entrants, NEW entry \in Entries, SubmitBracket(e, entry)
      PROVE  PotHoldsStakes'
  BY <1>0, <1>2, StakesSubmitBracket
<1>3. ASSUME \/ \E w \in Wallets : Lock(w)
             \/ \E w \in Wallets, o \in Outcomes : PostResult(w, o.game, o.winner)
             \/ \E w \in Wallets, total \in GoalTotals : PostGoals(w, total)
             \/ \E w \in Wallets, e \in Entrants : Finalize(w, e)
             \/ Tick
             \/ UNCHANGED vars
      PROVE  PotHoldsStakes'
  BY <1>a, <1>3 DEF Lock, PostResult, PostGoals, Finalize, Tick, vars
<1>4. ASSUME NEW e \in Entrants, RefreshScore(e) PROVE PotHoldsStakes'
  <2>1. /\ config.state = "Locked"
        /\ bracket' = [bracket EXCEPT ![e].score = KeyOf(e).score,
                                      ![e].folded = TRUE]
        /\ UNCHANGED <<entries, vault, bracketLamports, claimed>>
    BY <1>0, <1>4, RefreshScoreEffect DEF RefreshScore
  <2>2. Present' = Present
    BY <1>0, <2>1 DEF TypeOK, BracketType, Present
  <2> QED BY <1>0, <2>1, <2>2 DEF PotHoldsStakes, PotShare
<1>5. ASSUME NEW w \in Wallets, Claim(w) PROVE PotHoldsStakes'
  BY <1>0, <1>5, StakesClaim
<1>6. ASSUME NEW e \in Entrants, CloseBracket(e) PROVE PotHoldsStakes'
  BY <1>0, <1>6, StakesCloseBracket
<1>7. ASSUME NEW w \in Givers, NEW n \in 1 .. wallet[w], GiveVault(w, n)
      PROVE  PotHoldsStakes'
  <2>1. /\ n \in Nat /\ vault' = vault + n /\ vault + n >= RentFloor
        /\ UNCHANGED <<config, entries, bracket, bracketLamports, claimed>>
    BY <1>0, <1>7 DEF GiveVault, TypeOK
  <2>2. CASE config.state = "Absent"
    BY <2>1, <2>2 DEF PotHoldsStakes
  <2>3. CASE config.state # "Absent"
    <3>1. /\ vault' >= RentFloor /\ vault' + claimed' >= vault + claimed
          /\ \A e \in Entrants : bracketLamports'[e] >= bracketLamports[e]
      BY <1>0, <2>1 DEF TypeOK
    <3> QED BY <1>0, <2>1, <2>3, <3>1, PotUntouched
  <2> QED BY <2>2, <2>3
<1>8. ASSUME NEW w \in Givers, NEW e \in Entrants, NEW n \in 1 .. wallet[w],
             GiveBracket(w, e, n)
      PROVE  PotHoldsStakes'
  <2>1. /\ n \in Nat /\ bracketLamports' = [bracketLamports EXCEPT ![e] = @ + n]
        /\ UNCHANGED <<config, entries, bracket, vault, claimed>>
    BY <1>0, <1>8 DEF GiveBracket, TypeOK
  <2>2. CASE config.state = "Absent"
    BY <2>1, <2>2 DEF PotHoldsStakes
  <2>3. CASE config.state # "Absent"
    <3>1. vault' >= RentFloor
      BY <1>0, <2>1, <2>3, PotIs
    <3>2. /\ vault' + claimed' >= vault + claimed
          /\ \A f \in Entrants : bracketLamports'[f] >= bracketLamports[f]
      BY <1>0, <2>1 DEF TypeOK
    <3> QED BY <1>0, <2>1, <2>3, <3>1, <3>2, PotUntouched
  <2> QED BY <2>2, <2>3
<1> QED BY <1>1, <1>2, <1>3, <1>4, <1>5, <1>6, <1>7, <1>8 DEF Next

LEMMA BalancesTyped ==
  ASSUME TypeOK
  PROVE  /\ IsFiniteSet(Wallets) /\ IsFiniteSet(Entrants)
         /\ wallet \in [Wallets -> Int] /\ bracketLamports \in [Entrants -> Int]
         /\ SumFunction(wallet) \in Int /\ SumFunction(bracketLamports) \in Int
<1>1. IsFiniteSet(Wallets) /\ IsFiniteSet(Entrants)
  BY WorldCupAssumption, EntrantsFinite
<1>2. wallet \in [Wallets -> Int] /\ bracketLamports \in [Entrants -> Int]
  BY DEF TypeOK
<1> QED BY <1>1, <1>2, SumOfFunction

LEMMA LamportsInitially == Init => LamportsConserved
<1> SUFFICES ASSUME Init PROVE LamportsConserved
  OBVIOUS
<1>1. TypeOK
  BY TypeInitially
<1>2. SumFunction(bracketLamports) = 0
  BY <1>1, BalancesTyped, SumOfZeros DEF Init
<1>3. wallet = Endowment /\ vault = 0 /\ config.state = "Absent"
  BY DEF Init, NoConfig
<1>4. SumFunction(wallet) \in Int
  BY <1>1, BalancesTyped
<1> QED BY <1>2, <1>3, <1>4 DEF LamportsConserved

LEMMA LamportsStep ==
  TypeOK /\ LamportsConserved /\ [Next]_vars => LamportsConserved'
<1> SUFFICES ASSUME TypeOK, LamportsConserved, [Next]_vars
             PROVE  LamportsConserved'
  OBVIOUS
<1> DEFINE W == SumFunction(wallet)
           B == SumFunction(bracketLamports)
           R == IF config.state = "Absent" THEN 0 ELSE SetupRent
<1>a. TypeOK'
  BY TypeStep
<1>b. /\ wallet \in [Wallets -> Int] /\ wallet' \in [Wallets -> Int]
      /\ bracketLamports \in [Entrants -> Int]
      /\ bracketLamports' \in [Entrants -> Int]
      /\ IsFiniteSet(Wallets) /\ IsFiniteSet(Entrants)
  BY <1>a, BalancesTyped DEF TypeOK
<1>c. W \in Int /\ B \in Int /\ R \in Int /\ vault \in Nat /\ vault' \in Nat
  <2>1. W \in Int /\ B \in Int
    BY BalancesTyped
  <2>2. R \in Int
    BY Constants
  <2>3. vault \in Nat /\ vault' \in Nat
    BY <1>a DEF TypeOK
  <2> QED BY <2>1, <2>2, <2>3
<1>d. W + B + vault + R = SumFunction(Endowment)
  BY DEF LamportsConserved
<1>e. ASSUME NEW x \in Int, NEW y \in Int, NEW z \in Int, NEW r \in Int,
             W' = W + x, B' = B + y, vault' = vault + z, R' = R + r,
             x + y + z + r = 0
      PROVE  LamportsConserved'
  <2>1. W' + B' + vault' + R' = SumFunction(Endowment)
    BY <1>c, <1>d, <1>e
  <2>2. LamportsConserved' <=> W' + B' + vault' + R' = SumFunction(Endowment)
    BY DEF LamportsConserved
  <2> QED BY <2>1, <2>2
<1>f. ASSUME NEW w \in Wallets, NEW d \in Int, wallet'[w] = wallet[w] + d,
             \A u \in Wallets \ {w} : wallet'[u] = wallet[u]
      PROVE  W' = W + d
  BY <1>b, <1>f, SumMoves
<1>g. ASSUME NEW e \in Entrants, NEW d \in Int,
             bracketLamports'[e] = bracketLamports[e] + d,
             \A f \in Entrants \ {e} : bracketLamports'[f] = bracketLamports[f]
      PROVE  B' = B + d
  BY <1>b, <1>g, SumMoves
<1>h. ASSUME UNCHANGED <<wallet, bracketLamports, vault>>,
             config.state = "Absent" <=> config'.state = "Absent"
      PROVE  LamportsConserved'
  <2>1. W' = W + 0 /\ B' = B + 0 /\ vault' = vault + 0 /\ R' = R + 0
    BY <1>c, <1>h
  <2> HIDE DEF W, B, R
  <2> QED BY <1>e, <2>1
<1> HIDE DEF W, B
<1>1. ASSUME NEW w \in Admins, NEW lock_ts \in LockTimes, InitConfig(w, lock_ts)
      PROVE  LamportsConserved'
  <2> DEFINE t == TopUp(vault, RentFloor)
  <2>1. w \in Wallets
    BY Constants
  <2>2. t \in Nat
    BY <1>c, Constants, TopUpType
  <2>3. /\ wallet' = [wallet EXCEPT ![w] = @ - (SetupRent + t)]
        /\ vault' = vault + t /\ UNCHANGED bracketLamports
        /\ config.state = "Absent" /\ config'.state = "Registration"
    BY <1>1 DEF InitConfig, NoConfig
  <2> HIDE DEF t
  <2>4. W' = W + (0 - (SetupRent + t))
    <3>1. /\ 0 - (SetupRent + t) \in Int
          /\ wallet'[w] = wallet[w] + (0 - (SetupRent + t))
          /\ \A u \in Wallets \ {w} : wallet'[u] = wallet[u]
      BY <1>b, <2>1, <2>2, <2>3, Constants
    <3> QED BY <1>f, <2>1, <3>1
  <2>5. B' = B + 0
    <3>1. B' = B
      BY <2>3 DEF B
    <3> QED BY <1>c, <3>1
  <2>6. R' = R + SetupRent
    BY <2>3, Constants
  <2>7. 0 - (SetupRent + t) \in Int /\ (0 - (SetupRent + t)) + 0 + t + SetupRent = 0
    BY <2>2, Constants
  <2> HIDE DEF R
  <2> QED BY <1>e, <2>2, <2>3, <2>4, <2>5, <2>6, <2>7, Constants
<1>2. ASSUME NEW e \in Entrants, NEW entry \in Entries, SubmitBracket(e, entry)
      PROVE  LamportsConserved'
  <2> DEFINE t == TopUp(bracketLamports[e], BracketRent)
  <2>1. e \in Wallets /\ PotShare \in Int
    BY Constants DEF PotShare
  <2>2. t \in Nat
    BY Constants, TopUpType DEF TypeOK
  <2>3. /\ wallet' = [wallet EXCEPT ![e] = @ - (t + PotShare)]
        /\ bracketLamports' = [bracketLamports EXCEPT ![e] = @ + t]
        /\ vault' = vault + PotShare
        /\ config.state = "Registration"
        /\ config' = [config EXCEPT !.entrant_count = @ + 1]
    BY <1>2 DEF SubmitBracket, RegistrationOpen, Stake
  <2> HIDE DEF t
  <2>4. W' = W + (0 - (t + PotShare))
    <3>1. /\ 0 - (t + PotShare) \in Int
          /\ wallet'[e] = wallet[e] + (0 - (t + PotShare))
          /\ \A u \in Wallets \ {e} : wallet'[u] = wallet[u]
      BY <1>b, <2>1, <2>2, <2>3
    <3> QED BY <1>f, <2>1, <3>1
  <2>5. B' = B + t
    <3>1. /\ bracketLamports'[e] = bracketLamports[e] + t
          /\ \A f \in Entrants \ {e} : bracketLamports'[f] = bracketLamports[f]
      BY <1>b, <2>3
    <3> QED BY <1>g, <2>2, <3>1
  <2>6. R' = R + 0
    <3>1. config'.state = "Registration"
      BY <2>3 DEF TypeOK, ConfigType
    <3> QED BY <2>3, <3>1, Constants
  <2>7. 0 - (t + PotShare) \in Int /\ (0 - (t + PotShare)) + t + PotShare + 0 = 0
    BY <2>1, <2>2
  <2> HIDE DEF R
  <2> QED BY <1>e, <2>1, <2>2, <2>3, <2>4, <2>5, <2>6, <2>7
<1>3. ASSUME \/ \E w \in Wallets : Lock(w)
             \/ \E w \in Wallets, o \in Outcomes : PostResult(w, o.game, o.winner)
             \/ \E w \in Wallets, total \in GoalTotals : PostGoals(w, total)
             \/ \E w \in Wallets, e \in Entrants : Finalize(w, e)
             \/ Tick
             \/ UNCHANGED vars
      PROVE  LamportsConserved'
  <2>1. UNCHANGED <<wallet, bracketLamports, vault>>
    BY <1>3 DEF Lock, PostResult, PostGoals, Finalize, Tick, vars
  <2>2. \/ UNCHANGED config
        \/ /\ config.state # "Absent"
           /\ \/ config' = [config EXCEPT !.state = "Locked"]
              \/ \E e \in Entrants :
                   config' = [config EXCEPT !.state = "Finalized", !.winner = {e}]
    BY <1>3 DEF Lock, PostResult, PostGoals, Finalize, Tick, vars
  <2>3. config.state = "Absent" <=> config'.state = "Absent"
    BY <2>2 DEF TypeOK, ConfigType
  <2> QED BY <1>h, <2>1, <2>3
<1>4. ASSUME NEW e \in Entrants, RefreshScore(e) PROVE LamportsConserved'
  <2>1. /\ config.state = "Locked"
        /\ UNCHANGED <<wallet, bracketLamports, vault>>
    BY <1>4 DEF RefreshScore
  <2>2. config' = [config EXCEPT !.tallied = TRUE, !.best = Improved(e),
                                 !.refreshed_count = Counted + 1]
    BY <1>4, RefreshScoreEffect
  <2>3. config'.state = "Locked"
    BY <2>1, <2>2 DEF TypeOK, ConfigType
  <2> QED BY <1>h, <2>1, <2>3
<1>5. ASSUME NEW w \in Wallets, Claim(w) PROVE LamportsConserved'
  <2>1. /\ wallet' = [wallet EXCEPT ![w] = @ + Swept] /\ vault' = vault - Swept
        /\ UNCHANGED <<bracketLamports, config>>
    BY <1>5 DEF Claim
  <2>2. Swept \in Nat
    BY SweptType
  <2> HIDE DEF Swept
  <2>3. W' = W + Swept
    <3>1. /\ wallet'[w] = wallet[w] + Swept
          /\ \A u \in Wallets \ {w} : wallet'[u] = wallet[u]
      BY <1>b, <2>1
    <3> QED BY <1>f, <2>2, <3>1
  <2>4. B' = B + 0 /\ R' = R + 0
    <3>1. B' = B /\ R' = R
      BY <2>1 DEF B
    <3> HIDE DEF R
    <3> QED BY <1>c, <3>1
  <2>5. vault' = vault + (0 - Swept) /\ Swept + 0 + (0 - Swept) + 0 = 0
        /\ 0 - Swept \in Int
    BY <1>c, <2>1, <2>2
  <2> HIDE DEF R
  <2> QED BY <1>e, <2>2, <2>3, <2>4, <2>5
<1>6. ASSUME NEW e \in Entrants, CloseBracket(e) PROVE LamportsConserved'
  <2> DEFINE b == bracketLamports[e]
  <2>1. /\ bracketLamports' = [bracketLamports EXCEPT ![e] = 0]
        /\ vault' = vault + b /\ UNCHANGED <<wallet, config>>
    BY <1>6 DEF CloseBracket
  <2>2. b \in Nat
    BY DEF TypeOK
  <2>3. B' = B + (0 - b)
    <3>1. /\ bracketLamports'[e] = bracketLamports[e] + (0 - b) /\ 0 - b \in Int
          /\ \A f \in Entrants \ {e} : bracketLamports'[f] = bracketLamports[f]
      BY <1>b, <2>1, <2>2
    <3> HIDE DEF b
    <3> QED BY <1>g, <3>1
  <2> HIDE DEF b
  <2>4. W' = W + 0 /\ R' = R + 0
    <3>1. W' = W /\ R' = R
      BY <2>1 DEF W
    <3> HIDE DEF R
    <3> QED BY <1>c, <3>1
  <2>5. 0 - b \in Int /\ 0 + (0 - b) + b + 0 = 0
    BY <2>2
  <2> HIDE DEF R
  <2> QED BY <1>e, <2>1, <2>2, <2>3, <2>4, <2>5
<1>7. ASSUME NEW w \in Givers, NEW n \in 1 .. wallet[w], GiveVault(w, n)
      PROVE  LamportsConserved'
  <2>1. /\ n \in Nat /\ w \in Wallets
        /\ wallet' = [wallet EXCEPT ![w] = @ - n]
        /\ vault' = vault + n /\ UNCHANGED <<bracketLamports, config>>
    BY <1>7, Constants DEF GiveVault, TypeOK
  <2>2. W' = W + (0 - n)
    <3>1. /\ wallet'[w] = wallet[w] + (0 - n) /\ 0 - n \in Int
          /\ \A u \in Wallets \ {w} : wallet'[u] = wallet[u]
      BY <1>b, <2>1
    <3> QED BY <1>f, <2>1, <3>1
  <2>3. B' = B + 0 /\ R' = R + 0
    <3>1. B' = B /\ R' = R
      BY <2>1 DEF B
    <3> HIDE DEF R
    <3> QED BY <1>c, <3>1
  <2>4. 0 - n \in Int /\ (0 - n) + 0 + n + 0 = 0
    BY <2>1
  <2> HIDE DEF R
  <2> QED BY <1>e, <2>1, <2>2, <2>3, <2>4
<1>8. ASSUME NEW w \in Givers, NEW e \in Entrants, NEW n \in 1 .. wallet[w],
             GiveBracket(w, e, n)
      PROVE  LamportsConserved'
  <2>1. /\ n \in Nat /\ w \in Wallets
        /\ wallet' = [wallet EXCEPT ![w] = @ - n]
        /\ bracketLamports' = [bracketLamports EXCEPT ![e] = @ + n]
        /\ UNCHANGED <<vault, config>>
    BY <1>8, Constants DEF GiveBracket, TypeOK
  <2>2. W' = W + (0 - n)
    <3>1. /\ wallet'[w] = wallet[w] + (0 - n) /\ 0 - n \in Int
          /\ \A u \in Wallets \ {w} : wallet'[u] = wallet[u]
      BY <1>b, <2>1
    <3> QED BY <1>f, <2>1, <3>1
  <2>3. B' = B + n
    <3>1. /\ bracketLamports'[e] = bracketLamports[e] + n
          /\ \A f \in Entrants \ {e} : bracketLamports'[f] = bracketLamports[f]
      BY <1>b, <2>1
    <3> QED BY <1>g, <2>1, <3>1
  <2>4. vault' = vault + 0 /\ R' = R + 0
    <3>1. vault' = vault /\ R' = R
      BY <2>1
    <3> HIDE DEF R
    <3> QED BY <1>c, <3>1
  <2>5. 0 - n \in Int /\ (0 - n) + n + 0 + 0 = 0
    BY <2>1
  <2> HIDE DEF R
  <2> QED BY <1>e, <2>1, <2>2, <2>3, <2>4, <2>5
<1> QED BY <1>1, <1>2, <1>3, <1>4, <1>5, <1>6, <1>7, <1>8 DEF Next

\* Every stake that was escrowed is in the vault, in its bracket or with the
\* winner, the vault keeps its rent, and no instruction creates or destroys
\* lamports, for any fee, rents and balances and any number of entrants.
THEOREM StakesAlwaysKept == Spec => []StakesKept
<1> DEFINE Inv == StakesInv /\ LamportsConserved
<1>1. Init => Inv
  BY TypeInitially, RankInitially, StakesInitially, LamportsInitially
     DEF StakesInv
<1>2. Inv /\ [Next]_vars => Inv'
  <2>1. Inv /\ [Next]_vars => TypeOK' /\ RankInv' /\ PotHoldsStakes'
    BY TypeStep, RankStep, StakesStep DEF StakesInv
  <2>2. Inv /\ [Next]_vars => LamportsConserved'
    BY LamportsStep DEF StakesInv
  <2> QED BY <2>1, <2>2 DEF StakesInv
<1>3. Inv => StakesKept
  BY DEF StakesInv, StakesKept
<1> HIDE DEF Inv
<1> QED BY <1>1, <1>2, <1>3, PTL DEF Spec

(***************************************************************************)
(* The program implements Contest.                                         *)
(***************************************************************************)

\* What Contest sees of the accounts.
Phase == CASE config.state \in {"Absent", "Registration"} -> "open"
           [] config.state = "Locked" -> "closed"
           [] config.state = "Finalized" -> "awarded"
Truth == [results |-> oracle.results, total_goals |-> oracle.total_goals]

LEMMA PhaseOfState ==
  /\ config.state \in {"Absent", "Registration"} => Phase = "open"
  /\ config.state = "Locked" => Phase = "closed"
  /\ config.state = "Finalized" => Phase = "awarded"
BY DEF Phase

\* The actions of Contest, in terms of the accounts.
LEMMA EnterOf ==
  /\ Phase = "open"
  /\ Len(entries') = Len(entries) + 1
  /\ SubSeq(entries', 1, Len(entries)) = entries
  /\ entries'[Len(entries')].player
       \in Entrants \ {entries[i].player : i \in DOMAIN entries}
  /\ UNCHANGED <<Phase, Truth, IsComplete, config.winner>>
  => Promise!Enter
BY DEF Promise!Enter, Phase, Truth

LEMMA CloseOf ==
  /\ Phase = "open" /\ Phase' = "closed"
  /\ UNCHANGED <<entries, Truth, IsComplete, config.winner>>
  => Promise!Close
BY DEF Promise!Close, Phase, Truth

LEMMA TellOf ==
  /\ Phase = "closed" /\ ~IsComplete
  /\ UNCHANGED <<Phase, entries, config.winner>>
  => Promise!Tell
BY DEF Promise!Tell, Phase

LEMMA BeforeOf ==
  ASSUME NEW i \in DOMAIN entries, NEW j \in DOMAIN entries, RanksBefore(i, j)
  PROVE  Promise!Before(i, j)
BY DEF RanksBefore, Promise!Before, PointsOf, DistanceOf

LEMMA AwardOf ==
  /\ Phase = "closed" /\ IsComplete /\ Phase' = "awarded"
  /\ \E i \in DOMAIN entries :
       /\ \A j \in DOMAIN entries \ {i} : Promise!Before(i, j)
       /\ config'.winner = {entries[i].player}
  /\ UNCHANGED <<entries, Truth, IsComplete>>
  => Promise!Award
BY DEF Promise!Award, Phase, Truth

LEMMA StutterOf ==
  UNCHANGED <<Phase, entries, Truth, IsComplete, config.winner>>
  => UNCHANGED Promise!vars
BY DEF Promise!vars, Phase, Truth

LEMMA SameOracle ==
  UNCHANGED oracle => UNCHANGED <<Truth, IsComplete>>
BY DEF Truth, IsComplete

LEMMA SamePhase ==
  UNCHANGED config.state => UNCHANGED Phase
BY DEF Phase

LEMMA ContestStarts == Init => Promise!Init
<1> SUFFICES ASSUME Init PROVE Promise!Init
  OBVIOUS
<1>1. config.state = "Absent" /\ config.winner = {} /\ entries = <<>>
  BY DEF Init, NoConfig
<1>2. ~IsComplete
  BY DEF Init, NoResults, IsComplete
<1> QED BY <1>1, <1>2 DEF Promise!Init

\* An entry is new: nobody whose entry was made before is without a bracket.
LEMMA EnterStep ==
  ASSUME TypeOK, RankInv, NEW e \in Entrants, NEW entry \in Entries,
         SubmitBracket(e, entry)
  PROVE  Promise!Enter
<1> DEFINE made == [player |-> e, picks |-> entry.picks, guess |-> entry.guess]
           Entry == [player: Entrants, picks: [Game -> Team], guess: 0 .. U16_MAX]
           n == Len(entries)
<1>1. /\ config.state = "Registration" /\ ~bracket[e].present
      /\ config' = [config EXCEPT !.entrant_count = @ + 1]
      /\ entries' = Append(entries, made) /\ UNCHANGED oracle
  BY DEF SubmitBracket, RegistrationOpen
<1>2. UNCHANGED <<config.state, config.winner>>
  BY <1>1 DEF TypeOK, ConfigType
<1>3. entries \in Seq(Entry) /\ n \in Nat
  BY DEF TypeOK
<1>4. made.player = e
  OBVIOUS
<1>5. /\ Len(entries') = n + 1 /\ entries'[n + 1] = made
      /\ \A i \in 1 .. n : entries'[i] = entries[i]
  <2> HIDE DEF made, Entry
  <2> QED BY <1>1, <1>3
<1>6. SubSeq(entries', 1, n) = entries
  <2>1. SubSeq(entries', 1, n) = [i \in 1 .. n |-> entries'[i]]
    <3> HIDE DEF made, Entry
    <3> QED BY <1>3, <1>5
  <2>2. entries = [i \in 1 .. n |-> entries[i]]
    <3> HIDE DEF Entry
    <3> QED BY <1>3
  <2>3. [i \in 1 .. n |-> entries'[i]] = [i \in 1 .. n |-> entries[i]]
    BY <1>5
  <2> QED BY <2>1, <2>2, <2>3
<1>7. e \notin {entries[i].player : i \in DOMAIN entries}
  <2>1. DOMAIN entries = 1 .. n
    <3> HIDE DEF Entry
    <3> QED BY <1>3
  <2>2. \A i \in 1 .. n : bracket[entries[i].player].present
    BY <1>1 DEF RankInv, EntriesRecorded
  <2> QED BY <1>1, <2>1, <2>2
<1>8. entries'[Len(entries')].player = e
  BY <1>4, <1>5
<1>9. Phase = "open" /\ UNCHANGED <<Phase, Truth, IsComplete>>
  BY <1>1, <1>2, PhaseOfState, SamePhase, SameOracle
<1> HIDE DEF made, n
<1> QED BY <1>2, <1>5, <1>6, <1>7, <1>8, <1>9, EnterOf DEF n

LEMMA CloseStep ==
  ASSUME TypeOK, NEW w, Lock(w)
  PROVE  Promise!Close
<1>1. /\ config.state = "Registration" /\ config' = [config EXCEPT !.state = "Locked"]
      /\ UNCHANGED <<oracle, entries>>
  BY DEF Lock
<1>2. config'.state = "Locked" /\ UNCHANGED config.winner
  BY <1>1 DEF TypeOK, ConfigType
<1>3. Phase' = "closed"
  BY <1>2 DEF Phase
<1>4. Phase = "open" /\ UNCHANGED <<Truth, IsComplete>>
  BY <1>1, PhaseOfState, SameOracle
<1> QED BY <1>1, <1>2, <1>3, <1>4, CloseOf

LEMMA TellStep ==
  ASSUME RankInv, NEW w,
         \/ \E game, winner : PostResult(w, game, winner)
         \/ \E total : PostGoals(w, total)
  PROVE  Promise!Tell
<1>1. /\ config.state = "Locked" /\ UNCHANGED <<config, entries>>
      /\ (\E game \in Game : oracle.results[game] = UNDECIDED)
         \/ ~oracle.goals_posted
  BY DEF PostResult, PostGoals, Undecided
<1>2. ~IsComplete
  BY <1>1 DEF IsComplete, RankInv, FoldedIsFinal
<1>3. Phase = "closed" /\ UNCHANGED <<Phase, config.winner>>
  BY <1>1, PhaseOfState, SamePhase
<1> QED BY <1>1, <1>2, <1>3, TellOf

\* The bracket that finalize accepts is that of the entry that ranks first.
LEMMA AwardStep ==
  ASSUME TypeOK, RankInv, NEW w, NEW e \in Entrants, Finalize(w, e)
  PROVE  Promise!Award
<1>1. /\ config.state = "Locked" /\ IsComplete
      /\ config' = [config EXCEPT !.state = "Finalized", !.winner = {e}]
      /\ UNCHANGED <<oracle, entries>>
  BY DEF Finalize
<1>2. config'.state = "Finalized" /\ config'.winner = {e}
  BY <1>1 DEF TypeOK, ConfigType
<1>3. WinnerRanksFirst'
  BY RankFinalize DEF RankInv
<1>4. PICK i \in DOMAIN entries : /\ entries[i].player = e
                                  /\ \A j \in DOMAIN entries \ {i} : RanksBefore(i, j)
  BY <1>1, <1>2, <1>3 DEF WinnerRanksFirst, RanksBefore
<1>5. \A j \in DOMAIN entries \ {i} : Promise!Before(i, j)
  BY <1>4, BeforeOf
<1>6. Phase' = "awarded"
  BY <1>2 DEF Phase
<1>7. Phase = "closed" /\ UNCHANGED <<Truth, IsComplete>>
  BY <1>1, PhaseOfState, SameOracle
<1>8. config'.winner = {entries[i].player}
  BY <1>2, <1>4
<1> QED BY <1>1, <1>4, <1>5, <1>6, <1>7, <1>8, AwardOf

LEMMA ContestStep ==
  TypeOK /\ RankInv /\ [Next]_vars => Promise!Next \/ UNCHANGED Promise!vars
<1> SUFFICES ASSUME TypeOK, RankInv, [Next]_vars
             PROVE  Promise!Next \/ UNCHANGED Promise!vars
  OBVIOUS
<1>a. ASSUME UNCHANGED <<Phase, oracle, entries, config.winner>>
      PROVE  UNCHANGED Promise!vars
  BY <1>a, SameOracle, StutterOf
<1>1. ASSUME NEW w \in Admins, NEW lock_ts \in LockTimes, InitConfig(w, lock_ts)
      PROVE  UNCHANGED Promise!vars
  <2>1. /\ config.state = "Absent" /\ config'.state = "Registration"
        /\ config'.winner = {} /\ UNCHANGED <<oracle, entries>>
    BY <1>1 DEF InitConfig, NoConfig
  <2>2. config.winner = {}
    BY <2>1 DEF RankInv, WinnerWhenFinalized
  <2>3. Phase = "open" /\ Phase' = "open"
    BY <2>1 DEF Phase
  <2> QED BY <1>a, <2>1, <2>2, <2>3
<1>2. ASSUME NEW e \in Entrants, NEW entry \in Entries, SubmitBracket(e, entry)
      PROVE  Promise!Next
  BY <1>2, EnterStep DEF Promise!Next
<1>3. ASSUME NEW w \in Wallets, Lock(w) PROVE Promise!Next
  BY <1>3, CloseStep DEF Promise!Next
<1>4. ASSUME NEW w \in Wallets, NEW o \in Outcomes, PostResult(w, o.game, o.winner)
      PROVE  Promise!Next
  BY <1>4, TellStep DEF Promise!Next
<1>5. ASSUME NEW w \in Wallets, NEW total \in GoalTotals, PostGoals(w, total)
      PROVE  Promise!Next
  BY <1>5, TellStep DEF Promise!Next
<1>6. ASSUME NEW e \in Entrants, RefreshScore(e) PROVE UNCHANGED Promise!vars
  <2>1. /\ UNCHANGED <<oracle, entries>>
        /\ config' = [config EXCEPT !.tallied = TRUE, !.best = Improved(e),
                                    !.refreshed_count = Counted + 1]
    BY <1>6, RefreshScoreEffect DEF RefreshScore
  <2>2. UNCHANGED <<config.state, config.winner>>
    BY <2>1 DEF TypeOK, ConfigType
  <2> QED BY <1>a, <2>1, <2>2, SamePhase
<1>7. ASSUME NEW w \in Wallets, NEW e \in Entrants, Finalize(w, e)
      PROVE  Promise!Next
  BY <1>7, AwardStep DEF Promise!Next
<1>8. ASSUME UNCHANGED <<config, oracle, entries>>
      PROVE  UNCHANGED Promise!vars
  BY <1>8, <1>a, SamePhase
<1>9. ASSUME \/ \E w \in Wallets : Claim(w)
             \/ \E e \in Entrants : CloseBracket(e)
             \/ Tick
             \/ \E w \in Givers : \E n \in 1 .. wallet[w] : GiveVault(w, n)
             \/ \E w \in Givers, e \in Entrants : \E n \in 1 .. wallet[w] :
                  GiveBracket(w, e, n)
             \/ UNCHANGED vars
      PROVE  UNCHANGED <<config, oracle, entries>>
  BY <1>9 DEF Claim, CloseBracket, Tick, GiveVault, GiveBracket, vars
<1> QED BY <1>1, <1>2, <1>3, <1>4, <1>5, <1>6, <1>7, <1>8, <1>9 DEF Next

\* The program implements the contest: whatever instructions, gifts and folds
\* interleave, entrants see entries made in turn, registration closed, the truth
\* told, and the prize awarded to the entry that ranks first, or nothing.
THEOREM ProgramImplementsContest == Spec => ImplementsContest
<1>1. Init => (TypeOK /\ RankInv) /\ Promise!Init
  BY TypeInitially, RankInitially, ContestStarts
<1>2. (TypeOK /\ RankInv) /\ [Next]_vars
        => (TypeOK /\ RankInv)' /\ [Promise!Next]_(Promise!vars)
  BY TypeStep, RankStep, ContestStep
<1> QED BY <1>1, <1>2, PTL DEF Spec, ImplementsContest, Promise!Spec

(***************************************************************************)
(* Brackets: what validate_bracket accepts are the tournaments that can be *)
(* played out.                                                             *)
(***************************************************************************)

\* A game and the two that feed it.
LEMMA AfterRules ==
  /\ \A g \in 0 .. FINAL - 1 :
       /\ After(g) \in Knockout /\ g < After(g)
       /\ g \in {2 * (After(g) - LEAVES), 2 * (After(g) - LEAVES) + 1}
  /\ \A g \in Knockout : \A c \in {2 * (g - LEAVES), 2 * (g - LEAVES) + 1} :
       c \in 0 .. FINAL - 1 /\ c < g /\ After(c) = g
BY Tree DEF After

LEMMA KnockoutsAreGames == Knockout \subseteq Game
BY Tree

\* The recursion behind Way.
Climbs(way) ==
  way = [n \in 0 .. 5 |-> [t \in Team |-> IF n = 0 THEN t \div 2 ELSE After(way[n - 1][t])]]

LEMMA ClimbExists == \E way : Climbs(way)
<1> DEFINE a0(t) == t \div 2
           a1(t) == After(a0(t))
           a2(t) == After(a1(t))
           a3(t) == After(a2(t))
           a4(t) == After(a3(t))
           a5(t) == After(a4(t))
           a(n, t) == IF n = 0 THEN a0(t) ELSE IF n = 1 THEN a1(t) ELSE IF n = 2 THEN a2(t)
                      ELSE IF n = 3 THEN a3(t) ELSE IF n = 4 THEN a4(t) ELSE a5(t)
           way == [n \in 0 .. 5 |-> [t \in Team |-> a(n, t)]]
<1>1. ASSUME NEW n \in 0 .. 5, NEW t \in Team
      PROVE  a(n, t) = IF n = 0 THEN t \div 2 ELSE After(a(n - 1, t))
  <2>1. n \in {0, 1, 2, 3, 4, 5}
    OBVIOUS
  <2>2. /\ a(0, t) = t \div 2 /\ a(1, t) = After(a(0, t)) /\ a(2, t) = After(a(1, t))
        /\ a(3, t) = After(a(2, t)) /\ a(4, t) = After(a(3, t)) /\ a(5, t) = After(a(4, t))
    OBVIOUS
  <2> HIDE DEF a
  <2> QED BY <2>1, <2>2
<1> HIDE DEF a
<1>2. ASSUME NEW n \in 0 .. 5, NEW t \in Team
      PROVE  a(n, t) = IF n = 0 THEN t \div 2 ELSE After(way[n - 1][t])
  <2>1. CASE n = 0
    BY <1>1, <2>1
  <2>2. CASE n # 0
    <3>1. n - 1 \in 0 .. 5
      BY <2>2
    <3>2. way[n - 1][t] = a(n - 1, t)
      BY <3>1
    <3> QED BY <1>1, <2>2, <3>2
  <2> QED BY <2>1, <2>2
<1>3. Climbs(way)
  <2> DEFINE v == way
  <2>1. way = v /\ \A n \in 0 .. 5, t \in Team :
          a(n, t) = IF n = 0 THEN t \div 2 ELSE After(v[n - 1][t])
    BY <1>2
  <2>2. way = [n \in 0 .. 5 |-> [t \in Team |-> IF n = 0 THEN t \div 2 ELSE After(v[n - 1][t])]]
    <3> HIDE DEF v
    <3> QED BY <2>1
  <2> HIDE DEF way
  <2> QED BY <2>1, <2>2 DEF Climbs
<1> QED BY <1>3

\* A way has one game per round: R games from a leaf, and the final.
WaysAre(R) ==
  \A t \in Team :
    /\ Len(Way[t]) = R + 1 /\ Way[t][1] = t \div 2
    /\ \A n \in 1 .. R + 1 : Way[t][n] \in 0 .. FINAL
    /\ \A n \in 1 .. R : Way[t][n] < FINAL /\ Way[t][n + 1] = After(Way[t][n])
    /\ Way[t][R + 1] = FINAL

LEMMA WaysExist == \E R \in 2 .. 4 : WaysAre(R)
<1> DEFINE way == CHOOSE way : Climbs(way)
           last == CHOOSE n \in 0 .. 5 : way[n][0] = FINAL
<1>1. Climbs(way)
  BY ClimbExists
<1>2. Way = [t \in Team |-> [n \in 1 .. last + 1 |-> way[n - 1][t]]]
  BY DEF Way, Climbs
<1> HIDE DEF way
<1>3. ASSUME NEW t \in Team
      PROVE  /\ way[0][t] = t \div 2
             /\ \A n \in 0 .. 4 : way[n + 1][t] = After(way[n][t])
  <2> DEFINE v == [n \in 0 .. 5 |-> [x \in Team |->
                     IF n = 0 THEN x \div 2 ELSE After(way[n - 1][x])]]
  <2>1. way = v
    BY <1>1 DEF Climbs
  <2>2. v[0][t] = t \div 2
    OBVIOUS
  <2>3. ASSUME NEW n \in 0 .. 4 PROVE v[n + 1][t] = After(way[n][t])
    <3>1. n + 1 \in 0 .. 5 /\ n + 1 # 0 /\ (n + 1) - 1 = n
      OBVIOUS
    <3>2. v[n + 1][t] = After(way[(n + 1) - 1][t])
      BY <3>1
    <3> QED BY <3>1, <3>2
  <2> HIDE DEF v
  <2> QED BY <2>1, <2>2, <2>3
<1>4. 0 \in Team /\ FINAL = 2 * LEAVES - 2 /\ Team = 0 .. 2 * LEAVES - 1
  BY Tree DEF Team
\* The games a team can play round by round.
<1>5. ASSUME NEW t \in Team
      PROVE  /\ way[1][t] = LEAVES + (t \div 2) \div 2
             /\ way[2][t] = LEAVES + way[1][t] \div 2
             /\ way[3][t] = LEAVES + way[2][t] \div 2
             /\ way[4][t] = LEAVES + way[3][t] \div 2
             /\ way[5][t] = LEAVES + way[4][t] \div 2
             /\ t \div 2 \in 0 .. LEAVES - 1
  <2>1. /\ way[0 + 1][t] = After(way[0][t]) /\ way[1 + 1][t] = After(way[1][t])
        /\ way[2 + 1][t] = After(way[2][t]) /\ way[3 + 1][t] = After(way[3][t])
        /\ way[4 + 1][t] = After(way[4][t]) /\ way[0][t] = t \div 2
    BY <1>3
  <2>2. t \div 2 \in 0 .. LEAVES - 1
    BY <1>4, Tree
  <2> QED BY <2>1, <2>2 DEF After
<1>6. CASE LEAVES = 4
  <2>1. ASSUME NEW t \in Team
        PROVE  /\ way[0][t] \in 0 .. 3 /\ way[1][t] \in 4 .. 5 /\ way[2][t] = 6
               /\ way[3][t] = 7 /\ way[4][t] = 7 /\ way[5][t] = 7
    <3>1. way[0][t] \in 0 .. 3
      BY <1>3, <1>5, <1>6
    <3>2. way[1][t] \in 4 .. 5
      BY <1>5, <1>6
    <3>3. way[2][t] = 6
      BY <1>5, <1>6, <3>2
    <3> QED BY <1>5, <1>6, <3>1, <3>2, <3>3
  <2>2. last = 2
    <3>1. \A n \in 0 .. 5 : (way[n][0] = FINAL) <=> (n = 2)
      <4>1. \A n \in 0 .. 5 : n \in {0, 1, 2, 3, 4, 5}
        OBVIOUS
      <4> QED BY <1>4, <1>6, <2>1, <4>1
    <3> QED BY <3>1
  <2>3. WaysAre(2)
    <3> SUFFICES ASSUME NEW t \in Team
                 PROVE  /\ Len(Way[t]) = 2 + 1 /\ Way[t][1] = t \div 2
                        /\ \A n \in 1 .. 2 + 1 : Way[t][n] \in 0 .. FINAL
                        /\ \A n \in 1 .. 2 : Way[t][n] < FINAL /\ Way[t][n + 1] = After(Way[t][n])
                        /\ Way[t][2 + 1] = FINAL
      BY DEF WaysAre
    <3> HIDE DEF last
    <3>1. Way[t] = [n \in 1 .. 3 |-> way[n - 1][t]]
      BY <1>2, <2>2
    <3>2. Len(Way[t]) = 3 /\ Way[t][1] = way[0][t] /\ Way[t][2] = way[1][t] /\ Way[t][3] = way[2][t]
      BY <3>1
    <3>3. way[0 + 1][t] = After(way[0][t]) /\ way[1 + 1][t] = After(way[1][t])
      BY <1>3
    <3>4. \A n \in 1 .. 3 : n \in {1, 2, 3}
      OBVIOUS
    <3>5. \A n \in 1 .. 2 : n \in {1, 2}
      OBVIOUS
    <3> QED BY <1>3, <1>4, <1>6, <2>1, <3>2, <3>3, <3>4, <3>5
  <2> QED BY <2>3
<1>7. CASE LEAVES = 8
  <2>1. ASSUME NEW t \in Team
        PROVE  /\ way[0][t] \in 0 .. 7 /\ way[1][t] \in 8 .. 11 /\ way[2][t] \in 12 .. 13
               /\ way[3][t] = 14 /\ way[4][t] = 15 /\ way[5][t] = 15
    <3>1. way[0][t] \in 0 .. 7
      BY <1>3, <1>5, <1>7
    <3>2. way[1][t] \in 8 .. 11
      BY <1>5, <1>7
    <3>3. way[2][t] \in 12 .. 13
      BY <1>5, <1>7, <3>2
    <3>4. way[3][t] = 14
      BY <1>5, <1>7, <3>3
    <3> QED BY <1>5, <1>7, <3>1, <3>2, <3>3, <3>4
  <2>2. last = 3
    <3>1. \A n \in 0 .. 5 : (way[n][0] = FINAL) <=> (n = 3)
      <4>1. \A n \in 0 .. 5 : n \in {0, 1, 2, 3, 4, 5}
        OBVIOUS
      <4> QED BY <1>4, <1>7, <2>1, <4>1
    <3> QED BY <3>1
  <2>3. WaysAre(3)
    <3> SUFFICES ASSUME NEW t \in Team
                 PROVE  /\ Len(Way[t]) = 3 + 1 /\ Way[t][1] = t \div 2
                        /\ \A n \in 1 .. 3 + 1 : Way[t][n] \in 0 .. FINAL
                        /\ \A n \in 1 .. 3 : Way[t][n] < FINAL /\ Way[t][n + 1] = After(Way[t][n])
                        /\ Way[t][3 + 1] = FINAL
      BY DEF WaysAre
    <3> HIDE DEF last
    <3>1. Way[t] = [n \in 1 .. 4 |-> way[n - 1][t]]
      BY <1>2, <2>2
    <3>2. /\ Len(Way[t]) = 4 /\ Way[t][1] = way[0][t] /\ Way[t][2] = way[1][t]
          /\ Way[t][3] = way[2][t] /\ Way[t][4] = way[3][t]
      BY <3>1
    <3>3. /\ way[0 + 1][t] = After(way[0][t]) /\ way[1 + 1][t] = After(way[1][t])
          /\ way[2 + 1][t] = After(way[2][t])
      BY <1>3
    <3>4. \A n \in 1 .. 4 : n \in {1, 2, 3, 4}
      OBVIOUS
    <3>5. \A n \in 1 .. 3 : n \in {1, 2, 3}
      OBVIOUS
    <3>6. /\ way[0][t] \in 0 .. 7 /\ way[1][t] \in 8 .. 11 /\ way[2][t] \in 12 .. 13
          /\ way[3][t] = 14
      BY <2>1
    <3>7. \A n \in 1 .. 3 + 1 : Way[t][n] \in 0 .. FINAL
      <4>1. /\ Way[t][1] \in 0 .. FINAL /\ Way[t][2] \in 0 .. FINAL
            /\ Way[t][3] \in 0 .. FINAL /\ Way[t][4] \in 0 .. FINAL
        BY <1>4, <1>7, <3>2, <3>6
      <4> QED BY <3>4, <4>1
    <3>8. \A n \in 1 .. 3 : Way[t][n] < FINAL /\ Way[t][n + 1] = After(Way[t][n])
      <4>1. Way[t][1] < FINAL /\ Way[t][2] < FINAL /\ Way[t][3] < FINAL
        BY <1>4, <1>7, <3>2, <3>6
      <4>2. /\ Way[t][1 + 1] = After(Way[t][1]) /\ Way[t][2 + 1] = After(Way[t][2])
            /\ Way[t][3 + 1] = After(Way[t][3])
        BY <3>2, <3>3
      <4> QED BY <3>5, <4>1, <4>2
    <3> QED BY <1>3, <1>4, <1>7, <3>2, <3>6, <3>7, <3>8
  <2> QED BY <2>3
<1>8. CASE LEAVES = 16
  <2>1. ASSUME NEW t \in Team
        PROVE  /\ way[0][t] \in 0 .. 15 /\ way[1][t] \in 16 .. 23 /\ way[2][t] \in 24 .. 27
               /\ way[3][t] \in 28 .. 29 /\ way[4][t] = 30 /\ way[5][t] = 31
    <3>1. way[0][t] \in 0 .. 15
      BY <1>3, <1>5, <1>8
    <3>2. way[1][t] \in 16 .. 23
      BY <1>5, <1>8
    <3>3. way[2][t] \in 24 .. 27
      BY <1>5, <1>8, <3>2
    <3>4. way[3][t] \in 28 .. 29
      BY <1>5, <1>8, <3>3
    <3>5. way[4][t] = 30
      BY <1>5, <1>8, <3>4
    <3> QED BY <1>5, <1>8, <3>1, <3>2, <3>3, <3>4, <3>5
  <2>2. last = 4
    <3>1. \A n \in 0 .. 5 : (way[n][0] = FINAL) <=> (n = 4)
      <4>1. \A n \in 0 .. 5 : n \in {0, 1, 2, 3, 4, 5}
        OBVIOUS
      <4> QED BY <1>4, <1>8, <2>1, <4>1
    <3> QED BY <3>1
  <2>3. WaysAre(4)
    <3> SUFFICES ASSUME NEW t \in Team
                 PROVE  /\ Len(Way[t]) = 4 + 1 /\ Way[t][1] = t \div 2
                        /\ \A n \in 1 .. 4 + 1 : Way[t][n] \in 0 .. FINAL
                        /\ \A n \in 1 .. 4 : Way[t][n] < FINAL /\ Way[t][n + 1] = After(Way[t][n])
                        /\ Way[t][4 + 1] = FINAL
      BY DEF WaysAre
    <3> HIDE DEF last
    <3>1. Way[t] = [n \in 1 .. 5 |-> way[n - 1][t]]
      BY <1>2, <2>2
    <3>2. /\ Len(Way[t]) = 5 /\ Way[t][1] = way[0][t] /\ Way[t][2] = way[1][t]
          /\ Way[t][3] = way[2][t] /\ Way[t][4] = way[3][t] /\ Way[t][5] = way[4][t]
      BY <3>1
    <3>3. /\ way[0 + 1][t] = After(way[0][t]) /\ way[1 + 1][t] = After(way[1][t])
          /\ way[2 + 1][t] = After(way[2][t]) /\ way[3 + 1][t] = After(way[3][t])
      BY <1>3
    <3>4. \A n \in 1 .. 5 : n \in {1, 2, 3, 4, 5}
      OBVIOUS
    <3>5. \A n \in 1 .. 4 : n \in {1, 2, 3, 4}
      OBVIOUS
    <3>6. /\ way[0][t] \in 0 .. 15 /\ way[1][t] \in 16 .. 23 /\ way[2][t] \in 24 .. 27
          /\ way[3][t] \in 28 .. 29 /\ way[4][t] = 30
      BY <2>1
    <3>7. \A n \in 1 .. 4 + 1 : Way[t][n] \in 0 .. FINAL
      <4>1. /\ Way[t][1] \in 0 .. FINAL /\ Way[t][2] \in 0 .. FINAL /\ Way[t][3] \in 0 .. FINAL
            /\ Way[t][4] \in 0 .. FINAL /\ Way[t][5] \in 0 .. FINAL
        BY <1>4, <1>8, <3>2, <3>6
      <4> QED BY <3>4, <4>1
    <3>8. \A n \in 1 .. 4 : Way[t][n] < FINAL /\ Way[t][n + 1] = After(Way[t][n])
      <4>1. Way[t][1] < FINAL /\ Way[t][2] < FINAL /\ Way[t][3] < FINAL /\ Way[t][4] < FINAL
        BY <1>4, <1>8, <3>2, <3>6
      <4>2. /\ Way[t][1 + 1] = After(Way[t][1]) /\ Way[t][2 + 1] = After(Way[t][2])
            /\ Way[t][3 + 1] = After(Way[t][3]) /\ Way[t][4 + 1] = After(Way[t][4])
        BY <3>2, <3>3
      <4> QED BY <3>5, <4>1, <4>2
    <3> QED BY <1>3, <1>4, <1>8, <3>2, <3>6, <3>7, <3>8
  <2> QED BY <2>3
<1> QED BY <1>6, <1>7, <1>8, Tree

\* Along a way the games come later and later, so a way passes a game once.
LEMMA WaysRise ==
  ASSUME NEW R \in 2 .. 4, WaysAre(R), NEW t \in Team
  PROVE  /\ \A m, n \in 1 .. R + 1 : m < n => Way[t][m] < Way[t][n]
         /\ \A m, n \in 1 .. R + 1 : Way[t][m] = Way[t][n] => m = n
<1> DEFINE f(i) == Way[t][i]
<1>1. /\ \A n \in 1 .. R + 1 : f(n) \in Int
      /\ \A n \in 1 .. R : f(n) < f(n + 1)
  <2>1. \A n \in 1 .. R + 1 : f(n) \in 0 .. FINAL /\ FINAL \in Int
    BY Tree DEF WaysAre
  <2>2. ASSUME NEW n \in 1 .. R PROVE f(n) < f(n + 1)
    <3>1. n \in 1 .. R + 1 /\ f(n) < FINAL /\ f(n + 1) = After(f(n))
      BY DEF WaysAre
    <3>2. f(n) \in 0 .. FINAL - 1
      BY <2>1, <3>1
    <3> HIDE DEF f
    <3> QED BY <3>1, <3>2, AfterRules
  <2> QED BY <2>1, <2>2
<1> HIDE DEF f
<1>2. /\ f(1) < f(1 + 1) /\ f(2) < f(2 + 1)
      /\ (R >= 3 => f(3) < f(3 + 1)) /\ (R >= 4 => f(4) < f(4 + 1))
  <2>1. 1 \in 1 .. R /\ 2 \in 1 .. R /\ (R >= 3 => 3 \in 1 .. R) /\ (R >= 4 => 4 \in 1 .. R)
    OBVIOUS
  <2> QED BY <1>1, <2>1
<1>3. \A m, n \in 1 .. R + 1 : m < n => f(m) < f(n)
  <2>1. R + 1 \in {3, 4, 5}
    OBVIOUS
  <2>2. /\ f(1) \in Int /\ f(2) \in Int /\ f(3) \in Int
        /\ (R >= 3 => f(4) \in Int) /\ (R >= 4 => f(5) \in Int)
    BY <1>1
  <2>3. \A m \in 1 .. R + 1 : m \in {1, 2, 3, 4, 5} /\ (m = 4 => R >= 3) /\ (m = 5 => R >= 4)
    OBVIOUS
  <2> QED BY <1>2, <2>2, <2>3
<1>4. \A m, n \in 1 .. R + 1 : f(m) = f(n) => m = n
  <2> SUFFICES ASSUME NEW m \in 1 .. R + 1, NEW n \in 1 .. R + 1, f(m) = f(n), m # n PROVE FALSE
    OBVIOUS
  <2>1. m < n \/ n < m
    OBVIOUS
  <2>2. f(m) < f(n) \/ f(n) < f(m)
    BY <1>3, <2>1
  <2> QED BY <1>1, <2>2
<1> QED BY <1>3, <1>4 DEF f

\* The winner of a game is on its way there.
Passes(picks, g, R) == picks[g] \in Team /\ \E n \in 1 .. R + 1 : Way[picks[g]][n] = g

LEMMA WinnersPass ==
  ASSUME NEW R \in 2 .. 4, WaysAre(R), NEW picks, ValidBracket(picks), NEW g \in 0 .. FINAL
  PROVE  Passes(picks, g, R)
<1> DEFINE G == {m \in 0 .. FINAL : \A h \in 0 .. m : Passes(picks, h, R)}
<1>1. ASSUME NEW h \in 0 .. FINAL, \A c \in 0 .. h - 1 : Passes(picks, c, R)
      PROVE  Passes(picks, h, R)
  <2> DEFINE t == picks[h]
  <2>1. h \in Game /\ h # THIRD_PLACE_GAME /\ (h \in Leaf \/ h \in Knockout) /\ h \in Int
    BY Tree
  <2>2. t \in Team /\ t \in Contestants(picks, h)
    BY <2>1 DEF ValidBracket
  <2>3. CASE h \in Leaf
    <3>1. t \in {2 * h, 2 * h + 1}
      BY <2>1, <2>2, <2>3, LeafRules
    <3>2. t \div 2 = h
      BY <2>1, <3>1
    <3>3. Way[t][1] = h /\ 1 \in 1 .. R + 1
      BY <2>2, <3>2 DEF WaysAre
    <3> QED BY <2>2, <3>3 DEF Passes
  <2>4. CASE h \in Knockout
    <3> DEFINE c0 == 2 * (h - LEAVES)
               c1 == 2 * (h - LEAVES) + 1
    <3>1. t \in {picks[c0], picks[c1]}
      BY <2>1, <2>2, <2>4, KnockoutRules
    <3>2. PICK c \in {c0, c1} : t = picks[c]
      BY <3>1
    <3>3. c \in 0 .. FINAL - 1 /\ c < h /\ After(c) = h
      BY <2>4, AfterRules
    <3>4. c \in 0 .. h - 1
      BY <2>1, <3>3, Tree
    <3>5. PICK n \in 1 .. R + 1 : Way[t][n] = c
      BY <1>1, <3>2, <3>4 DEF Passes
    <3>6. n # R + 1
      BY <2>2, <3>3, <3>5, Tree DEF WaysAre
    <3>7. n \in 1 .. R /\ n + 1 \in 1 .. R + 1
      BY <3>6
    <3>8. Way[t][n + 1] = h
      BY <2>2, <3>3, <3>5, <3>7 DEF WaysAre
    <3> QED BY <2>2, <3>7, <3>8 DEF Passes
  <2> QED BY <2>1, <2>3, <2>4
<1>2. FINAL \in Nat
  BY Tree
<1>3. 0 \in G
  <2>1. 0 .. 0 = {0} /\ 0 \in 0 .. FINAL /\ 0 .. 0 - 1 = {}
    BY <1>2
  <2> QED BY <1>1, <2>1
<1>4. ASSUME NEW m \in 0 .. FINAL - 1, m \in G PROVE m + 1 \in G
  <2>1. m + 1 \in 0 .. FINAL /\ (m + 1) - 1 = m /\ 0 .. m + 1 = 0 .. m \cup {m + 1}
    BY <1>2
  <2>2. Passes(picks, m + 1, R)
    BY <1>1, <1>4, <2>1
  <2> QED BY <1>4, <2>1, <2>2
<1>5. \A m \in 0 .. FINAL : m \in G
  <2> HIDE DEF G
  <2> QED BY <1>2, <1>3, <1>4, Stepwise
<1>6. g \in 0 .. g /\ g \in 0 .. FINAL
  BY <1>2
<1> QED BY <1>5, <1>6

\* A set of positive numbers that has the one before each of its own is an interval.
LEMMA FirstOnes ==
  ASSUME NEW N \in Nat, NEW S \in SUBSET (1 .. N),
         \A n \in 1 .. N - 1 : n + 1 \in S => n \in S
  PROVE  \E n \in 0 .. N : S = 1 .. n
<1> DEFINE First(m) == \E n \in 0 .. m : S \cap (1 .. m) = 1 .. n
           G == {m \in 0 .. N : First(m)}
<1>1. 0 \in G
  <2>1. 1 .. 0 = {} /\ 0 \in 0 .. 0 /\ 0 \in 0 .. N
    OBVIOUS
  <2> QED BY <2>1
<1>2. ASSUME NEW m \in 0 .. N - 1, m \in G PROVE m + 1 \in G
  <2> DEFINE k == m + 1
  <2>1. PICK n \in 0 .. m : S \cap (1 .. m) = 1 .. n
    BY <1>2
  <2>2. k \in 0 .. N /\ 1 .. k = (1 .. m) \cup {k} /\ n \in 0 .. k
    OBVIOUS
  <2>3. CASE k \notin S
    <3>1. S \cap (1 .. k) = S \cap (1 .. m)
      BY <2>2, <2>3
    <3> QED BY <2>1, <2>2, <3>1
  <2>4. CASE k \in S
    <3>1. n = m
      <4>1. CASE m = 0
        BY <4>1
      <4>2. CASE m # 0
        <5>1. m \in 1 .. N - 1 /\ m \in 1 .. m
          BY <4>2
        <5>2. m \in S
          BY <2>4, <5>1
        <5>3. m \in 1 .. n
          BY <2>1, <5>1, <5>2
        <5> QED BY <5>3
      <4> QED BY <4>1, <4>2
    <3>2. S \cap (1 .. k) = 1 .. k
      <4> HIDE DEF k
      <4> QED BY <2>1, <2>2, <2>4, <3>1
    <3>3. k \in 0 .. k
      OBVIOUS
    <3> QED BY <2>2, <3>2, <3>3
  <2> QED BY <2>3, <2>4
<1>3. \A m \in 0 .. N : m \in G
  <2> HIDE DEF G
  <2> QED BY <1>1, <1>2, Stepwise
<1>4. N \in G
  BY <1>3
<1>5. S \cap (1 .. N) = S
  OBVIOUS
<1> QED BY <1>4, <1>5

Won(picks, t) == {g \in Game \ {THIRD_PLACE_GAME} : picks[g] = t}

\* In a valid bracket a team wins the first games of its way.
LEMMA WinsFirstGames ==
  ASSUME NEW R \in 2 .. 4, WaysAre(R), NEW picks, ValidBracket(picks), NEW t \in Team
  PROVE  \E n \in 0 .. R + 1 : Won(picks, t) = {Way[t][i] : i \in 1 .. n}
<1> DEFINE S == {n \in 1 .. R + 1 : picks[Way[t][n]] = t}
<1>1. Game \ {THIRD_PLACE_GAME} = 0 .. FINAL
  BY Tree
<1>2. \A n \in 1 .. R + 1 : Way[t][n] \in 0 .. FINAL
  BY DEF WaysAre
<1>3. Won(picks, t) = {Way[t][i] : i \in S}
  <2>1. ASSUME NEW g \in Won(picks, t) PROVE g \in {Way[t][i] : i \in S}
    <3>1. g \in 0 .. FINAL /\ picks[g] = t
      BY <1>1 DEF Won
    <3>2. PICK n \in 1 .. R + 1 : Way[t][n] = g
      BY <3>1, WinnersPass DEF Passes
    <3>3. n \in S
      BY <3>1, <3>2
    <3> QED BY <3>2, <3>3
  <2>2. ASSUME NEW i \in S PROVE Way[t][i] \in Won(picks, t)
    BY <1>1, <1>2 DEF Won
  <2> QED BY <2>1, <2>2
<1>4. ASSUME NEW n \in 1 .. R, n + 1 \in S PROVE n \in S
  <2> DEFINE c == Way[t][n]
             g == Way[t][n + 1]
  <2>1. n \in 1 .. R + 1 /\ c < FINAL /\ g = After(c) /\ c \in 0 .. FINAL /\ picks[g] = t
    BY <1>4 DEF WaysAre
  <2>2. c \in 0 .. FINAL - 1
    BY <2>1, Tree
  <2>3. g \in Knockout
    BY <2>1, <2>2, AfterRules
  <2>4. g \in Game
    BY <2>3, KnockoutsAreGames
  <2>5. t \in {picks[2 * (g - LEAVES)], picks[2 * (g - LEAVES) + 1]}
    BY <2>1, <2>3, <2>4, KnockoutRules DEF ValidBracket
  <2>6. PICK d \in {2 * (g - LEAVES), 2 * (g - LEAVES) + 1} : picks[d] = t
    BY <2>5
  <2>7. d \in 0 .. FINAL - 1 /\ d \in 0 .. FINAL /\ After(d) = g
    <3> HIDE DEF g
    <3>1. d \in 0 .. FINAL - 1 /\ After(d) = g
      BY <2>3, <2>6, AfterRules
    <3> QED BY <3>1, Tree
  <2>8. PICK m \in 1 .. R + 1 : Way[t][m] = d
    BY <2>6, <2>7, WinnersPass DEF Passes
  <2>9. m # R + 1
    <3>1. Way[t][R + 1] = FINAL /\ d # FINAL
      BY <2>7, Tree DEF WaysAre
    <3> QED BY <2>8, <3>1
  <2>10. m \in 1 .. R /\ m + 1 \in 1 .. R + 1 /\ n + 1 \in 1 .. R + 1
    BY <2>9
  <2>11. Way[t][m + 1] = g
    BY <2>7, <2>8, <2>10 DEF WaysAre
  <2>12. m + 1 = n + 1
    BY <2>10, <2>11, WaysRise
  <2>13. m = n
    BY <2>12
  <2> QED BY <2>1, <2>6, <2>8, <2>13
<1>5. S \in SUBSET (1 .. R + 1)
  OBVIOUS
<1>6. \E n \in 0 .. R + 1 : S = 1 .. n
  <2> HIDE DEF S
  <2>1. R + 1 \in Nat /\ (R + 1) - 1 = R
    OBVIOUS
  <2> QED BY <1>4, <1>5, <2>1, FirstOnes
<1> HIDE DEF S
<1> QED BY <1>3, <1>6

\* A team that won the first n games of its way won those and no others of it.
LEMMA WonOnWay ==
  ASSUME NEW R \in 2 .. 4, WaysAre(R), NEW picks, NEW t \in Team, NEW n \in 0 .. R + 1,
         Won(picks, t) = {Way[t][i] : i \in 1 .. n}, NEW j \in 1 .. R + 1
  PROVE  picks[Way[t][j]] = t <=> j <= n
<1>1. Way[t][j] \in Game \ {THIRD_PLACE_GAME}
  <2>1. Way[t][j] \in 0 .. FINAL
    BY DEF WaysAre
  <2> QED BY <2>1, Tree
<1>2. picks[Way[t][j]] = t <=> Way[t][j] \in Won(picks, t)
  BY <1>1 DEF Won
<1>3. Way[t][j] \in {Way[t][i] : i \in 1 .. n} <=> j <= n
  <2>1. ASSUME j <= n PROVE Way[t][j] \in {Way[t][i] : i \in 1 .. n}
    BY <2>1
  <2>2. ASSUME NEW i \in 1 .. n, Way[t][j] = Way[t][i] PROVE j <= n
    <3>1. i \in 1 .. R + 1
      OBVIOUS
    <3>2. j = i
      BY <2>2, <3>1, WaysRise
    <3> QED BY <3>2
  <2> QED BY <2>1, <2>2
<1> QED BY <1>2, <1>3

LEMMA TreeGames ==
  FINAL \in Nat /\ 0 .. FINAL - 1 \subseteq 0 .. FINAL /\ Game \ {THIRD_PLACE_GAME} = 0 .. FINAL
BY Tree

\* A game before the final on a way is followed by the one its winner plays next.
LEMMA NextOnWay ==
  ASSUME NEW R \in 2 .. 4, WaysAre(R), NEW t \in Team, NEW i \in 1 .. R + 1, NEW g,
         Way[t][i] = g, g # FINAL
  PROVE  i \in 1 .. R /\ i + 1 \in 1 .. R + 1 /\ Way[t][i + 1] = After(g)
<1>1. i # R + 1
  BY DEF WaysAre
<1>2. i \in 1 .. R /\ i + 1 \in 1 .. R + 1
  BY <1>1
<1> QED BY <1>2 DEF WaysAre

\* The final is the end of a way.
LEMMA FinalOnWay ==
  ASSUME NEW R \in 2 .. 4, WaysAre(R), NEW t \in Team, NEW i \in 1 .. R + 1,
         Way[t][i] = FINAL
  PROVE  i = R + 1
<1>1. Way[t][R + 1] = FINAL /\ R + 1 \in 1 .. R + 1
  BY DEF WaysAre
<1> QED BY <1>1, WaysRise

\* The playoff's feeders: a semifinal of the two, and the two games that feed it.
LEMMA SemifinalRules ==
  ASSUME NEW s \in {SF[1], SF[2]}, NEW r
  PROVE  LET c == 2 * (s - LEAVES)
         IN  /\ s \in Knockout /\ s \in 0 .. FINAL - 1 /\ After(s) = FINAL
             /\ c \in 0 .. FINAL - 1 /\ c + 1 \in 0 .. FINAL - 1
             /\ c \in Knockout \cup Leaf /\ After(c) = s /\ After(c + 1) = s
             /\ Loser(r, s) = IF r[s] = r[c] THEN r[c + 1] ELSE r[c]
<1>1. s \in Knockout /\ s \in 0 .. FINAL - 1 /\ After(s) = FINAL
  BY Tree DEF After
<1>2. /\ 2 * (s - LEAVES) \in 0 .. FINAL - 1 /\ 2 * (s - LEAVES) + 1 \in 0 .. FINAL - 1
      /\ After(2 * (s - LEAVES)) = s /\ After(2 * (s - LEAVES) + 1) = s
  BY <1>1, AfterRules
<1>3. 2 * (s - LEAVES) \in Knockout \cup Leaf
  BY <1>2, Tree
<1> QED BY <1>1, <1>2, <1>3 DEF Loser

\* The semifinal of a team, and the game before it.
LEMMA Semifinal ==
  ASSUME NEW R \in 2 .. 4, WaysAre(R), NEW t \in Team
  PROVE  LET s == Way[t][R]
             b == Way[t][R - 1]
             c == 2 * (s - LEAVES)
         IN  /\ s \in {SF[1], SF[2]} /\ b \in {c, c + 1} /\ b \in 0 .. FINAL - 1
             /\ \A g \in 0 .. FINAL - 1 : After(g) = FINAL => g \in {SF[1], SF[2]}
<1> DEFINE s == Way[t][R]
           b == Way[t][R - 1]
<1>1. /\ R \in 1 .. R /\ R - 1 \in 1 .. R /\ (R - 1) + 1 = R
      /\ R \in 1 .. R + 1 /\ R - 1 \in 1 .. R + 1
  OBVIOUS
<1>2. /\ s < FINAL /\ After(s) = FINAL /\ b < FINAL /\ s = After(b)
      /\ s \in 0 .. FINAL /\ b \in 0 .. FINAL
  BY <1>1 DEF WaysAre
<1> HIDE DEF s, b
<1>3. s \in 0 .. FINAL - 1 /\ b \in 0 .. FINAL - 1
  BY <1>2, Tree
<1>4. \A g \in 0 .. FINAL - 1 : After(g) = FINAL => g \in {SF[1], SF[2]}
  BY Tree DEF After
<1>5. b \in {2 * (s - LEAVES), 2 * (s - LEAVES) + 1}
  BY <1>2, <1>3, AfterRules
<1> QED BY <1>2, <1>3, <1>4, <1>5 DEF s, b

\* The two ends of the third place: who is third won all of its way but the semifinal and
\* the final, and so did the losers of the semifinals.
LEMMA ThirdIsLoser ==
  ASSUME NEW R \in 2 .. 4, WaysAre(R), NEW picks, NEW t \in Team, NEW n \in 0 .. R + 1,
         Won(picks, t) = {Way[t][i] : i \in 1 .. n},
         NEW s \in {SF[1], SF[2]},
         LET c == 2 * (s - LEAVES)
         IN  /\ picks[s] \in {picks[c], picks[c + 1]} /\ picks[c] # picks[c + 1]
             /\ Loser(picks, s) = t
  PROVE  n = R - 1
<1> DEFINE c == 2 * (s - LEAVES)
<1>1. /\ c \in 0 .. FINAL - 1 /\ c + 1 \in 0 .. FINAL - 1
      /\ After(c) = s /\ After(c + 1) = s
      /\ Loser(picks, s) = IF picks[s] = picks[c] THEN picks[c + 1] ELSE picks[c]
      /\ s \in 0 .. FINAL - 1 /\ After(s) = FINAL
  BY SemifinalRules
<1> HIDE DEF c
<1>2. PICK d \in {c, c + 1} : picks[d] = t
  BY <1>1
<1>3. picks[s] # t
  BY <1>1 DEF c
<1>4. d \in 0 .. FINAL - 1 /\ After(d) = s /\ d # FINAL /\ s # FINAL
  BY <1>1, <1>2, TreeGames
<1>5. d \in Game \ {THIRD_PLACE_GAME}
  BY <1>4, TreeGames
<1>6. d \in Won(picks, t)
  BY <1>2, <1>5 DEF Won
<1>7. PICK i \in 1 .. n : Way[t][i] = d
  BY <1>6
<1>8. i \in 1 .. R + 1
  OBVIOUS
<1>9. i + 1 \in 1 .. R + 1 /\ Way[t][i + 1] = s
  BY <1>4, <1>7, <1>8, NextOnWay
<1>10. ~(i + 1 <= n)
  BY <1>3, <1>9, WonOnWay
<1>11. (i + 1) + 1 \in 1 .. R + 1 /\ Way[t][(i + 1) + 1] = FINAL
  <2> DEFINE j == i + 1
  <2>1. j \in 1 .. R + 1 /\ Way[t][j] = s
    BY <1>9
  <2> HIDE DEF j
  <2>2. j + 1 \in 1 .. R + 1 /\ Way[t][j + 1] = FINAL
    BY <1>1, <1>4, <2>1, NextOnWay
  <2> QED BY <2>2 DEF j
<1>12. (i + 1) + 1 = R + 1
  BY <1>11, FinalOnWay
<1> QED BY <1>7, <1>10, <1>12

\* The teams that meet in a game are two.
LEMMA FeedersDiffer ==
  ASSUME NEW R \in 2 .. 4, WaysAre(R), NEW picks,
         NEW c \in 0 .. FINAL - 1, NEW d \in 0 .. FINAL - 1, c # d, After(c) = After(d),
         Passes(picks, c, R), Passes(picks, d, R)
  PROVE  picks[c] # picks[d]
<1> SUFFICES ASSUME picks[c] = picks[d] PROVE FALSE
  OBVIOUS
<1> DEFINE t == picks[c]
<1>1. t \in Team
  BY DEF Passes
<1>2. PICK i \in 1 .. R + 1 : Way[t][i] = c
  BY DEF Passes
<1>3. PICK j \in 1 .. R + 1 : Way[t][j] = d
  BY DEF Passes
<1>4. c # FINAL /\ d # FINAL
  BY TreeGames
<1> HIDE DEF t
<1>5. /\ i + 1 \in 1 .. R + 1 /\ Way[t][i + 1] = After(c)
      /\ j + 1 \in 1 .. R + 1 /\ Way[t][j + 1] = After(d)
  BY <1>1, <1>2, <1>3, <1>4, NextOnWay
<1>6. i + 1 = j + 1
  BY <1>1, <1>5, WaysRise
<1>7. i = j
  BY <1>6
<1> QED BY <1>2, <1>3, <1>7

\* What Playable says, by the games won.
LEMMA PlayableIs ==
  ASSUME NEW R \in 2 .. 4, WaysAre(R), NEW picks
  PROVE  Playable(picks) <=>
           /\ \A g \in Game : picks[g] \in Team
           /\ \A t \in Team : \E n \in 0 .. R + 1 : Won(picks, t) = {Way[t][i] : i \in 1 .. n}
           /\ LET third == picks[THIRD_PLACE_GAME]
              IN  Won(picks, third) = {Way[third][i] : i \in 1 .. R - 1}
<1> DEFINE third == picks[THIRD_PLACE_GAME]
           wins == [t \in Team |-> {g \in Game \ {THIRD_PLACE_GAME} : picks[g] = t}]
           A == \A g \in Game : picks[g] \in Team
           B == \A t \in Team : \E n \in 0 .. Len(Way[t]) :
                  wins[t] = {Way[t][i] : i \in 1 .. n}
           C == wins[third] = {Way[third][i] : i \in 1 .. Len(Way[third]) - 2}
           B2 == \A t \in Team : \E n \in 0 .. R + 1 :
                   Won(picks, t) = {Way[t][i] : i \in 1 .. n}
           C2 == Won(picks, third) = {Way[third][i] : i \in 1 .. R - 1}
<1>1. Playable(picks) <=> A /\ B /\ C
  BY DEF Playable
<1>2. \A t \in Team : Len(Way[t]) = R + 1 /\ wins[t] = Won(picks, t)
  BY DEF WaysAre, Won
<1>3. A => third \in Team
  BY Tree
<1>4. B <=> B2
  <2> HIDE DEF wins
  <2> QED BY <1>2
<1>5. A => (C <=> C2)
  <2> SUFFICES ASSUME third \in Team PROVE C <=> C2
    BY <1>3
  <2>1. Len(Way[third]) - 2 = R - 1 /\ wins[third] = Won(picks, third)
    <3> HIDE DEF wins, third
    <3> QED BY <1>2
  <2> HIDE DEF wins, third
  <2> QED BY <2>1
<1> HIDE DEF A, B, C, B2, C2
<1>6. Playable(picks) <=> A /\ B2 /\ C2
  BY <1>1, <1>4, <1>5
<1> QED BY <1>6 DEF A, B2, C2

\* A valid bracket can be played out.
LEMMA ValidIsPlayable ==
  ASSUME NEW R \in 2 .. 4, WaysAre(R), NEW picks, ValidBracket(picks)
  PROVE  Playable(picks)
<1> DEFINE third == picks[THIRD_PLACE_GAME]
<1>1. \A g \in Game : picks[g] \in Team
  BY DEF ValidBracket
<1>2. \A t \in Team : \E n \in 0 .. R + 1 : Won(picks, t) = {Way[t][i] : i \in 1 .. n}
  BY WinsFirstGames
<1>3. THIRD_PLACE_GAME \in Game /\ THIRD_PLACE_GAME \notin Leaf /\ THIRD_PLACE_GAME \notin Knockout
  BY Tree
<1>4. third \in Team /\ third \in {Loser(picks, SF[1]), Loser(picks, SF[2])}
  BY <1>3 DEF ValidBracket, Contestants, ThirdPlaceSlots
<1>5. PICK s \in {SF[1], SF[2]} : Loser(picks, s) = third
  BY <1>4
<1> DEFINE c == 2 * (s - LEAVES)
<1>6. /\ s \in Knockout /\ c \in 0 .. FINAL - 1 /\ c + 1 \in 0 .. FINAL - 1
      /\ After(c) = s /\ After(c + 1) = s
  BY SemifinalRules
<1>7. s \in Game /\ picks[s] \in {picks[c], picks[c + 1]}
  <2>1. s \in Game
    BY <1>6, Tree
  <2>2. picks[s] \in Contestants(picks, s)
    BY <2>1 DEF ValidBracket
  <2> QED BY <1>6, <2>1, <2>2, KnockoutRules
<1>8. c # c + 1 /\ Passes(picks, c, R) /\ Passes(picks, c + 1, R)
  BY <1>6, TreeGames, WinnersPass
<1>9. picks[c] # picks[c + 1]
  <2> HIDE DEF c
  <2> QED BY <1>6, <1>8, FeedersDiffer
<1>10. PICK n \in 0 .. R + 1 : Won(picks, third) = {Way[third][i] : i \in 1 .. n}
  BY <1>2, <1>4
<1>11. n = R - 1
  <2> HIDE DEF third
  <2> QED BY <1>4, <1>5, <1>7, <1>9, <1>10, ThirdIsLoser
<1>12. Won(picks, third) = {Way[third][i] : i \in 1 .. R - 1}
  BY <1>10, <1>11
<1> QED BY <1>1, <1>2, <1>12, PlayableIs

\* A bracket that can be played out is valid.
LEMMA PlayableIsValid ==
  ASSUME NEW R \in 2 .. 4, WaysAre(R), NEW picks, Playable(picks)
  PROVE  ValidBracket(picks)
<1> DEFINE third == picks[THIRD_PLACE_GAME]
<1>1. /\ \A g \in Game : picks[g] \in Team
      /\ \A t \in Team : \E n \in 0 .. R + 1 : Won(picks, t) = {Way[t][i] : i \in 1 .. n}
      /\ Won(picks, third) = {Way[third][i] : i \in 1 .. R - 1}
  BY PlayableIs
\* A game of the tree is on the way of its winner, who won the game before.
<1>2. ASSUME NEW g \in 0 .. FINAL
      PROVE  \E i \in 1 .. R + 1 :
               /\ Way[picks[g]][i] = g
               /\ i # 1 => i - 1 \in 1 .. R /\ picks[Way[picks[g]][i - 1]] = picks[g]
  <2> DEFINE t == picks[g]
  <2>1. g \in Game \ {THIRD_PLACE_GAME} /\ t \in Team
    BY <1>1, TreeGames
  <2>2. PICK n \in 0 .. R + 1 : Won(picks, t) = {Way[t][i] : i \in 1 .. n}
    BY <1>1, <2>1
  <2>3. g \in Won(picks, t)
    BY <2>1 DEF Won
  <2>4. PICK i \in 1 .. n : Way[t][i] = g
    BY <2>2, <2>3
  <2>5. i \in 1 .. R + 1
    OBVIOUS
  <2>6. ASSUME i # 1 PROVE i - 1 \in 1 .. R /\ picks[Way[t][i - 1]] = t
    <3>1. i - 1 \in 1 .. R /\ i - 1 \in 1 .. R + 1 /\ i - 1 <= n
      BY <2>5, <2>6
    <3> HIDE DEF t
    <3> QED BY <2>1, <2>2, <3>1, WonOnWay
  <2> QED BY <2>4, <2>5, <2>6
<1>3. ASSUME NEW g \in Leaf PROVE picks[g] \in Contestants(picks, g)
  <2> DEFINE t == picks[g]
  <2>1. g \in 0 .. FINAL /\ g \in Game /\ g \notin Knockout
    BY Tree
  <2>2. PICK i \in 1 .. R + 1 : Way[t][i] = g
    BY <1>2, <2>1
  <2>3. t \in Team
    BY <1>1, <2>1
  <2>4. i = 1
    <3> SUFFICES ASSUME i # 1 PROVE FALSE
      OBVIOUS
    <3>1. i - 1 \in 1 .. R /\ (i - 1) + 1 = i
      OBVIOUS
    <3>2. Way[t][i - 1] \in 0 .. FINAL /\ Way[t][i - 1] < FINAL /\ g = After(Way[t][i - 1])
      <4>1. i - 1 \in 1 .. R + 1
        BY <3>1
      <4> HIDE DEF t
      <4>2. Way[t][(i - 1) + 1] = After(Way[t][i - 1])
        BY <2>3, <3>1 DEF WaysAre
      <4> QED BY <2>2, <2>3, <3>1, <4>1, <4>2 DEF WaysAre
    <3>3. Way[t][i - 1] \in 0 .. FINAL - 1
      BY <3>2, TreeGames
    <3>4. g \in Knockout
      BY <3>2, <3>3, AfterRules
    <3> QED BY <2>1, <3>4
  <2>5. t \div 2 = g
    BY <2>2, <2>3, <2>4 DEF WaysAre
  <2>6. t \in {2 * g, 2 * g + 1}
    <3>1. t \in Int /\ g \in Int
      BY <2>3, <2>1, Tree DEF Team
    <3> HIDE DEF t
    <3> QED BY <2>5, <3>1
  <2> QED BY <2>1, <2>6, LeafRules
<1>4. ASSUME NEW g \in Knockout PROVE picks[g] \in Contestants(picks, g)
  <2> DEFINE t == picks[g]
  <2>1. g \in 0 .. FINAL /\ g \in Game /\ g \notin Leaf
    BY Tree
  <2>2. PICK i \in 1 .. R + 1 :
          /\ Way[t][i] = g
          /\ i # 1 => i - 1 \in 1 .. R /\ picks[Way[t][i - 1]] = t
    BY <1>2, <2>1
  <2>3. t \in Team
    BY <1>1, <2>1
  <2>4. i # 1
    <3> SUFFICES ASSUME i = 1 PROVE FALSE
      OBVIOUS
    <3>1. g = t \div 2
      BY <2>2, <2>3 DEF WaysAre
    <3>2. t \div 2 \in Leaf
      BY <2>3, Tree DEF Team
    <3> QED BY <2>1, <3>1, <3>2
  <2> DEFINE c == Way[t][i - 1]
  <2>5. i - 1 \in 1 .. R /\ picks[c] = t
    BY <2>2, <2>4
  <2>6. i - 1 \in 1 .. R + 1 /\ (i - 1) + 1 = i
    BY <2>5
  <2> HIDE DEF t
  <2>7. c \in 0 .. FINAL /\ c < FINAL /\ Way[t][(i - 1) + 1] = After(c)
    BY <2>3, <2>5, <2>6 DEF WaysAre
  <2>8. g = After(c)
    BY <2>2, <2>6, <2>7
  <2> HIDE DEF c
  <2>9. c \in 0 .. FINAL - 1
    BY <2>7, TreeGames
  <2>10. c \in {2 * (g - LEAVES), 2 * (g - LEAVES) + 1}
    BY <2>8, <2>9, AfterRules
  <2> QED BY <2>1, <2>5, <2>10, KnockoutRules DEF t
<1>5. third \in Contestants(picks, THIRD_PLACE_GAME)
  <2>1. THIRD_PLACE_GAME \in Game /\ THIRD_PLACE_GAME \notin Leaf
        /\ THIRD_PLACE_GAME \notin Knockout
    BY Tree
  <2>2. third \in Team
    BY <1>1, <2>1
  <2> HIDE DEF third
  <2> DEFINE s == Way[third][R]
             b == Way[third][R - 1]
             c == 2 * (s - LEAVES)
  <2>3. s \in {SF[1], SF[2]} /\ b \in {c, c + 1} /\ b \in 0 .. FINAL - 1
    BY <2>2, Semifinal
  <2>4. R - 1 \in 0 .. R + 1 /\ R - 1 \in 1 .. R + 1 /\ R \in 1 .. R + 1
        /\ R - 1 <= R - 1 /\ ~(R <= R - 1)
    OBVIOUS
  <2>5. picks[b] = third /\ picks[s] # third
    BY <1>1, <2>2, <2>4, WonOnWay
  <2> HIDE DEF s, b
  <2>6. /\ s \in Knockout /\ Loser(picks, s) = IF picks[s] = picks[c] THEN picks[c + 1] ELSE picks[c]
    BY <2>3, SemifinalRules
  <2>7. picks[s] \in {picks[c], picks[c + 1]}
    <3>1. s \in Game
      BY <2>6, Tree
    <3> QED BY <1>4, <2>6, <3>1, KnockoutRules
  <2> HIDE DEF c
  <2>8. Loser(picks, s) = third
    BY <2>3, <2>5, <2>6, <2>7
  <2> QED BY <2>1, <2>3, <2>8 DEF Contestants, ThirdPlaceSlots
<1>6. \A g \in Game : g \in Leaf \/ g \in Knockout \/ g = THIRD_PLACE_GAME
  BY KindsOfGame
<1> QED BY <1>1, <1>3, <1>4, <1>5, <1>6 DEF ValidBracket

\* validate_bracket, which walks the array of picks once, accepts exactly the brackets in
\* which every team wins its games until it loses one and third is the loser of a
\* semifinal: for any array of picks, and any of the tree's sizes.
THEOREM AcceptsThePlayable == \A picks : ValidBracket(picks) <=> Playable(picks)
<1> SUFFICES ASSUME NEW picks PROVE ValidBracket(picks) <=> Playable(picks)
  OBVIOUS
<1>1. PICK R \in 2 .. 4 : WaysAre(R)
  BY WaysExist
<1> QED BY <1>1, ValidIsPlayable, PlayableIsValid

\* validate_bracket accepts exactly the brackets that can be played out, those of GameRules
\* and every other.
THEOREM AcceptsExactly == RulesSpec => []AcceptsExactlyThePlayable
<1>1. AcceptsExactlyThePlayable
  BY AcceptsThePlayable DEF AcceptsExactlyThePlayable
<1> QED BY <1>1, PTL

(***************************************************************************)
(* The score, with the tree and the weights of the code.                   *)
(***************************************************************************)

\* The weight of each game, written out.
GamePoints(g) ==
  IF g < 16 THEN 1 ELSE IF g < 24 THEN 2 ELSE IF g < 28 THEN 4 ELSE IF g < 30 THEN 8
  ELSE IF g = 30 THEN 16 ELSE 8

LEMMA WeightsOfCode ==
  ASSUME LEAVES = 16, ROUND_WEIGHT = CodeWeights, NEW g \in Game
  PROVE  Weight(g) = GamePoints(g) /\ GamePoints(g) \in Nat
<1>1. /\ Len(ROUND_WEIGHT) = 6
      /\ ROUND_WEIGHT[1] = 1 /\ ROUND_WEIGHT[2] = 2 /\ ROUND_WEIGHT[3] = 4
      /\ ROUND_WEIGHT[4] = 8 /\ ROUND_WEIGHT[5] = 16 /\ ROUND_WEIGHT[6] = 8
  BY DEF CodeWeights
<1>2. g \in 0 .. 31 /\ GAME_COUNT = 32
  BY Tree
<1>3. /\ 2^0 = 1 /\ 2^1 = 2 /\ 2^2 = 4 /\ 2^3 = 8 /\ 2^4 = 16 /\ 2^5 = 32 /\ 2^6 = 64
  OBVIOUS
<1>4. /\ FirstGame(0) = 0 /\ FirstGame(1) = 16 /\ FirstGame(2) = 24 /\ FirstGame(3) = 28
      /\ FirstGame(4) = 30 /\ FirstGame(5) = 31 /\ FirstGame(6) = 32
  BY <1>2, <1>3 DEF FirstGame
<1> DEFINE In(r) == FirstGame(r) <= g /\ g < FirstGame(r + 1)
           round == IF g < 16 THEN 0 ELSE IF g < 24 THEN 1 ELSE IF g < 28 THEN 2
                    ELSE IF g < 30 THEN 3 ELSE IF g = 30 THEN 4 ELSE 5
<1>5. \A r \in 0 .. 5 : In(r) <=> r = round
  <2>1. /\ In(0) <=> (0 <= g /\ g < 16)
        /\ In(1) <=> (16 <= g /\ g < 24)
        /\ In(2) <=> (24 <= g /\ g < 28)
        /\ In(3) <=> (28 <= g /\ g < 30)
        /\ In(4) <=> (30 <= g /\ g < 31)
        /\ In(5) <=> (31 <= g /\ g < 32)
    BY <1>4
  <2>2. \A r \in 0 .. 5 : r \in {0, 1, 2, 3, 4, 5}
    OBVIOUS
  <2> HIDE DEF In
  <2> QED BY <1>2, <2>1, <2>2
<1>6. Round(g) = CHOOSE r \in 0 .. 5 : In(r)
  BY <1>1 DEF Round
<1>7. Round(g) = round
  <2>1. round \in 0 .. 5
    OBVIOUS
  <2> HIDE DEF In, round
  <2> QED BY <1>5, <1>6, <2>1
<1>8. Weight(g) = ROUND_WEIGHT[round + 1]
  BY <1>7 DEF Weight
<1> QED BY <1>1, <1>2, <1>8 DEF GamePoints

\* The five games on the way of a team.
LEMMA WayOfCode ==
  ASSUME LEAVES = 16, NEW t \in Team
  PROVE  /\ Len(Way[t]) = 5
         /\ Way[t][1] = t \div 2 /\ Way[t][2] = 16 + (t \div 2) \div 2
         /\ Way[t][3] = 16 + Way[t][2] \div 2
         /\ Way[t][4] = 16 + Way[t][3] \div 2 /\ Way[t][5] = 30
<1>1. PICK R \in 2 .. 4 : WaysAre(R)
  BY WaysExist
<1>2. FINAL = 30 /\ t \in 0 .. 31
  BY Tree DEF Team
<1>3. ASSUME NEW x \in Team, x \in 0 .. 31
      PROVE  /\ Len(Way[x]) = R + 1 /\ Way[x][1] = x \div 2 /\ Way[x][R + 1] = 30
             /\ \A n \in 1 .. R : Way[x][n + 1] = 16 + Way[x][n] \div 2
  BY <1>1, <1>2 DEF WaysAre, After
<1>4. R = 4
  <2>1. 0 \in Team /\ 0 \in 0 .. 31
    BY Tree DEF Team
  <2>2. CASE R = 2
    <3>1. Way[0][1] = 0 \div 2 /\ Way[0][1 + 1] = 16 + Way[0][1] \div 2
          /\ Way[0][2 + 1] = 16 + Way[0][2] \div 2 /\ Way[0][2 + 1] = 30
      BY <1>3, <2>1, <2>2
    <3> QED BY <3>1
  <2>3. CASE R = 3
    <3>1. Way[0][1] = 0 \div 2 /\ Way[0][1 + 1] = 16 + Way[0][1] \div 2
          /\ Way[0][2 + 1] = 16 + Way[0][2] \div 2 /\ Way[0][3 + 1] = 16 + Way[0][3] \div 2
          /\ Way[0][3 + 1] = 30
      BY <1>3, <2>1, <2>3
    <3> QED BY <3>1
  <2> QED BY <2>2, <2>3
<1>5. /\ Len(Way[t]) = 5 /\ Way[t][1] = t \div 2 /\ Way[t][5] = 30
      /\ \A n \in 1 .. 4 : Way[t][n + 1] = 16 + Way[t][n] \div 2
  BY <1>2, <1>3, <1>4
<1>6. /\ Way[t][1 + 1] = 16 + Way[t][1] \div 2 /\ Way[t][2 + 1] = 16 + Way[t][2] \div 2
      /\ Way[t][3 + 1] = 16 + Way[t][3] \div 2
  BY <1>5
<1> QED BY <1>5, <1>6

\* How many teams can reach a game: a block of consecutive ones.
LEMMA ReachOfCode ==
  ASSUME LEAVES = 16, NEW g \in Game
  PROVE  Reach[g] = GamePoints(g)
<1> DEFINE S == {t \in Team : \E i \in 1 .. Len(Way[t]) : Way[t][i] = g}
<1>1. THIRD_PLACE_GAME = 31 /\ g \in 0 .. 31 /\ Team = 0 .. 31
  BY Tree DEF Team
<1>2. Reach[g] = IF g = 31 THEN 8 ELSE Cardinality(S) \div 2
  BY <1>1 DEF Reach
<1>3. ASSUME NEW t \in 0 .. 31
      PROVE  t \in S <=> \/ g = t \div 2
                         \/ g = 16 + (t \div 2) \div 2
                         \/ g = 16 + (16 + (t \div 2) \div 2) \div 2
                         \/ g = 16 + (16 + (16 + (t \div 2) \div 2) \div 2) \div 2
                         \/ g = 30
  <2> DEFINE W == Way[t]
  <2>1. /\ Len(W) = 5
        /\ W[1] = t \div 2 /\ W[2] = 16 + (t \div 2) \div 2
        /\ W[3] = 16 + W[2] \div 2
        /\ W[4] = 16 + W[3] \div 2 /\ W[5] = 30
    BY <1>1, WayOfCode
  <2>2. t \in S <=> \E i \in 1 .. Len(W) : W[i] = g
    BY <1>1
  <2> HIDE DEF W, S
  <2>3. \A i \in 1 .. 5 : i \in {1, 2, 3, 4, 5}
    OBVIOUS
  <2>4. t \in S <=> (W[1] = g \/ W[2] = g \/ W[3] = g \/ W[4] = g \/ W[5] = g)
    BY <2>1, <2>2, <2>3
  <2> QED BY <2>1, <2>4
<1>4. S \subseteq 0 .. 31
  BY <1>1
<1> HIDE DEF S
<1> DEFINE Block(a, n) == \A t \in 0 .. 31 : t \in S <=> a <= t /\ t < a + n
<1>5. ASSUME NEW a \in Nat, NEW n \in Nat \ {0}, a + n <= 32, Block(a, n)
      PROVE  Cardinality(S) = n
  <2>1. \A t \in S : t \in a .. a + n - 1
    BY <1>4, <1>5
  <2>2. \A t \in a .. a + n - 1 : t \in S
    BY <1>5
  <2>3. S = a .. a + n - 1
    BY <2>1, <2>2
  <2>4. Cardinality(a .. (a + n - 1)) = IF a > a + n - 1 THEN 0 ELSE (a + n - 1) - a + 1
    BY FS_Interval
  <2> QED BY <2>3, <2>4
<1>6. CASE g < 16
  <2> DEFINE a == 2 * g
  <2>1. a \in Nat /\ 2 \in Nat \ {0} /\ a + 2 <= 32
    BY <1>1, <1>6
  <2>2. Block(a, 2)
    BY <1>1, <1>3, <1>6
  <2>3. Cardinality(S) = 2
    <3> HIDE DEF Block, a
    <3> QED BY <1>5, <2>1, <2>2
  <2>4. g # 31 /\ GamePoints(g) = 1
    BY <1>1, <1>6 DEF GamePoints
  <2> QED BY <1>2, <2>3, <2>4
<1>7. CASE 16 <= g /\ g < 24
  <2> DEFINE a == 4 * (g - 16)
  <2>1. a \in Nat /\ 4 \in Nat \ {0} /\ a + 4 <= 32
    BY <1>1, <1>7
  <2>2. Block(a, 4)
    BY <1>1, <1>3, <1>7
  <2>3. Cardinality(S) = 4
    <3> HIDE DEF Block, a
    <3> QED BY <1>5, <2>1, <2>2
  <2>4. g # 31 /\ GamePoints(g) = 2
    BY <1>1, <1>7 DEF GamePoints
  <2> QED BY <1>2, <2>3, <2>4
<1>8. CASE 24 <= g /\ g < 28
  <2> DEFINE a == 8 * (g - 24)
  <2>1. a \in Nat /\ 8 \in Nat \ {0} /\ a + 8 <= 32
    BY <1>1, <1>8
  <2>2. Block(a, 8)
    BY <1>1, <1>3, <1>8
  <2>3. Cardinality(S) = 8
    <3> HIDE DEF Block, a
    <3> QED BY <1>5, <2>1, <2>2
  <2>4. g # 31 /\ GamePoints(g) = 4
    BY <1>1, <1>8 DEF GamePoints
  <2> QED BY <1>2, <2>3, <2>4
<1>9. CASE 28 <= g /\ g < 30
  <2> DEFINE a == 16 * (g - 28)
  <2>1. a \in Nat /\ 16 \in Nat \ {0} /\ a + 16 <= 32
    BY <1>1, <1>9
  <2>2. Block(a, 16)
    BY <1>1, <1>3, <1>9
  <2>3. Cardinality(S) = 16
    <3> HIDE DEF Block, a
    <3> QED BY <1>5, <2>1, <2>2
  <2>4. g # 31 /\ GamePoints(g) = 8
    BY <1>1, <1>9 DEF GamePoints
  <2> QED BY <1>2, <2>3, <2>4
<1>10. CASE g = 30
  <2>1. Block(0, 32)
    BY <1>3, <1>10
  <2>2. Cardinality(S) = 32
    <3>1. 0 \in Nat /\ 32 \in Nat \ {0} /\ 0 + 32 <= 32
      OBVIOUS
    <3> HIDE DEF Block
    <3> QED BY <1>5, <2>1, <3>1
  <2>3. g # 31 /\ GamePoints(g) = 16
    BY <1>10 DEF GamePoints
  <2> QED BY <1>2, <2>2, <2>3
<1>11. CASE g = 31
  BY <1>2, <1>11 DEF GamePoints
<1> QED BY <1>1, <1>6, <1>7, <1>8, <1>9, <1>10, <1>11

\* What each game of a tournament played out is computed from.
PlaysTo(won, side) ==
  won = [g \in Game |-> IF g < LEAVES THEN 2 * g + side[g] ELSE won[From(side, g)]]

\* One game of it.
Played(won, side, g) ==
  IF g < 16 THEN 2 * g + side[g]
  ELSE IF g < 31 THEN won[2 * (g - 16) + side[g]]
  ELSE won[2 * (12 + side[g]) + 1 - side[28 + side[g]]]

LEMMA PlayedGames ==
  ASSUME LEAVES = 16, NEW side \in [Game -> 0 .. 1], NEW won
  PROVE  PlaysTo(won, side) <=> won = [g \in Game |-> Played(won, side, g)]
<1> DEFINE C(g) == IF g < LEAVES THEN 2 * g + side[g] ELSE won[From(side, g)]
<1>1. ASSUME NEW g \in Game PROVE C(g) = Played(won, side, g)
  <2>1. THIRD_PLACE_GAME = 31 /\ GAME_COUNT = 32 /\ g \in 0 .. 31
    BY Tree
  <2>2. side[g] \in 0 .. 1
    OBVIOUS
  <2>3. 32 - 4 + side[g] = 28 + side[g] /\ 28 + side[g] - 16 = 12 + side[g]
    BY <2>2
  <2>4. CASE g < 16
    BY <2>4 DEF Played
  <2>5. CASE g \in 16 .. 30
    <3>1. From(side, g) = 2 * (g - 16) + side[g]
      BY <2>1, <2>5 DEF From
    <3> QED BY <2>1, <2>5, <3>1 DEF Played
  <2>6. CASE g = 31
    <3>1. From(side, g) = 2 * (12 + side[g]) + 1 - side[28 + side[g]]
      BY <2>1, <2>3, <2>6 DEF From
    <3> QED BY <2>1, <2>6, <3>1 DEF Played
  <2> QED BY <2>1, <2>4, <2>5, <2>6
<1>2. PlaysTo(won, side) <=> won = [g \in Game |-> C(g)]
  BY DEF PlaysTo
<1> HIDE DEF C
<1>3. [g \in Game |-> C(g)] = [g \in Game |-> Played(won, side, g)]
  BY <1>1
<1> QED BY <1>2, <1>3

\* Every tournament can be played out, and a team wins each game.
LEMMA PlaysExist ==
  ASSUME LEAVES = 16, NEW side \in [Game -> 0 .. 1]
  PROVE  \E won : PlaysTo(won, side)
<1> DEFINE w0(g) == 2 * g + side[g]
           w1(g) == w0(2 * (g - 16) + side[g])
           w2(g) == w1(2 * (g - 16) + side[g])
           w3(g) == w2(2 * (g - 16) + side[g])
           w4(g) == w3(2 * (g - 16) + side[g])
           w5(g) == w2(2 * (12 + side[g]) + 1 - side[28 + side[g]])
           w(g) == IF g < 16 THEN w0(g) ELSE IF g < 24 THEN w1(g) ELSE IF g < 28 THEN w2(g)
                   ELSE IF g < 30 THEN w3(g) ELSE IF g < 31 THEN w4(g) ELSE w5(g)
           won == [g \in Game |-> w(g)]
<1>1. Game = 0 .. 31
  BY Tree
<1>2. ASSUME NEW g \in Game PROVE side[g] \in 0 .. 1 /\ g \in 0 .. 31
  BY <1>1
<1>3. ASSUME NEW g \in Game
      PROVE  /\ g < 16 => w(g) = w0(g)
             /\ g \in 16 .. 23 => w(g) = w1(g)
             /\ g \in 24 .. 27 => w(g) = w2(g)
             /\ g \in 28 .. 29 => w(g) = w3(g)
             /\ g = 30 => w(g) = w4(g)
             /\ g = 31 => w(g) = w5(g)
  <2> HIDE DEF w0, w1, w2, w3, w4, w5
  <2> QED BY <1>2
<1>4. \A g \in Game : won[g] = w(g)
  <2> HIDE DEF w
  <2> QED OBVIOUS
<1> HIDE DEF w, won
<1>5. ASSUME NEW g \in Game PROVE w(g) = Played(won, side, g)
  <2> DEFINE c == 2 * (g - 16) + side[g]
             d == 2 * (12 + side[g]) + 1 - side[28 + side[g]]
  <2>1. g \in 0 .. 31 /\ side[g] \in 0 .. 1
    BY <1>2
  <2>2. CASE g < 16
    BY <1>3, <2>2 DEF Played
  <2>3. CASE g \in 16 .. 23
    <3>1. c \in Game /\ c < 16
      BY <1>1, <2>1, <2>3
    <3>2. won[c] = w0(c) /\ w(g) = w0(c)
      <4>1. w(g) = w0(c)
        BY <1>3, <2>3
      <4> HIDE DEF c, w0
      <4> QED BY <1>3, <1>4, <3>1, <4>1
    <3>3. Played(won, side, g) = won[c]
      BY <2>3 DEF Played
    <3> QED BY <3>2, <3>3
  <2>4. CASE g \in 24 .. 27
    <3>1. c \in Game /\ c \in 16 .. 23
      BY <1>1, <2>1, <2>4
    <3>2. won[c] = w1(c) /\ w(g) = w1(c)
      <4>1. w(g) = w1(c)
        BY <1>3, <2>4
      <4> HIDE DEF c, w1
      <4> QED BY <1>3, <1>4, <3>1, <4>1
    <3>3. Played(won, side, g) = won[c]
      BY <2>4 DEF Played
    <3> QED BY <3>2, <3>3
  <2>5. CASE g \in 28 .. 29
    <3>1. c \in Game /\ c \in 24 .. 27
      BY <1>1, <2>1, <2>5
    <3>2. won[c] = w2(c) /\ w(g) = w2(c)
      <4>1. w(g) = w2(c)
        BY <1>3, <2>5
      <4> HIDE DEF c, w2
      <4> QED BY <1>3, <1>4, <3>1, <4>1
    <3>3. Played(won, side, g) = won[c]
      BY <2>5 DEF Played
    <3> QED BY <3>2, <3>3
  <2>6. CASE g = 30
    <3>1. c \in Game /\ c \in 28 .. 29
      BY <1>1, <2>1, <2>6
    <3>2. won[c] = w3(c) /\ w(g) = w3(c)
      <4>1. w(g) = w3(c)
        BY <1>3, <2>6
      <4> HIDE DEF c, w3
      <4> QED BY <1>3, <1>4, <3>1, <4>1
    <3>3. Played(won, side, g) = won[c]
      BY <2>6 DEF Played
    <3> QED BY <3>2, <3>3
  <2>7. CASE g = 31
    <3>1. 28 + side[g] \in Game
      BY <1>1, <2>1
    <3>2. side[28 + side[g]] \in 0 .. 1
      BY <3>1, <1>2
    <3>3. d \in Game /\ d \in 24 .. 27
      BY <1>1, <2>1, <3>2
    <3>4. won[d] = w2(d) /\ w(g) = w2(d)
      <4>1. w(g) = w2(d)
        BY <1>3, <2>7
      <4> HIDE DEF d, w2
      <4> QED BY <1>3, <1>4, <3>3, <4>1
    <3>5. Played(won, side, g) = won[d]
      BY <2>7 DEF Played
    <3> QED BY <3>4, <3>5
  <2> QED BY <2>1, <2>2, <2>3, <2>4, <2>5, <2>6, <2>7
<1>6. won = [g \in Game |-> Played(won, side, g)]
  <2>1. won = [g \in Game |-> w(g)]
    BY DEF won
  <2> QED BY <1>5, <2>1
<1>7. PlaysTo(won, side)
  BY <1>6, PlayedGames
<1> QED BY <1>7

LEMMA PlayedTeams ==
  ASSUME LEAVES = 16, NEW side \in [Game -> 0 .. 1], NEW g \in Game
  PROVE  Play(side)[g] \in 0 .. 31
<1> DEFINE won == CHOOSE won : PlaysTo(won, side)
<1>1. PlaysTo(won, side)
  BY PlaysExist
<1>2. Play(side) = won
  BY DEF Play, PlaysTo
<1> HIDE DEF won
<1>3. Game = 0 .. 31
  BY Tree
<1>4. \A h \in Game : side[h] \in 0 .. 1
  OBVIOUS
<1>5. won = [h \in Game |-> Played(won, side, h)]
  BY <1>1, PlayedGames
<1>6. \A h \in Game : won[h] = Played(won, side, h)
  <2> DEFINE v == [h \in Game |-> Played(won, side, h)]
  <2>1. \A h \in Game : v[h] = Played(won, side, h)
    OBVIOUS
  <2> HIDE DEF v
  <2> QED BY <1>5, <2>1 DEF v
<1>7. ASSUME NEW h \in 0 .. 15 PROVE won[h] \in 0 .. 31
  BY <1>3, <1>4, <1>6 DEF Played
<1>8. ASSUME NEW h \in 16 .. 30
      PROVE  2 * (h - 16) + side[h] \in 2 * (h - 16) .. 2 * (h - 16) + 1
             /\ won[h] = won[2 * (h - 16) + side[h]]
  BY <1>3, <1>4, <1>6 DEF Played
<1>9. ASSUME NEW h \in 16 .. 23 PROVE won[h] \in 0 .. 31
  <2>1. h \in 16 .. 30 /\ 2 * (h - 16) .. 2 * (h - 16) + 1 \subseteq 0 .. 15
    OBVIOUS
  <2> QED BY <1>7, <1>8, <2>1
<1>10. ASSUME NEW h \in 24 .. 27 PROVE won[h] \in 0 .. 31
  <2>1. h \in 16 .. 30 /\ 2 * (h - 16) .. 2 * (h - 16) + 1 \subseteq 16 .. 23
    OBVIOUS
  <2> QED BY <1>8, <1>9, <2>1
<1>11. ASSUME NEW h \in 28 .. 29 PROVE won[h] \in 0 .. 31
  <2>1. h \in 16 .. 30 /\ 2 * (h - 16) .. 2 * (h - 16) + 1 \subseteq 24 .. 27
    OBVIOUS
  <2> QED BY <1>8, <1>10, <2>1
<1>12. won[30] \in 0 .. 31
  <2>1. 30 \in 16 .. 30 /\ 2 * (30 - 16) .. 2 * (30 - 16) + 1 \subseteq 28 .. 29
    OBVIOUS
  <2> QED BY <1>8, <1>11, <2>1
<1>13. won[31] \in 0 .. 31
  <2>1. 31 \in Game /\ side[31] \in 0 .. 1 /\ 28 + side[31] \in Game
    BY <1>3, <1>4
  <2>2. side[28 + side[31]] \in 0 .. 1
    BY <1>4, <2>1
  <2>3. won[31] = won[2 * (12 + side[31]) + 1 - side[28 + side[31]]]
    BY <1>6, <2>1 DEF Played
  <2>4. 2 * (12 + side[31]) + 1 - side[28 + side[31]] \in 24 .. 27
    BY <2>1, <2>2
  <2> QED BY <1>10, <2>3, <2>4
<1>14. won[g] \in 0 .. 31
  <2>1. \/ g \in 0 .. 15 \/ g \in 16 .. 23 \/ g \in 24 .. 27 \/ g \in 28 .. 29
        \/ g = 30 \/ g = 31
    BY <1>3
  <2> QED BY <1>7, <1>9, <1>10, <1>11, <1>12, <1>13, <2>1
<1> QED BY <1>2, <1>14

\* The sample of played tournaments is made of such ways to win.
LEMMA SidesOfSample == ASSUME LEAVES = 16 PROVE SomeSides \subseteq [Game -> 0 .. 1]
<1>1. Game = 0 .. 31
  BY Tree
<1>2. \A i \in 0 .. 4 : 2^i \in Nat \ {0}
  <2>1. 2^0 = 1 /\ 2^1 = 2 /\ 2^2 = 4 /\ 2^3 = 8 /\ 2^4 = 16
    OBVIOUS
  <2>2. 1 \in Nat \ {0} /\ 2 \in Nat \ {0} /\ 4 \in Nat \ {0} /\ 8 \in Nat \ {0}
        /\ 16 \in Nat \ {0}
    OBVIOUS
  <2>3. \A i \in 0 .. 4 : i = 0 \/ i = 1 \/ i = 2 \/ i = 3 \/ i = 4
    OBVIOUS
  <2> DEFINE power(i) == 2^i
  <2>4. /\ power(0) \in Nat \ {0} /\ power(1) \in Nat \ {0} /\ power(2) \in Nat \ {0}
        /\ power(3) \in Nat \ {0} /\ power(4) \in Nat \ {0}
    BY <2>1, <2>2
  <2> HIDE DEF power
  <2>5. \A i \in 0 .. 4 : power(i) \in Nat \ {0}
    BY <2>3, <2>4
  <2> QED BY <2>5 DEF power
<1>3. ASSUME NEW i \in 0 .. 4, NEW j \in 0 .. 1, NEW g \in Game
      PROVE  (g \div 2^i + j) % 2 \in 0 .. 1
  <2> DEFINE d == 2^i
  <2>1. d \in Nat \ {0}
    BY <1>2
  <2>2. g \in Int /\ j \in Int
    BY <1>1
  <2> HIDE DEF d
  <2>3. g \div d \in Int
    BY <2>1, <2>2
  <2> DEFINE x == g \div d
  <2> HIDE DEF x
  <2>4. (x + j) % 2 \in 0 .. 1
    BY <2>2, <2>3 DEF x
  <2> QED BY <2>4 DEF x, d
<1>4. ASSUME NEW i \in 0 .. 4, NEW j \in 0 .. 1
      PROVE  [g \in Game |-> (g \div 2^i + j) % 2] \in [Game -> 0 .. 1]
  BY <1>3
<1>5. ASSUME NEW i \in 0 .. 4
      PROVE  [g \in Game |-> IF (g * g + i) % 5 < 2 THEN 1 ELSE 0] \in [Game -> 0 .. 1]
  OBVIOUS
<1> QED BY <1>4, <1>5 DEF SomeSides

\* With the tree and the weights of the code, a bracket scores for each game it has right
\* half the number of teams that could have reached it, the playoff counting like a
\* semifinal: any bracket, whatever is picked in it.
THEOREM ScoresByReach ==
  ASSUME LEAVES = 16, ROUND_WEIGHT = CodeWeights
  PROVE  RulesSpec => []ScoreByReach
<1>1. ASSUME NEW side \in SomeSides
      PROVE  LET truth == Play(side)
             IN  Score(card, truth) =
                   SumFunctionOnSet(Reach, {g \in Game : card[g] = truth[g]})
  <2> DEFINE truth == Play(side)
             H == {g \in Game : card[g] = truth[g]}
  <2>1. \A g \in Game : truth[g] \in 0 .. 31
    BY SidesOfSample, PlayedTeams
  <2> HIDE DEF truth
  <2>2. Hits(card, truth) = H
    BY <2>1 DEF Hits, UNDECIDED
  <2>3. \A g \in Game : Weight(g) = Reach[g] /\ Reach[g] \in Nat
    BY WeightsOfCode, ReachOfCode
  <2>4. H \in SUBSET Game /\ IsFiniteSet(Game)
    <3>1. H \in SUBSET Game
      OBVIOUS
    <3>2. Game = 0 .. 31
      BY Tree
    <3>3. IsFiniteSet(0 .. 31)
      <4>1. 0 \in Int /\ 31 \in Int
        OBVIOUS
      <4> QED BY <4>1, FS_Interval
    <3>4. IsFiniteSet(Game)
      BY <3>2, <3>3
    <3> HIDE DEF H
    <3> QED BY <3>1, <3>4
  <2> HIDE DEF H
  <2>5. UNION {{g} \X (1 .. Weight(g)) : g \in H} = PointsUpTo(Reach, H)
    <3>1. {{g} \X (1 .. Weight(g)) : g \in H} = {{g} \X (1 .. Reach[g]) : g \in H}
      BY <2>3, <2>4
    <3> QED BY <3>1 DEF PointsUpTo
  <2>6. Cardinality(PointsUpTo(Reach, H)) = SumFunctionOnSet(Reach, H)
    BY <2>3, <2>4, SumIsPoints
  <2>7. Score(card, truth) = SumFunctionOnSet(Reach, H)
    BY <2>2, <2>5, <2>6 DEF Score
  <2> QED BY <2>7 DEF truth, H
<1>2. ScoreByReach
  BY <1>1 DEF ScoreByReach, Truths
<1> QED BY <1>2, PTL
=============================================================================
