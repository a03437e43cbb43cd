------------------------------ MODULE WorldCup ------------------------------
(***************************************************************************)
(* The world-cup program of games/world-cup/pinocchio/program: entrants    *)
(* stake a fee on a bracket until registration closes, the admin posts the *)
(* result of every game and the goal total, anyone folds the brackets one  *)
(* by one into a tally of the best, the admin finalizes with the bracket   *)
(* that matches the tally, and its owner sweeps the pot.                   *)
(*                                                                         *)
(* One action is one instruction; the runtime undoes all of it when a      *)
(* check fails.  Config, oracle and vault are singletons.                  *)
(***************************************************************************)
EXTENDS Tournament, Functions

CONSTANTS
  Wallets,          \* system accounts that can sign
  Admins,           \* bound: the wallets that try init_config
  Entrants,         \* bound: the wallets that try submit_bracket
  Givers,           \* bound: the wallets that send lamports from outside
  LockTimes,        \* bound: the lock_ts tried
  Entries,          \* bound: the picks and guesses tried, invalid ones too
  Outcomes,         \* bound: the game and winner pairs tried as results
  GoalTotals,       \* bound: the goal totals tried
  MaxTime,          \* bound: the clock stops here
  ENTRY_FEE,        \* stake of a bracket
  Endowment,        \* lamports of each wallet at the start
  RentFloor,        \* rent minimum of an account without data (the vault)
  BracketRent,      \* rent minimum of a bracket account
  SetupRent,        \* rent minimum of the config and the oracle together
  U16_MAX,          \* largest guess, goal total and closeness (2^16 - 1)
  U32_MAX           \* largest count of brackets (2^32 - 1)

ASSUME WorldCupAssumption ==
  /\ Admins \subseteq Wallets /\ Entrants \subseteq Wallets
  /\ Givers \subseteq Wallets
  /\ IsFiniteSet(Wallets) /\ Wallets # {}
  /\ LockTimes \subseteq Nat /\ MaxTime \in Nat
  /\ U16_MAX \in Nat /\ U32_MAX \in Nat
  /\ GoalTotals \subseteq 0 .. U16_MAX
  /\ \A e \in Entries : e.guess \in 0 .. U16_MAX /\ e.picks \in [Game -> Nat]
  /\ ENTRY_FEE \in Nat
  /\ Endowment \in [Wallets -> Nat]
  /\ RentFloor \in Nat /\ BracketRent \in Nat /\ SetupRent \in Nat

VARIABLES
  now,              \* Clock::get()?.unix_timestamp
  config,           \* the config account
  oracle,           \* the oracle account
  vault,            \* lamports at the vault address
  bracket,          \* the data of each wallet's bracket account
  bracketLamports,  \* lamports at each bracket address
  wallet,           \* lamports of each wallet
  entries,          \* history: the entries in the order they were made
  claimed           \* history: lamports swept by the winner

vars == <<now, config, oracle, vault, bracket, bracketLamports, wallet, entries,
          claimed>>

\* The tally's key before the first fold: worse than that of any bracket.
NoBest == [score |-> 0, closeness |-> U16_MAX, index |-> U32_MAX]

\* Accounts whose data_len is 0, and an oracle without results.
NoConfig == [state |-> "Absent", admin |-> CHOOSE w \in Wallets : TRUE,
             lock_ts |-> 0, entrant_count |-> 0, refreshed_count |-> 0,
             tallied |-> FALSE, best |-> NoBest, winner |-> {}]
NoResults == [results |-> [g \in Game |-> UNDECIDED], decided |-> {},
              goals_posted |-> FALSE, total_goals |-> 0]
NoBracket == [present |-> FALSE, picks |-> [g \in Game |-> 0], guess |-> 0,
              index |-> 0, score |-> 0, folded |-> FALSE]

Key == [score: Nat, closeness: 0 .. U16_MAX, index: 0 .. U32_MAX]
ConfigType == [state: {"Absent", "Registration", "Locked", "Finalized"},
               admin: Wallets, lock_ts: Nat, entrant_count: 0 .. U32_MAX,
               refreshed_count: 0 .. U32_MAX, tallied: BOOLEAN, best: Key,
               winner: SUBSET Entrants]
OracleType == [results: [Game -> Team \cup {UNDECIDED}],
               decided: SUBSET Game, goals_posted: BOOLEAN,
               total_goals: 0 .. U16_MAX]
BracketType == [present: BOOLEAN, picks: [Game -> Team],
                guess: 0 .. U16_MAX, index: 0 .. U32_MAX, score: Nat,
                folded: BOOLEAN]

Present == {e \in Entrants : bracket[e].present}
Folded == {e \in Entrants : bracket[e].folded}

\* create_pda_account takes from the payer what the address lacks of its rent.
TopUp(held, rent) == IF held < rent THEN rent - held ELSE 0

-----------------------------------------------------------------------------
(* Slips: wrong forms of the definitions named in the comments (README).      *)

\* Better: the goals do not count.
BetterWithoutGoals(key, best) ==
  \/ key.score > best.score
  \/ key.score = best.score /\ key.index < best.index
\* Better: the last tiebreaker is left out.
BetterWithoutIndex(key, best) ==
  \/ key.score > best.score
  \/ key.score = best.score /\ key.closeness < best.closeness
\* RegistrationOpen: the time decides alone, and the lock time is still open.
OpenInTime == config.state # "Absent" /\ now <= config.lock_ts
\* Stake: the rent of the bracket is not charged.
StakeWithoutRent(topUp) == ENTRY_FEE - BracketRent
\* Undecided: a result can be corrected.
AlwaysCorrectable(game) == TRUE
\* Unfolded: a bracket can be folded again.
PresentOnly(e) == bracket[e].present
\* AllFolded: the counts are not compared.
SomeFolded == config.tallied
\* IsWinner: any entrant can claim.
IsEntrant(w) == w \in Entrants
\* Swept: the rent of the vault is swept too.
SweptEmpty == vault
\* Swept: the pot can be claimed only once.
SweptOnce == IF claimed = 0 THEN vault - RentFloor ELSE 0

-----------------------------------------------------------------------------

Init ==
  /\ now = 0
  /\ config = NoConfig
  /\ oracle = NoResults
  /\ vault = 0
  /\ bracket = [e \in Entrants |-> NoBracket]
  /\ bracketLamports = [e \in Entrants |-> 0]
  /\ wallet = Endowment
  /\ entries = <<>>
  /\ claimed = 0

\* init_config: the first caller becomes the admin.
InitConfig(w, lock_ts) ==
  LET cost == SetupRent + TopUp(vault, RentFloor)
      held == vault + TopUp(vault, RentFloor)
  IN
  /\ lock_ts > now
  /\ config.state = "Absent"
  /\ wallet[w] >= cost
  /\ config' = [NoConfig EXCEPT !.state = "Registration", !.admin = w,
                                !.lock_ts = lock_ts]
  /\ wallet' = [wallet EXCEPT ![w] = @ - cost]
  /\ vault' = held
  /\ UNCHANGED <<now, oracle, bracket, bracketLamports, entries, claimed>>

\* submit_bracket: entrant e stakes on entry.  The bracket's full rent comes
\* off the stake even if its address holds lamports already.
RegistrationOpen ==
  /\ config.state = "Registration"
  /\ now < config.lock_ts

PotShare == ENTRY_FEE - BracketRent
Stake(topUp) == topUp + PotShare

SubmitBracket(e, entry) ==
  LET topUp == TopUp(bracketLamports[e], BracketRent)
  IN
  /\ RegistrationOpen
  /\ ~bracket[e].present
  /\ ValidBracket(entry.picks)
  /\ ENTRY_FEE >= BracketRent
  /\ wallet[e] >= Stake(topUp)
  /\ config.entrant_count < U32_MAX
  /\ bracket' = [bracket EXCEPT ![e] =
       [present |-> TRUE, picks |-> entry.picks, guess |-> entry.guess,
        index |-> config.entrant_count, score |-> 0, folded |-> FALSE]]
  /\ bracketLamports' = [bracketLamports EXCEPT ![e] = @ + topUp]
  /\ wallet' = [wallet EXCEPT ![e] = @ - Stake(topUp)]
  /\ vault' = vault + PotShare
  /\ config' = [config EXCEPT !.entrant_count = @ + 1]
  /\ entries' = Append(entries,
       [player |-> e, picks |-> entry.picks, guess |-> entry.guess])
  /\ UNCHANGED <<now, oracle, claimed>>

\* lock: the admin closes registration.
Lock(w) ==
  /\ config.state = "Registration"
  /\ w = config.admin
  /\ now >= config.lock_ts
  /\ config' = [config EXCEPT !.state = "Locked"]
  /\ UNCHANGED <<now, oracle, vault, bracket, bracketLamports, wallet,
                 entries, claimed>>

\* post_result: the admin records the winner of a game.
Undecided(game) == oracle.results[game] = UNDECIDED

PostResult(w, game, winner) ==
  /\ config.state = "Locked"
  /\ w = config.admin
  /\ game \in Game /\ Undecided(game)
  /\ ValidResult(oracle.results, game, winner)
  /\ oracle' = [oracle EXCEPT !.results[game] = winner,
                              !.decided = @ \cup {game}]
  /\ UNCHANGED <<now, config, vault, bracket, bracketLamports, wallet,
                 entries, claimed>>

\* post_goals: the admin records the goal total, once.
PostGoals(w, total) ==
  /\ config.state = "Locked"
  /\ w = config.admin
  /\ ~oracle.goals_posted
  /\ oracle.decided = Game
  /\ oracle' = [oracle EXCEPT !.total_goals = total, !.goals_posted = TRUE]
  /\ UNCHANGED <<now, config, vault, bracket, bracketLamports, wallet,
                 entries, claimed>>

\* Oracle::is_complete.
IsComplete == oracle.decided = Game /\ oracle.goals_posted

\* refresh_score: anyone folds the bracket of e into the tally.
Better(key, best) ==
  \/ key.score > best.score
  \/ key.score = best.score /\ key.closeness < best.closeness
  \/ key.score = best.score /\ key.closeness = best.closeness
     /\ key.index < best.index

Unfolded(e) == bracket[e].present /\ ~bracket[e].folded

RefreshScore(e) ==
  LET score == Score(bracket[e].picks, oracle.results)
      key == [score |-> score,
              closeness |-> Closeness(bracket[e].guess, oracle.total_goals),
              index |-> bracket[e].index]
      best == IF config.tallied THEN config.best ELSE NoBest
      count == IF config.tallied THEN config.refreshed_count ELSE 0
  IN
  /\ config.state = "Locked"
  /\ IsComplete
  /\ Unfolded(e)
  /\ count < U32_MAX
  /\ bracket' = [bracket EXCEPT ![e].score = score, ![e].folded = TRUE]
  /\ config' = [config EXCEPT
       !.tallied = TRUE,
       !.best = IF Better(key, best) THEN key ELSE best,
       !.refreshed_count = count + 1]
  /\ UNCHANGED <<now, oracle, vault, bracketLamports, wallet, entries, claimed>>

\* finalize: the admin names the bracket of e as the best.
AllFolded == config.tallied /\ config.refreshed_count = config.entrant_count

Matches(e) ==
  /\ bracket[e].folded
  /\ bracket[e].score = config.best.score
  /\ Closeness(bracket[e].guess, oracle.total_goals) = config.best.closeness
  /\ bracket[e].index = config.best.index

Finalize(w, e) ==
  /\ config.state = "Locked"
  /\ w = config.admin
  /\ IsComplete
  /\ AllFolded
  /\ bracket[e].present
  /\ Matches(e)
  /\ config' = [config EXCEPT !.state = "Finalized", !.winner = {e}]
  /\ UNCHANGED <<now, oracle, vault, bracket, bracketLamports, wallet,
                 entries, claimed>>

\* claim: the winner sweeps what the vault holds above its rent.
IsWinner(w) == w \in config.winner
Swept == IF vault > RentFloor THEN vault - RentFloor ELSE 0

Claim(w) ==
  /\ config.state = "Finalized"
  /\ IsWinner(w)
  /\ wallet' = [wallet EXCEPT ![w] = @ + Swept]
  /\ vault' = vault - Swept
  /\ claimed' = claimed + Swept
  /\ UNCHANGED <<now, config, oracle, bracket, bracketLamports, entries>>

\* close_bracket: anyone closes the bracket of e, its lamports go to the vault.
CloseBracket(e) ==
  /\ config.state = "Finalized"
  /\ bracket[e].present
  /\ vault' = vault + bracketLamports[e]
  /\ bracketLamports' = [bracketLamports EXCEPT ![e] = 0]
  /\ bracket' = [bracket EXCEPT ![e] = NoBracket]
  /\ UNCHANGED <<now, config, oracle, wallet, entries, claimed>>

-----------------------------------------------------------------------------
(* The surroundings. *)

\* The clock sysvar moves on.
Tick ==
  /\ now < MaxTime
  /\ now' = now + 1
  /\ UNCHANGED <<config, oracle, vault, bracket, bracketLamports, wallet,
                 entries, claimed>>

\* Anyone may send lamports to any address, before its account exists or
\* after.  The runtime refuses to leave an account below its rent minimum.
GiveVault(w, n) ==
  /\ n \in 1 .. wallet[w]
  /\ vault + n >= RentFloor
  /\ wallet' = [wallet EXCEPT ![w] = @ - n]
  /\ vault' = vault + n
  /\ UNCHANGED <<now, config, oracle, bracket, bracketLamports, entries, claimed>>

GiveBracket(w, e, n) ==
  /\ n \in 1 .. wallet[w]
  /\ bracketLamports[e] + n >= RentFloor
  /\ wallet' = [wallet EXCEPT ![w] = @ - n]
  /\ bracketLamports' = [bracketLamports EXCEPT ![e] = @ + n]
  /\ UNCHANGED <<now, config, oracle, vault, bracket, entries, claimed>>

-----------------------------------------------------------------------------

Next ==
  \/ \E w \in Admins, lock_ts \in LockTimes : InitConfig(w, lock_ts)
  \/ \E e \in Entrants, entry \in Entries : SubmitBracket(e, entry)
  \/ \E w \in Wallets : Lock(w)
  \/ \E w \in Wallets, o \in Outcomes : PostResult(w, o.game, o.winner)
  \/ \E w \in Wallets, total \in GoalTotals : PostGoals(w, total)
  \/ \E e \in Entrants : RefreshScore(e)
  \/ \E w \in Wallets, e \in Entrants : Finalize(w, e)
  \/ \E w \in Wallets : Claim(w)
  \/ \E e \in Entrants : CloseBracket(e)
  \/ Tick
  \/ \E w \in Givers : \E n \in 1 .. wallet[w] : GiveVault(w, n)
  \/ \E w \in Givers, e \in Entrants : \E n \in 1 .. wallet[w] :
       GiveBracket(w, e, n)

Spec == Init /\ [][Next]_vars

\* The clock never stops, the admin does its part and anyone may crank the
\* folding and the closing; the winner claims.  Nobody has to open or to enter.
Fairness ==
  /\ WF_vars(Tick)
  /\ WF_vars(\E w \in Wallets : Lock(w))
  /\ WF_vars(\E w \in Wallets, o \in Outcomes : PostResult(w, o.game, o.winner))
  /\ WF_vars(\E w \in Wallets, total \in GoalTotals : PostGoals(w, total))
  /\ WF_vars(\E w \in Wallets, e \in Entrants : Finalize(w, e))
  /\ WF_vars(\E e \in Entrants : RefreshScore(e))
  /\ WF_vars(\E e \in Entrants : CloseBracket(e))
  /\ WF_vars(\E w \in Wallets : Claim(w))

FairSpec == Spec /\ Fairness

-----------------------------------------------------------------------------
(* Safety. *)

\* Every variable holds a value of its type.
TypeOK ==
  /\ now \in 0 .. MaxTime
  /\ config \in ConfigType
  /\ oracle \in OracleType
  /\ vault \in Nat
  /\ bracket \in [Entrants -> BracketType]
  /\ bracketLamports \in [Entrants -> Nat]
  /\ wallet \in [Wallets -> Nat]
  /\ entries \in Seq([player: Entrants, picks: [Game -> Team],
                       guess: 0 .. U16_MAX])
  /\ claimed \in Nat

\* Until the winner is recorded the tally is that of the brackets folded so
\* far: the counters count the accounts, and the best key is that of a folded
\* bracket no folded bracket is better than (refresh_score, called for any
\* bracket in any order, twice for some).
TallyOfFolded ==
  config.state \in {"Registration", "Locked"} =>
    LET KeyOf(e) == [score |-> Score(bracket[e].picks, oracle.results),
                     closeness |-> Closeness(bracket[e].guess,
                                             oracle.total_goals),
                     index |-> bracket[e].index]
        keys == {KeyOf(e) : e \in Folded}
    IN  /\ config.entrant_count = Cardinality(Present)
        /\ config.refreshed_count = Cardinality(Folded)
        /\ config.best \in keys \cup (IF keys = {} THEN {NoBest} ELSE {})
        /\ \A key \in keys : ~Better(key, config.best)

\* Entry i ranks before entry j under what the oracle says.
RanksBefore(i, j) ==
  LET points == [k \in {i, j} |-> Score(entries[k].picks, oracle.results)]
      off == [k \in {i, j} |-> Closeness(entries[k].guess, oracle.total_goals)]
  IN  \/ points[i] > points[j]
      \/ points[i] = points[j] /\ off[i] < off[j]
      \/ points[i] = points[j] /\ off[i] = off[j] /\ i < j

\* The recorded winner made the entry that ranks first among all entries made,
\* under the results the oracle holds, now and for as long as the accounts
\* live (the promise of finalize's doc comment).
WinnerRanksFirst ==
  \A e \in config.winner :
    \E i \in DOMAIN entries :
      /\ entries[i].player = e
      /\ \A j \in DOMAIN entries \ {i} : RanksBefore(i, j)

\* Once all brackets are folded exactly one of them matches the tally, however
\* bad its score and its guess, so finalize is neither stuck nor has a choice
\* (doc comment of Config: "exactly one bracket can match it").
ExactlyOneMatches ==
  config.state = "Locked" /\ AllFolded =>
    Cardinality({e \in Present : Matches(e)}) = 1

\* The tally holds while brackets are folded, and singles one of them out at the end.
TallyDecides == TallyOfFolded /\ ExactlyOneMatches

\* What has been posted could have been played, and a complete set of results
\* is a bracket the program itself accepts, in whatever order the results
\* were posted (post_result against the third-place game).
ResultsPlayable ==
  /\ oracle.decided = {g \in Game : oracle.results[g] # UNDECIDED}
  /\ \A g \in oracle.decided \ {THIRD_PLACE_GAME} :
       oracle.results[g] \in Contestants(oracle.results, g)
  /\ oracle.decided = Game => ValidBracket(oracle.results)

\* The admin is never stuck with results that cannot be completed: while a game
\* is open, some game can be posted, with either of two teams as its winner.
OracleNeverStuck ==
  oracle.decided # Game =>
    \E g \in Game \ oracle.decided :
      Cardinality({t \in Team : ValidResult(oracle.results, g, t)}) = 2

\* No stake is lost: what was escrowed is in the vault, in a bracket or with
\* the winner, and the vault keeps its rent so that it can be swept again.
PotHoldsStakes ==
  config.state # "Absent" =>
    /\ vault >= RentFloor
    /\ \A e \in Present : bracketLamports[e] >= BracketRent
    /\ vault + claimed >=
         RentFloor + Len(entries) * PotShare
         + (Len(entries) - Cardinality(Present)) * BracketRent

\* No instruction creates or destroys lamports: the balances that claim and
\* close_bracket set directly add up with those the system program moved.
LamportsConserved ==
  SumFunction(wallet) + SumFunction(bracketLamports) + vault
    + (IF config.state = "Absent" THEN 0 ELSE SetupRent)
  = SumFunction(Endowment)

\* Stakes are kept and lamports conserved.
StakesKept == PotHoldsStakes /\ LamportsConserved

-----------------------------------------------------------------------------
(* What a step may never do. *)

\* Nobody enters with hindsight: no entry is made at or after the lock time or
\* once any result is known, and a bracket that was made is never changed.
NoHindsight ==
  /\ entries' # entries => now < config.lock_ts /\ oracle.decided = {}
  /\ \A e \in Present : bracket'[e].present =>
       \A f \in {"picks", "guess", "index"} : bracket'[e][f] = bracket[e][f]

\* What counts is final: a posted result, the posted goal total, the score of a
\* folded bracket and the winner never change (doc comment of Oracle).
PostedIsFinal ==
  /\ \A g \in Game : oracle.results[g] # UNDECIDED =>
       oracle'.results[g] = oracle.results[g]
  /\ oracle.goals_posted => oracle' = oracle
  /\ \A e \in Folded : bracket'[e].folded => bracket'[e].score = bracket[e].score
  /\ config.winner # {} => config' = config

\* Only the winner is ever paid, and only after the tournament is finalized.
OnlyWinnerPaid ==
  \A w \in Wallets : wallet'[w] > wallet[w] =>
    config.state = "Finalized" /\ w \in config.winner

\* The rules are the same for all, from the first entry to the last payment.
FairPlay == [][NoHindsight /\ PostedIsFinal /\ OnlyWinnerPaid]_vars

-----------------------------------------------------------------------------
(* Liveness, under Fairness. *)

\* A tournament somebody entered gets its winner.
EntriesGetWinner == entries # <<>> ~> config.winner # {}

\* The pot, the rents of the brackets included, is paid out to the last lamport
\* though the winner may claim before the brackets are closed.
PotPaidOut ==
  config.state = "Finalized" ~> Present = {} /\ vault = RentFloor

\* With an admin that does its part a tournament never stalls: an entry leads to a
\* winner, and a winner to an empty pot.
NeverStalls == EntriesGetWinner /\ PotPaidOut

\* "Exactly one winner always exists" (README.md:7 of world-cup): not of a tournament
\* that nobody entered, which is locked and has no bracket to finalize with.
AlwaysAWinner == config.state = "Locked" ~> config.winner # {}

-----------------------------------------------------------------------------
(* What entrants are promised: module Contest. *)

PointsOf(entry, truth) == Score(entry.picks, truth.results)
DistanceOf(entry, truth) == Closeness(entry.guess, truth.total_goals)

Promise == INSTANCE Contest WITH
  Players <- Entrants,
  Score <- PointsOf,
  Distance <- DistanceOf,
  phase <- CASE config.state \in {"Absent", "Registration"} -> "open"
             [] config.state = "Locked" -> "closed"
             [] config.state = "Finalized" -> "awarded",
  truth <- [results |-> oracle.results, total_goals |-> oracle.total_goals],
  told <- IsComplete,
  winner <- config.winner

\* The program implements the contest: folding the brackets one by one, by
\* anyone and in any order, awards what ranking all of them at once would.
ImplementsContest == Promise!Spec

=============================================================================
