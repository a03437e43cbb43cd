----------------------------- MODULE Fundraiser -----------------------------
(***************************************************************************)
(* tokens/token-fundraiser (Anchor): a maker raises a target of one token  *)
(* from contributors who may each give a share of it.  While the vault is  *)
(* short of the target after the duration, contributors take their tokens  *)
(* back; once the vault holds the target the maker takes everything.       *)
(*                                                                         *)
(* The fundraiser account is closed when it pays out.  The vault and the   *)
(* records of the contributors are not: their addresses derive from the    *)
(* fundraiser's, which a later fundraiser of that maker has again.         *)
(* Lamports are left out: rents are paid by who creates the account.       *)
(***************************************************************************)
EXTENDS Integers, FiniteSets, Functions

CONSTANTS
  Contributors,                 \* wallets; the maker is another one
  RaisedMints,                  \* mints the maker may raise
  Decimals,                     \* of each mint
  Targets, Durations,           \* bound: arguments of initialize
  Contributions,                \* bound: amounts of contribute
  Savings,                      \* tokens of each mint a contributor starts with
  SECONDS_TO_DAYS,
  U16,                          \* number of values of a u16, scaled
  MAX_CONTRIBUTION_PERCENTAGE,
  MaxSeconds                    \* bound of the clock

MIN_AMOUNT_TO_RAISE == 3
PERCENTAGE_SCALER == 100

ASSUME FundAssumption ==
  /\ IsFiniteSet(Contributors) /\ RaisedMints # {}
  /\ Decimals \in [RaisedMints -> Nat]
  /\ Targets \subseteq Nat /\ Contributions \subseteq Nat
  /\ SECONDS_TO_DAYS \in Nat \ {0} /\ U16 \in Nat \ {0}
  /\ Durations \subseteq 0 .. U16 - 1
  /\ MAX_CONTRIBUTION_PERCENTAGE \in 0 .. PERCENTAGE_SCALER
  /\ Savings \in Nat /\ MaxSeconds \in Nat

VARIABLES
  seconds,          \* the clock
  fund,             \* the maker's fundraiser account
  fundVault,        \* tokens in its account of each mint
  record,           \* amount in each contributor's account
  savings,          \* tokens of each contributor, of each mint
  given             \* history: what each gave to the fundraiser that is open

fundVars == <<seconds, fund, fundVault, record, savings, given>>

NoVault == -1       \* the fundraiser's address has no account of this mint
NoRecord == -1
NoFund == [open |-> FALSE, mint |-> CHOOSE m \in RaisedMints : TRUE,
           target |-> 0, current |-> 0, started |-> 0, duration |-> 0]

-----------------------------------------------------------------------------
(* Slips: wrong forms of the definitions named in the comments (README).      *)

\* Recorded: a second contribution replaces the first.
LastOnly(c, amount) == amount

-----------------------------------------------------------------------------

\* Whole days since the start, truncated to 16 bits, have reached the duration.
DaysElapsed == ((seconds - fund.started) \div SECONDS_TO_DAYS) % U16
Ended == fund.duration <= DaysElapsed

MaxContribution == (fund.target * MAX_CONTRIBUTION_PERCENTAGE) \div PERCENTAGE_SCALER
AmountOf(c) == IF record[c] = NoRecord THEN 0 ELSE record[c]
Recorded(c, amount) == AmountOf(c) + amount
TargetMet == fundVault[fund.mint] >= fund.target

FundInit ==
  /\ seconds = 0
  /\ fund = NoFund
  /\ fundVault = [m \in RaisedMints |-> NoVault]
  /\ record = [c \in Contributors |-> NoRecord]
  /\ savings = [c \in Contributors |-> [m \in RaisedMints |-> Savings]]
  /\ given = [c \in Contributors |-> 0]

\* initialize: neither the fundraiser nor its vault may exist.
InitializeFund(m, amount, duration) ==
  /\ ~fund.open
  /\ fundVault[m] = NoVault
  /\ amount >= MIN_AMOUNT_TO_RAISE ^ Decimals[m]
  /\ fund' = [open |-> TRUE, mint |-> m, target |-> amount, current |-> 0,
              started |-> seconds, duration |-> duration]
  /\ fundVault' = [fundVault EXCEPT ![m] = 0]
  /\ given' = [c \in Contributors |-> 0]
  /\ UNCHANGED <<seconds, record, savings>>

\* contribute: the record is created if needed and kept otherwise.
Contribute(c, amount) ==
  /\ fund.open
  /\ amount >= 1
  /\ amount <= MaxContribution
  /\ ~Ended
  /\ Recorded(c, amount) <= MaxContribution
  /\ amount <= savings[c][fund.mint]
  /\ savings' = [savings EXCEPT ![c][fund.mint] = @ - amount]
  /\ fundVault' = [fundVault EXCEPT ![fund.mint] = @ + amount]
  /\ fund' = [fund EXCEPT !.current = @ + amount]
  /\ record' = [record EXCEPT ![c] = Recorded(c, amount)]
  /\ given' = [given EXCEPT ![c] = @ + amount]
  /\ UNCHANGED seconds

\* check_contributions: pays the maker whatever the vault holds, at any time, and
\* closes the fundraiser.
CheckContributions ==
  /\ fund.open
  /\ TargetMet
  /\ fundVault' = [fundVault EXCEPT ![fund.mint] = 0]
  /\ fund' = NoFund
  /\ UNCHANGED <<seconds, record, savings, given>>

\* refund: the record is closed; current_amount may not underflow.
CanRefund(c) ==
  /\ fund.open
  /\ record[c] # NoRecord
  /\ Ended
  /\ ~TargetMet
  /\ record[c] <= fundVault[fund.mint]
  /\ record[c] <= fund.current

RefundContribution(c) ==
  /\ CanRefund(c)
  /\ savings' = [savings EXCEPT ![c][fund.mint] = @ + record[c]]
  /\ fundVault' = [fundVault EXCEPT ![fund.mint] = @ - record[c]]
  /\ fund' = [fund EXCEPT !.current = @ - record[c]]
  /\ record' = [record EXCEPT ![c] = NoRecord]
  /\ given' = [given EXCEPT ![c] = 0]
  /\ UNCHANGED seconds

\* Anyone may send tokens to the vault.
SendToVault(c, m) ==
  /\ fundVault[m] # NoVault
  /\ savings[c][m] > 0
  /\ savings' = [savings EXCEPT ![c][m] = @ - 1]
  /\ fundVault' = [fundVault EXCEPT ![m] = @ + 1]
  /\ UNCHANGED <<seconds, fund, record, given>>

FundTick ==
  /\ seconds < MaxSeconds
  /\ seconds' = seconds + 1
  /\ UNCHANGED <<fund, fundVault, record, savings, given>>

FundNext ==
  \/ \E m \in RaisedMints, n \in Targets, d \in Durations : InitializeFund(m, n, d)
  \/ \E c \in Contributors, n \in Contributions : Contribute(c, n)
  \/ CheckContributions
  \/ \E c \in Contributors : RefundContribution(c)
  \/ \E c \in Contributors, m \in RaisedMints : SendToVault(c, m)
  \/ FundTick

FundSpec == FundInit /\ [][FundNext]_fundVars

-----------------------------------------------------------------------------

FundTypeOK ==
  /\ seconds \in Nat
  /\ fund \in [open: BOOLEAN, mint: RaisedMints, target: Nat, current: Nat,
               started: Nat, duration: 0 .. U16 - 1]
  /\ fundVault \in [RaisedMints -> Nat \cup {NoVault}]
  /\ record \in [Contributors -> Nat \cup {NoRecord}]
  /\ savings \in [Contributors -> [RaisedMints -> Nat]]
  /\ given \in [Contributors -> Nat]

\* No fundraiser of the maker came before the one that is open: it would have left
\* its vault, and maybe records, to it (RefundsAreOwn).
IsFirst == \A m \in RaisedMints : fundVault[m] # NoVault => m = fund.mint

\* While the maker's first fundraiser is open its vault covers what it has counted,
\* and that is what the contributors can take back, one by one, in any order.
RefundsCovered ==
  fund.open /\ IsFirst =>
    /\ fundVault[fund.mint] >= fund.current
    /\ SumFunction([c \in Contributors |-> AmountOf(c)]) = fund.current

\* That fundraiser is never stuck with somebody's tokens: it takes contributions,
\* or pays the maker, or gives everyone back what it gave, also on the day the
\* duration ends, and when the count of days wraps around.
NobodyLocked ==
  fund.open /\ IsFirst =>
    \/ ~Ended
    \/ TargetMet
    \/ \A c \in Contributors : given[c] > 0 => record[c] = given[c] /\ CanRefund(c)

\* "Transfer the funds back to the contributor": a refund gives nobody more than
\* it gave to the fundraiser that is open.
RefundsAreOwn == \A c \in Contributors : CanRefund(c) => record[c] <= given[c]
=============================================================================
