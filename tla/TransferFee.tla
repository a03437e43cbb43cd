----------------------------- MODULE TransferFee -----------------------------
(***************************************************************************)
(* tokens/token-2022/transfer-fee (Anchor; native and Pinocchio only make  *)
(* the mint): each transfer of a mint's tokens leaves a fee in the         *)
(* recipient's account, out of the recipient's reach, from which anybody   *)
(* may harvest it into the mint, for its authority to withdraw.            *)
(*                                                                         *)
(* The fees are kept by Token-2022, which is not in the repository: a mint *)
(* has an older and a newer fee and the epoch from which the newer one     *)
(* applies.  One mint is looked at, and associated accounts of it.         *)
(***************************************************************************)
EXTENDS Integers, FiniteSets, Functions

CONSTANTS
  FeePayers,            \* wallets that create the mint
  FeeHolders,           \* wallets that may have an account of it
  FeeRates, MaximumFees,            \* bounds: arguments of initialize, update_fee
  FeeDecimals,          \* bound: argument of the native and Pinocchio programs
  FEE_WHOLE,            \* what rates are parts of (10000 in Token-2022), scaled
  INITIAL_FEE, UPDATED_FEE,         \* rates of these programs, scaled alike
  FeeAmounts,           \* bound: amounts transferred and issued
  MaxIssued, MaxEpoch,  \* bounds
  MaxNotices            \* bound: fees asked for over time, and again

NoPayer == "none"

ASSUME FeeAssumption ==
  /\ IsFiniteSet(FeeHolders) /\ NoPayer \notin FeePayers
  /\ FEE_WHOLE \in Nat \ {0}
  /\ FeeRates \subseteq Nat /\ MaximumFees \subseteq Nat /\ FeeDecimals \subseteq Nat
  /\ INITIAL_FEE \in 0 .. FEE_WHOLE /\ UPDATED_FEE \in 0 .. FEE_WHOLE
  /\ FeeAmounts \subseteq Nat \ {0}
  /\ \A d \in FeeDecimals : 10 ^ d \in Nat
  /\ MaxIssued \in Nat /\ MaxEpoch \in Nat /\ MaxNotices \in Nat

VARIABLES
  epoch,                \* the clock
  feeMint,              \* the mint and its fee configuration
  feeAccount,           \* tokens and withheld fees of each account
  notices               \* history: each fee asked for, and since when it was known

feeVars == <<epoch, feeMint, feeAccount, notices>>

NoHolding == [tokens |-> -1, withheld |-> 0]
NOTICE == 2             \* epochs between an update and its effect

Terms(rate, maximum) == [rate |-> rate, maximum |-> maximum]

-----------------------------------------------------------------------------
(* Slips: wrong forms of the definitions named in the comments (README).      *)

\* Announced: in effect one epoch early.
OneEpochLater(m, terms) ==
  [m EXCEPT !.older = IF m.since <= epoch THEN m.newer ELSE @,
            !.newer = terms, !.since = epoch + NOTICE - 1]
\* Harvested: the accounts keep what was harvested from them.
HarvestedTwice(sources) == feeAccount

-----------------------------------------------------------------------------

\* calculate_epoch_fee: the fee of the epoch, rounded up, no more than its maximum.
InForce(m) == IF epoch >= m.since THEN m.newer ELSE m.older
FeeOf(terms, amount) ==
  LET due == (amount * terms.rate + FEE_WHOLE - 1) \div FEE_WHOLE
  IN  IF due <= terms.maximum THEN due ELSE terms.maximum

\* set_transfer_fee: what is in force by now becomes the older fee; a newer one that
\* is not is replaced.
Announced(m, terms) ==
  [m EXCEPT !.older = IF m.since <= epoch THEN m.newer ELSE @,
            !.newer = terms, !.since = epoch + NOTICE]

\* A mint with this fee from its first epoch on, its payer the authority over its fees.
NewFeeMint(payer, terms) ==
  [authority |-> payer, older |-> terms, newer |-> terms, since |-> epoch,
   withheld |-> 0, issued |-> 0]
KnownFrom(terms, since) == [terms |-> terms, since |-> since]

FeeInit ==
  /\ epoch = 0
  /\ feeMint = NewFeeMint(NoPayer, Terms(0, 0))
  /\ feeAccount = [w \in FeeHolders |-> NoHolding]
  /\ notices = {}

\* initialize (Anchor).
InitializeFee(payer, terms) ==
  /\ feeMint.authority = NoPayer
  /\ terms.rate <= FEE_WHOLE
  /\ feeMint' = NewFeeMint(payer, terms)
  /\ notices' = {KnownFrom(terms, epoch - NOTICE)}
  /\ UNCHANGED <<epoch, feeAccount>>

\* The native program and the Pinocchio create_mint: one fee, and another at once.
CreateFeeMint(payer, decimals) ==
  LET max_fee == 5 * 10 ^ decimals
      first == Terms(INITIAL_FEE, max_fee)
      second == Terms(UPDATED_FEE, max_fee)
  IN  /\ feeMint.authority = NoPayer
      /\ feeMint' = Announced(NewFeeMint(payer, first), second)
      /\ notices' = {KnownFrom(first, epoch - NOTICE), KnownFrom(second, epoch)}
      /\ UNCHANGED <<epoch, feeAccount>>

\* update_fee, by the authority.
UpdateFee(authority, terms) ==
  /\ feeMint.authority = authority
  /\ terms.rate <= FEE_WHOLE
  /\ feeMint' = Announced(feeMint, terms)
  /\ notices' = notices \cup {KnownFrom(terms, epoch)}
  /\ Cardinality(notices') <= MaxNotices
  /\ UNCHANGED <<epoch, feeAccount>>

\* A holder's account, created if needed.
Opened(w) ==
  IF feeAccount[w] = NoHolding THEN [tokens |-> 0, withheld |-> 0] ELSE feeAccount[w]

\* transfer: the program works the fee out, and the recipient's account is created if
\* needed.
LessTokens(w, amount) == [feeAccount[w] EXCEPT !.tokens = @ - amount]
Received(w, amount, fee) ==
  [tokens |-> Opened(w).tokens + (amount - fee), withheld |-> Opened(w).withheld + fee]
FeeTransfer(from, to, amount) ==
  LET fee == FeeOf(InForce(feeMint), amount)
  IN  /\ feeMint.authority # NoPayer
      /\ from # to
      /\ feeAccount[from].tokens >= amount
      /\ feeAccount' = [feeAccount EXCEPT ![from] = LessTokens(from, amount),
                                         ![to] = Received(to, amount, fee)]
      /\ UNCHANGED <<epoch, feeMint, notices>>

\* harvest, by anybody, of any accounts of the mint.
Harvested(sources) ==
  [w \in FeeHolders |-> IF w \in sources THEN [feeAccount[w] EXCEPT !.withheld = 0]
                        ELSE feeAccount[w]]
Harvest(sources) ==
  /\ feeMint.authority # NoPayer
  /\ feeAccount' = Harvested(sources)
  /\ feeMint' = [feeMint EXCEPT
                   !.withheld = @ + SumFunction([w \in sources |-> feeAccount[w].withheld])]
  /\ UNCHANGED <<epoch, notices>>

\* withdraw, to any account of the mint.
WithdrawFees(authority, to) ==
  /\ feeMint.authority = authority
  /\ feeAccount[to] # NoHolding
  /\ feeAccount' = [feeAccount EXCEPT ![to].tokens = @ + feeMint.withheld]
  /\ feeMint' = [feeMint EXCEPT !.withheld = 0]
  /\ UNCHANGED <<epoch, notices>>

\* With the token program itself: the authority issues tokens, a holder closes an
\* account, which may hold neither tokens nor fees.
IssueTokens(to, amount) ==
  /\ feeMint.authority # NoPayer
  /\ feeMint.issued + amount <= MaxIssued
  /\ feeMint' = [feeMint EXCEPT !.issued = @ + amount]
  /\ feeAccount' = [feeAccount EXCEPT
                      ![to] = [Opened(to) EXCEPT !.tokens = @ + amount]]
  /\ UNCHANGED <<epoch, notices>>

CloseHolding(w) ==
  /\ feeAccount[w].tokens = 0 /\ feeAccount[w].withheld = 0
  /\ feeAccount' = [feeAccount EXCEPT ![w] = NoHolding]
  /\ UNCHANGED <<epoch, feeMint, notices>>

NextEpoch ==
  /\ epoch < MaxEpoch
  /\ epoch' = epoch + 1
  /\ UNCHANGED <<feeMint, feeAccount, notices>>

FeeNext ==
  \/ \E w \in FeePayers, r \in FeeRates, n \in MaximumFees :
       InitializeFee(w, Terms(r, n)) \/ UpdateFee(w, Terms(r, n))
  \/ \E w \in FeePayers, d \in FeeDecimals : CreateFeeMint(w, d)
  \/ \E from, to \in FeeHolders, n \in FeeAmounts : FeeTransfer(from, to, n)
  \/ \E sources \in SUBSET FeeHolders : Harvest(sources)
  \/ \E w \in FeePayers, to \in FeeHolders : WithdrawFees(w, to)
  \/ \E to \in FeeHolders, n \in FeeAmounts : IssueTokens(to, n)
  \/ \E w \in FeeHolders : CloseHolding(w)
  \/ NextEpoch

FeeSpec == FeeInit /\ [][FeeNext]_feeVars

-----------------------------------------------------------------------------

AllTerms == [rate: 0 .. FEE_WHOLE, maximum: Nat]
FeeTypeOK ==
  /\ epoch \in 0 .. MaxEpoch
  /\ feeMint \in [authority: FeePayers \cup {NoPayer}, older: AllTerms, newer: AllTerms,
                  since: Nat, withheld: Nat, issued: 0 .. MaxIssued]
  /\ feeAccount \in [FeeHolders -> [tokens: Nat, withheld: Nat] \cup {NoHolding}]
  /\ \A n \in notices : n \in [terms: AllTerms, since: Int]

\* Every token issued is in an account, withheld there, or withheld by the mint,
\* whatever was transferred, harvested and withdrawn in between.
Held(w) == IF feeAccount[w] = NoHolding THEN 0
           ELSE feeAccount[w].tokens + feeAccount[w].withheld
FeesKept ==
  SumFunction([w \in FeeHolders |-> Held(w)]) + feeMint.withheld = feeMint.issued

\* "there is a 2 epoch delay from when new fee updates take effect": nobody pays a fee
\* that was not known for two epochs, however often it was changed in between.
FeeOnNotice ==
  feeMint.authority # NoPayer =>
    \E n \in notices : n.terms = InForce(feeMint) /\ n.since + NOTICE <= epoch
=============================================================================
