------------------------------ MODULE TokenSwap ------------------------------
(***************************************************************************)
(* tokens/token-swap (Anchor): a constant product market maker.  An AMM    *)
(* fixes the fee; a pool holds the two reserves of a pair of mints; shares *)
(* of a pool are tokens of its liquidity mint.                             *)
(*                                                                         *)
(* All amounts are integers and every quotient is rounded down.  The       *)
(* products are computed in 128 bits, of factors of 64, so no width        *)
(* matters.  Lamports are left out: rents are paid by the payer.           *)
(***************************************************************************)
EXTENDS Integers, FiniteSets, Functions

CONSTANTS
  Amms,                 \* the ids an AMM can have
  Pools,                \* bound: the AMMs that get a pool for the pair
  Traders,              \* wallets that deposit, withdraw and swap
  Givers,               \* bound: those of them that send tokens in
  MINIMUM_LIQUIDITY,    \* shares a first deposit locks up (100 in the code)
  Fees,                 \* bound: fees tried, in basis points
  Amounts,              \* bound: amounts passed as arguments
  MinOutputs,           \* bound: least outputs a trader accepts
  Holdings,             \* tokens of either side a trader starts with
  MaxReserve            \* bound: reserves beyond it are not added to

Sides == {"a", "b"}
Opposite(s) == IF s = "a" THEN "b" ELSE "a"
BASIS_POINTS == 10000

ASSUME SwapAssumption ==
  /\ IsFiniteSet(Traders)
  /\ Pools \subseteq Amms /\ Givers \subseteq Traders
  /\ MINIMUM_LIQUIDITY \in Nat \ {0}
  /\ Fees \subseteq Nat /\ Amounts \subseteq Nat /\ MinOutputs \subseteq Nat
  /\ Holdings \in Nat /\ MaxReserve \in Nat

VARIABLES
  amms,       \* fee of each AMM created, by id; NoFee where there is none
  pools,      \* the pools created, each named by its AMM
  vaults,     \* of each pool address, the sides that have a token account
  reserve,    \* tokens of each side in these accounts
  supply,     \* of each pool's liquidity mint
  share,      \* liquidity tokens of each trader, of each pool
  tokens,     \* tokens of either side of each trader
  founded     \* history: pools whose first deposit found both reserves empty

swapVars == <<amms, pools, vaults, reserve, supply, share, tokens, founded>>

NoFee == -1
Min2(x, y) == IF x <= y THEN x ELSE y

\* The integer square root.
ISqrt(n) == CHOOSE r \in 0 .. n : r * r <= n /\ n < (r + 1) * (r + 1)

-----------------------------------------------------------------------------
(* Slips: wrong forms of the definitions named in the comments (README).      *)

\* SwapOutput: rounded up.
RoundedUp(taxed, from, to) == (taxed * to + from + taxed - 1) \div (from + taxed)
\* Owed: of the circulating shares only, the locked ones forgotten.
OfCirculating(n, held, shares) == (n * held) \div (shares + 1)
\* Paired: always sized by side a, whatever there is of side b.
PairedByA(r, a, b) == [a |-> a, b |-> IF r.a = 0 THEN b ELSE (a * r.b) \div r.a]

-----------------------------------------------------------------------------
(* The arithmetic.                                                            *)

\* What a deposit of at most a and b puts in: as is into an empty pool, else in
\* the proportion of the reserves.
Empty(r) == r.a = 0 /\ r.b = 0
Paired(r, a, b) ==
  IF Empty(r) THEN [a |-> a, b |-> b]
  ELSE IF (a * r.b) \div r.a <= b
       THEN [a |-> a, b |-> (a * r.b) \div r.a]
       ELSE [a |-> (b * r.a) \div r.b, b |-> b]

\* What n shares of a pool with this many shares in circulation are worth.
Owed(n, held, shares) == (n * held) \div (shares + MINIMUM_LIQUIDITY)

\* What is left of an input after the fee, and what that buys.
Taxed(input, fee) == input - (input * fee) \div BASIS_POINTS
SwapOutput(taxed, from, to) == (taxed * to) \div (from + taxed)

-----------------------------------------------------------------------------

SwapInit ==
  /\ amms = [i \in Amms |-> NoFee]
  /\ pools = {}
  /\ vaults = [p \in Pools |-> {}]
  /\ reserve = [p \in Pools |-> [a |-> 0, b |-> 0]]
  /\ supply = [p \in Pools |-> 0]
  /\ share = [p \in Pools |-> [w \in Traders |-> 0]]
  /\ tokens = [w \in Traders |-> [a |-> Holdings, b |-> Holdings]]
  /\ founded = {}

CreateAmm(i, fee) ==
  /\ amms[i] = NoFee
  /\ fee < BASIS_POINTS
  /\ amms' = [amms EXCEPT ![i] = fee]
  /\ UNCHANGED <<pools, vaults, reserve, supply, share, tokens, founded>>

\* The pool's token accounts are created with it and must not exist.
CreatePool(p) ==
  /\ amms[p] # NoFee
  /\ p \notin pools
  /\ vaults[p] = {}
  /\ pools' = pools \cup {p}
  /\ vaults' = [vaults EXCEPT ![p] = Sides]
  /\ UNCHANGED <<amms, reserve, supply, share, tokens, founded>>

\* deposit_liquidity.  A reserve of a that is empty alone is a division by zero.
DepositLiquidity(w, p, amount_a, amount_b) ==
  LET r == reserve[p]
      in == Paired(r, Min2(amount_a, tokens[w].a), Min2(amount_b, tokens[w].b))
      minted == ISqrt(in.a * in.b) - (IF Empty(r) THEN MINIMUM_LIQUIDITY ELSE 0)
  IN  /\ p \in pools
      /\ Empty(r) \/ r.a # 0
      /\ r.a + amount_a <= MaxReserve /\ r.b + amount_b <= MaxReserve
      /\ minted >= 0
      /\ tokens' = [tokens EXCEPT ![w] = [a |-> @.a - in.a, b |-> @.b - in.b]]
      /\ reserve' = [reserve EXCEPT ![p] = [a |-> @.a + in.a, b |-> @.b + in.b]]
      /\ supply' = [supply EXCEPT ![p] = @ + minted]
      /\ share' = [share EXCEPT ![p][w] = @ + minted]
      /\ founded' = IF Empty(r) THEN founded \cup {p} ELSE founded
      /\ UNCHANGED <<amms, pools, vaults>>

\* withdraw_liquidity.  Burning checks that the shares are there.
WithdrawLiquidity(w, p, n) ==
  LET r == reserve[p]
      out == [a |-> Owed(n, r.a, supply[p]), b |-> Owed(n, r.b, supply[p])]
  IN  /\ p \in pools
      /\ n <= share[p][w]
      /\ out.a <= r.a /\ out.b <= r.b
      /\ reserve' = [reserve EXCEPT ![p] = [a |-> @.a - out.a, b |-> @.b - out.b]]
      /\ tokens' = [tokens EXCEPT ![w] = [a |-> @.a + out.a, b |-> @.b + out.b]]
      /\ supply' = [supply EXCEPT ![p] = @ - n]
      /\ share' = [share EXCEPT ![p][w] = @ - n]
      /\ UNCHANGED <<amms, pools, vaults, founded>>

\* The reserves after a swap of this input on side s at the fee of AMM i.
Input(w, s, input_amount) == Min2(input_amount, tokens[w][s])
Output(p, i, s, input) ==
  SwapOutput(Taxed(input, amms[i]), reserve[p][s], reserve[p][Opposite(s)])
AfterSwap(p, i, s, input) ==
  [reserve[p] EXCEPT ![s] = @ + input, ![Opposite(s)] = @ - Output(p, i, s, input)]

\* What a trader has after it.
Traded(own, s, input, output) ==
  [own EXCEPT ![s] = @ - input, ![Opposite(s)] = @ + output]

\* What swap_exact_tokens_for_tokens requires before it moves anything: the AMM
\* passed is the pool's, the quotient is defined, the pool has the output.
CanSwap(w, p, i, s, input_amount, min_output_amount) ==
  LET input == Input(w, s, input_amount)
  IN  /\ p \in pools /\ i = p
      /\ reserve[p][s] + Taxed(input, amms[i]) # 0
      /\ Output(p, i, s, input) >= min_output_amount
      /\ Output(p, i, s, input) <= reserve[p][Opposite(s)]

\* "Verify the invariant still holds": the check after the transfers.
InvariantHolds(p, after) == reserve[p].a * reserve[p].b <= after.a * after.b

SwapExactTokensForTokens(w, p, i, s, input_amount, min_output_amount) ==
  LET input == Input(w, s, input_amount)
      output == Output(p, i, s, input)
      after == AfterSwap(p, i, s, input)
  IN  /\ CanSwap(w, p, i, s, input_amount, min_output_amount)
      /\ reserve[p][s] + input_amount <= MaxReserve
      /\ InvariantHolds(p, after)
      /\ reserve' = [reserve EXCEPT ![p] = after]
      /\ tokens' = [tokens EXCEPT ![w] = Traded(@, s, input, output)]
      /\ UNCHANGED <<amms, pools, vaults, supply, share, founded>>

\* Anyone may create the token account of a pool address, before the pool too,
\* and send tokens to it.
CreateVault(p, s) ==
  /\ s \notin vaults[p]
  /\ vaults' = [vaults EXCEPT ![p] = @ \cup {s}]
  /\ UNCHANGED <<amms, pools, reserve, supply, share, tokens, founded>>

SendToReserve(w, p, s) ==
  /\ s \in vaults[p]
  /\ tokens[w][s] > 0 /\ reserve[p][s] < MaxReserve
  /\ tokens' = [tokens EXCEPT ![w][s] = @ - 1]
  /\ reserve' = [reserve EXCEPT ![p][s] = @ + 1]
  /\ UNCHANGED <<amms, pools, vaults, supply, share, founded>>

SwapNext ==
  \/ \E i \in Amms, fee \in Fees : CreateAmm(i, fee)
  \/ \E p \in Pools : CreatePool(p)
  \/ \E w \in Traders, p \in Pools, x, y \in Amounts : DepositLiquidity(w, p, x, y)
  \/ \E w \in Traders, p \in Pools, n \in Amounts : WithdrawLiquidity(w, p, n)
  \/ \E w \in Traders, p \in Pools, i \in Amms, s \in Sides,
        n \in Amounts, least \in MinOutputs :
       SwapExactTokensForTokens(w, p, i, s, n, least)
  \/ \E p \in Pools, s \in Sides : CreateVault(p, s)
  \/ \E w \in Givers, p \in Pools, s \in Sides : SendToReserve(w, p, s)

SwapSpec == SwapInit /\ [][SwapNext]_swapVars

-----------------------------------------------------------------------------

SwapTypeOK ==
  /\ amms \in [Amms -> Nat \cup {NoFee}]
  /\ \A i \in Amms : amms[i] < BASIS_POINTS
  /\ pools \subseteq Pools /\ founded \subseteq pools
  /\ \A p \in pools : amms[p] # NoFee
  /\ vaults \in [Pools -> SUBSET Sides]
  /\ reserve \in [Pools -> [a: Nat, b: Nat]]
  /\ supply \in [Pools -> Nat]
  /\ share \in [Pools -> [Traders -> Nat]]
  /\ tokens \in [Traders -> [a: Nat, b: Nat]]

\* Shares stay backed: after any sequence of deposits, withdrawals, swaps and
\* gifts, all of them rounded, the product of the reserves is at least the square
\* of the shares, the locked ones included.  So a pool that was founded is never
\* drained of a side, and a share never falls below one token of geometric mean.
SharesBacked ==
  \A p \in founded :
    LET shares == supply[p] + MINIMUM_LIQUIDITY
    IN  shares * shares <= reserve[p].a * reserve[p].b

\* The check that ends a swap never fails one: rounding, and the fee, always
\* leave the product at least where it was, in the oddest pools (one-sided ones,
\* and ones that only gifts filled).
NoSwapIsRejected ==
  \A w \in Traders, p \in Pools, i \in Amms, s \in Sides, n \in Amounts :
    CanSwap(w, p, i, s, n, 0)
      => InvariantHolds(p, AfterSwap(p, i, s, Input(w, s, n)))

\* A deposit takes no more than it was offered of either side.
DepositsWithinOffer ==
  \A p \in Pools, x, y \in Amounts :
    Empty(reserve[p]) \/ reserve[p].a # 0 =>
      LET in == Paired(reserve[p], x, y) IN in.a <= x /\ in.b <= y
=============================================================================
