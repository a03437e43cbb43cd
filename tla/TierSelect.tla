----------------------------- MODULE TierSelect -----------------------------
(***************************************************************************)
(* The pure reward draw of the gacha program                               *)
(* (games/gacha/pinocchio/program/src/gacha.rs): a VRF output is reduced   *)
(* modulo the total weight and the result walks the tiers in order.        *)
(*                                                                         *)
(* A VRF output beta is the natural number its first 16 bytes encode.  The *)
(* widths of the code cannot be exceeded here: eight u32 weights sum to    *)
(* less than 2^35, far inside the u64 total.                               *)
(***************************************************************************)
EXTENDS Integers, Sequences, Functions

CONSTANT MAX_TIERS      \* tiers a pool can define (8 in the code)

ASSUME MaxTiersAssumption == MAX_TIERS \in Nat \ {0} /\ MAX_TIERS < 255

TIER_UNSET == 255       \* u8::MAX, the tier of a pull that is not settled
Tier == 0 .. MAX_TIERS - 1
NoTier == -1            \* select_tier returned an error

Smaller(x, y) == IF x < y THEN x ELSE y

-----------------------------------------------------------------------------
(* Slips: wrong forms of the definitions named in the comments (README).      *)

\* TotalWeight: the sum starts at one.
TotalWithOneMore(weights, count) == 1 + SumFunctionOnSet(weights, 1 .. count)
\* Takes: the upper bound is taken for inside.
TakesInclusive(target, weight) == target <= weight
\* Left: the weight is not taken off.
LeftUnreduced(target, weight) == target

-----------------------------------------------------------------------------

\* Sum of the first count weights.
TotalWeight(weights, count) == SumFunctionOnSet(weights, 1 .. count)

\* One turn of the loop: the tier is taken when what is left of the target is
\* below its weight, and the weight is taken off the target otherwise.
Takes(target, weight) == target < weight
Left(target, weight) == target - weight

\* select_tier: the loop over the tiers, counted from 0.
SelectTier(beta, weights, tier_count) ==
  LET count == Smaller(tier_count, MAX_TIERS)
      total == TotalWeight(weights, count)
      walk[i \in 0 .. count] ==
        [target \in 0 .. total |->
           IF i = count THEN NoTier
           ELSE IF Takes(target, weights[i + 1]) THEN i
           ELSE walk[i + 1][Left(target, weights[i + 1])]]
  IN  IF total = 0 THEN NoTier ELSE walk[0][beta % total]

\* Reference: the tier whose share of the total weight, after the tiers before it, the
\* target falls in.
InShare(tier, target, weights) ==
  /\ TotalWeight(weights, tier) <= target
  /\ target < TotalWeight(weights, tier + 1)
=============================================================================
