------------------------------ MODULE MCGacha -------------------------------
(***************************************************************************)
(* Instances of Gacha for TLC.                                             *)
(*   MCGacha.cfg      two pools of different fees; a2 runs a pool and buys *)
(*                    from both, a1 runs a pool and operates the other; a  *)
(*                    fair clock, fair buyers and a fair crank             *)
(*   MCGachaPool.cfg  one pool, two buyers, two pulls, lamports sent in    *)
(***************************************************************************)
EXTENDS Gacha, TLC

CONSTANTS a1, a2, b1, op

TwoPoolWallets == {a1, a2, b1, op}
TwoPoolAdmins == {a1, a2}
TwoPoolBuyers == {a2, b1}
TwoPoolOperators == {a1, op}

OnePoolWallets == {a1, a2, b1, op}
OnePoolAdmins == {a1}
OnePoolBuyers == {a2, b1}
OnePoolOperators == {op}

NoGivers == {}
OneGiver == {op}

TwoPoolEndowment == [w \in TwoPoolWallets |-> 6]
OnePoolEndowment == (a1 :> 2) @@ (a2 :> 2) @@ (b1 :> 4) @@ (op :> 1)

Config(w, fee, deadline, tiers, weights) ==
  [operator |-> w, entry_fee |-> fee, settle_deadline_slots |-> deadline,
   tier_count |-> tiers, weights |-> weights]

\* Arguments init_pool refuses: no fee, no deadline, no tier, too many tiers, a
\* zero weight, a weight past the last tier, an operator off the curve.
RefusedConfigs ==
  { Config(op, 0, 1, 2, <<1, 2>>), Config(op, 1, 0, 2, <<1, 2>>),
    Config(op, 1, 1, 0, <<0, 0>>), Config(op, 1, 1, 3, <<1, 2>>),
    Config(op, 1, 1, 2, <<1, 0>>), Config(op, 1, 1, 1, <<1, 2>>),
    Config(b1, 1, 1, 2, <<1, 2>>) }

TwoPoolConfigs ==
  { Config(op, 1, 1, 2, <<1, 2>>), Config(a1, 2, 1, 1, <<1, 0>>) }
    \cup RefusedConfigs

OnePoolConfigs ==
  { Config(op, 1, 1, 2, <<1, 2>>) }
    \cup RefusedConfigs
=============================================================================
