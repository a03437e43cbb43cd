---------------------------- MODULE GachaProofs -----------------------------
(***************************************************************************)
(* What holds of Gacha for every number of pools, buyers and pulls, every  *)
(* fee, deadline and rent: its types; that the vault of every pool covers  *)
(* its rent and all of its pending refunds, and the owner draws revenue    *)
(* only; that pulls never regress, prizes are minted once and reveals are  *)
(* what was committed; that the counters and lamports add up; and that the *)
(* program implements PullEscrow.                                          *)
(***************************************************************************)
EXTENDS Gacha, GameRules, SumLemmas

(***************************************************************************)
(* The inductive invariants.                                               *)
(***************************************************************************)

\* The operator recorded by a pool passed init_pool's check, which is why what
\* it commits in the registry is committed by an operator.
OperatorsValid ==
  \A a \in Admins : pool[a].initialized => pool[a].operator \in Operators

TypeInv == TypeOK /\ OperatorsValid

\* pending_pulls counts the pending accounts, a pool that is not initialised
\* has none, and a vault covers what withdraw_fees holds back by the counter.
PendingCounted ==
  \A a \in Admins : pool[a].pending_pulls = Cardinality(PullsOf(a, "Pending"))

ReservedCovered ==
  \A a \in Admins : pool[a].initialized => vault[a] >= Reserved(a)

UnopenedIsEmpty ==
  \A a \in Admins : ~pool[a].initialized => pool[a] = NoPool

SolvencyInv ==
  TypeInv /\ UnopenedIsEmpty /\ PendingCounted /\ ReservedCovered

\* An index is sold once, in order: what the counter pulls_count promises.
IndicesOnce ==
  \A a \in Admins, k \in PullKeys :
    k.pool = a /\ pull[k].status # "Absent"
      => /\ k.index < pool[a].pulls_count
         /\ \A l \in PullKeys :
              l.pool = a /\ l.index = k.index /\ l # k => pull[l].status = "Absent"

\* Nothing was drawn from a pool that is not open.
UnopenedUndrawn == \A a \in Admins : ~pool[a].initialized => withdrawn[a] = 0

LedgerInv ==
  SolvencyInv /\ IndicesOnce /\ UnopenedUndrawn

\* The arguments of init_pool, which stay as they are.
SameTerms(p, r) ==
  /\ r.initialized = p.initialized /\ r.operator = p.operator
  /\ r.entry_fee = p.entry_fee
  /\ r.settle_deadline_slots = p.settle_deadline_slots
  /\ r.tier_count = p.tier_count /\ r.weights = p.weights

(***************************************************************************)
(* Lemmas on the operators of the model.                                   *)
(***************************************************************************)

\* What the constants are, in the form the steps below use.
LEMMA Constants ==
  /\ Betas \subseteq Nat /\ Tier \subseteq Nat /\ TIER_UNSET \in Nat
  /\ RentFloor \in Nat /\ PoolRent \in Nat /\ PullRent \in Nat
  /\ MaxSlot \in Nat /\ MaxPulls \in Nat /\ MAX_TIERS \in Nat
  /\ Admins \subseteq Wallets /\ Buyers \subseteq Wallets
  /\ Operators \subseteq Wallets /\ Givers \subseteq Wallets
BY GachaAssumption, MaxTiersAssumption DEF Tier, TIER_UNSET

\* The top-up of create_pda_account brings an address to the rent exactly when
\* it held less, and never takes anything out of it.
LEMMA TopUpFacts ==
  ASSUME NEW held \in Nat, NEW rent \in Nat
  PROVE  /\ TopUp(held, rent) \in Nat
         /\ held + TopUp(held, rent) >= rent
BY DEF TopUp

\* There are finitely many pull addresses.
LEMMA PullKeysFinite == IsFiniteSet(PullKeys)
<1> DEFINE Triples == Admins \X (Buyers \X (0 .. MaxPulls - 1))
           f == [t \in Triples |->
                   [pool |-> t[1], buyer |-> t[2][1], index |-> t[2][2]]]
<1>1. IsFiniteSet(Admins) /\ IsFiniteSet(Buyers)
  BY GachaAssumption, FS_Subset
<1>2. IsFiniteSet(0 .. MaxPulls - 1)
  BY Constants, FS_Interval
<1>3. IsFiniteSet(Triples)
  BY <1>1, <1>2, FS_Product
<1>4. f \in Surjection(Triples, PullKeys)
  <2>1. f \in [Triples -> PullKeys]
    BY DEF PullKeys
  <2>2. ASSUME NEW k \in PullKeys
        PROVE  \E t \in Triples : f[t] = k
    <3> DEFINE t == <<k.pool, <<k.buyer, k.index>>>>
    <3>1. t \in Triples
      BY DEF PullKeys
    <3>2. f[t] = k
      BY <3>1 DEF PullKeys
    <3> QED BY <3>1, <3>2
  <2> QED BY <2>1, <2>2 DEF Surjection
<1> QED BY <1>3, <1>4, FS_Surjection

\* Any selection of pulls is a finite set of pull addresses.
LEMMA PullsFinite ==
  ASSUME NEW a, NEW status
  PROVE  /\ PullsOf(a, status) \in SUBSET PullKeys
         /\ IsFiniteSet(PullsOf(a, status))
         /\ Cardinality(PullsOf(a, status)) \in Nat
<1>1. PullsOf(a, status) \in SUBSET PullKeys
  BY DEF PullsOf, Pulls
<1>2. IsFiniteSet(PullsOf(a, status))
  BY <1>1, PullKeysFinite, FS_Subset
<1> QED BY <1>1, <1>2, FS_CardinalityType

(***************************************************************************)
(* Types.                                                                  *)
(***************************************************************************)

LEMMA NoAccountTypes == NoPull \in PullType /\ (Wallets # {} => NoPool \in PoolType)
<1>1. NoPull \in PullType
  BY DEF NoPull, PullType, TIER_UNSET
<1>2. ASSUME Wallets # {} PROVE NoPool \in PoolType
  <2>1. (CHOOSE w \in Wallets : TRUE) \in Wallets
    BY <1>2
  <2>2. <<>> \in Seq(Nat)
    OBVIOUS
  <2> QED BY <2>1, <2>2 DEF NoPool, PoolType
<1> QED BY <1>1, <1>2

\* A pull whose account is replaced by one that carries a tier when it is revealed.
LEMMA PullReplaced ==
  ASSUME TypeInv, NEW k \in PullKeys, NEW r \in PullType,
         (r.tier_selected = TIER_UNSET) <=> (r.status \in {"Absent", "Pending"}),
         pull' = [pull EXCEPT ![k] = r]
  PROVE  pull' \in [PullKeys -> PullType] /\ TierOnceRevealed'
<1>1. /\ pull \in [PullKeys -> PullType] /\ TierOnceRevealed
  BY DEF TypeInv, TypeOK
<1>2. pull'[k] = r /\ \A l \in PullKeys \ {k} : pull'[l] = pull[l]
  BY <1>1
<1>3. pull' \in [PullKeys -> PullType]
  BY <1>1
<1>4. TierOnceRevealed'
  BY <1>1, <1>2 DEF TierOnceRevealed
<1> QED BY <1>3, <1>4

LEMMA TypeInit == Init => TypeInv
<1> SUFFICES ASSUME Init PROVE TypeInv
  OBVIOUS
<1>1. pool \in [Admins -> PoolType]
  <2>1. CASE Admins = {}
    BY <2>1 DEF Init
  <2>2. CASE Admins # {}
    BY <2>2, Constants, NoAccountTypes DEF Init
  <2> QED BY <2>1, <2>2
<1>2. pull \in [PullKeys -> PullType] /\ TierOnceRevealed
  BY NoAccountTypes DEF Init, NoPull, TierOnceRevealed
<1>3. wallet \in [Wallets -> Nat]
  BY GachaAssumption DEF Init
<1>4. OperatorsValid
  BY DEF Init, OperatorsValid, NoPool
<1> QED BY <1>1, <1>2, <1>3, <1>4, Constants DEF Init, TypeInv, TypeOK

\* A pool account replaced by one with the same operator keeps the types.
LEMMA PoolReplaced ==
  ASSUME TypeInv, NEW a \in Admins, NEW r \in PoolType,
         r.operator = pool[a].operator, r.initialized = pool[a].initialized,
         pool' = [pool EXCEPT ![a] = r]
  PROVE  /\ pool' \in [Admins -> PoolType] /\ OperatorsValid'
         /\ pool'[a] = r
         /\ \A x \in Admins \ {a} : pool'[x] = pool[x]
<1>1. /\ pool'[a] = r
      /\ \A x \in Admins \ {a} : pool'[x] = pool[x]
      /\ pool' \in [Admins -> PoolType]
  BY DEF TypeInv, TypeOK
<1>2. OperatorsValid'
  BY <1>1 DEF TypeInv, OperatorsValid
<1> QED BY <1>1, <1>2

\* A pool with one counter replaced is that pool otherwise.
LEMMA WithPending ==
  ASSUME NEW p \in PoolType, NEW n \in Nat
  PROVE  LET r == [p EXCEPT !.pending_pulls = n]
         IN  /\ r \in PoolType
             /\ SameTerms(p, r)
             /\ r.pending_pulls = n /\ r.pulls_count = p.pulls_count
<1> DEFINE r == [p EXCEPT !.pending_pulls = n]
<1>1. r \in PoolType BY DEF PoolType
<1>2. SameTerms(p, r)
  <2>1. r.initialized = p.initialized /\ r.operator = p.operator
    BY DEF PoolType
  <2>2. r.entry_fee = p.entry_fee
    BY DEF PoolType
  <2>3. r.settle_deadline_slots = p.settle_deadline_slots
    BY DEF PoolType
  <2>4. r.tier_count = p.tier_count /\ r.weights = p.weights
    BY DEF PoolType
  <2> HIDE DEF r
  <2> QED BY <2>1, <2>2, <2>3, <2>4 DEF SameTerms
<1>3. r.pending_pulls = n BY DEF PoolType
<1>4. r.pulls_count = p.pulls_count BY DEF PoolType
<1> QED BY <1>1, <1>2, <1>3, <1>4, Zenon

LEMMA WithSold ==
  ASSUME NEW p \in PoolType, NEW n \in Nat
  PROVE  LET r == [p EXCEPT !.pulls_count = n]
         IN  /\ r \in PoolType
             /\ SameTerms(p, r)
             /\ r.pulls_count = n /\ r.pending_pulls = p.pending_pulls
<1> DEFINE r == [p EXCEPT !.pulls_count = n]
<1>1. r \in PoolType BY DEF PoolType
<1>2. SameTerms(p, r)
  <2>1. r.initialized = p.initialized /\ r.operator = p.operator
    BY DEF PoolType
  <2>2. r.entry_fee = p.entry_fee
    BY DEF PoolType
  <2>3. r.settle_deadline_slots = p.settle_deadline_slots
    BY DEF PoolType
  <2>4. r.tier_count = p.tier_count /\ r.weights = p.weights
    BY DEF PoolType
  <2> HIDE DEF r
  <2> QED BY <2>1, <2>2, <2>3, <2>4 DEF SameTerms
<1>3. r.pulls_count = n BY DEF PoolType
<1>4. r.pending_pulls = p.pending_pulls BY DEF PoolType
<1> QED BY <1>1, <1>2, <1>3, <1>4, Zenon

\* EndPending takes one off the pending counter and does nothing else.
LEMMA EndPendingMoves ==
  ASSUME TypeInv, NEW a \in Admins, EndPending(a)
  PROVE  /\ pool' \in [Admins -> PoolType] /\ OperatorsValid'
         /\ pool[a].pending_pulls \in Nat \ {0}
         /\ pool'[a].pending_pulls = pool[a].pending_pulls - 1
         /\ pool'[a].pulls_count = pool[a].pulls_count
         /\ SameTerms(pool[a], pool'[a])
         /\ \A x \in Admins \ {a} : pool'[x] = pool[x]
<1> DEFINE r == [pool[a] EXCEPT !.pending_pulls = pool[a].pending_pulls - 1]
<1>1. pool[a] \in PoolType
  BY DEF TypeInv, TypeOK
<1>2. pool[a].pending_pulls \in Nat \ {0}
  BY <1>1 DEF PoolType, EndPending
<1>3. /\ r \in PoolType /\ SameTerms(pool[a], r)
      /\ r.pending_pulls = pool[a].pending_pulls - 1
      /\ r.pulls_count = pool[a].pulls_count
  <2>1. pool[a].pending_pulls - 1 \in Nat
    BY <1>2
  <2> QED BY <1>1, <2>1, WithPending
<1>4. pool' = [pool EXCEPT ![a] = r]
  BY DEF EndPending, TypeInv, TypeOK
<1> HIDE DEF r
<1>5. /\ pool' \in [Admins -> PoolType] /\ OperatorsValid' /\ pool'[a] = r
      /\ \A x \in Admins \ {a} : pool'[x] = pool[x]
  BY <1>3, <1>4, PoolReplaced DEF SameTerms
<1> QED BY <1>2, <1>3, <1>5

\* BuyPull adds one to both counters and does nothing else to the pool.
LEMMA BuyPullMoves ==
  ASSUME TypeInv, NEW a \in Admins, NEW k \in PullKeys, BuyPull(a, k)
  PROVE  /\ pool' \in [Admins -> PoolType] /\ OperatorsValid'
         /\ pool[a].pending_pulls \in Nat
         /\ pool'[a].pending_pulls = pool[a].pending_pulls + 1
         /\ pool'[a].pulls_count = pool[a].pulls_count + 1
         /\ SameTerms(pool[a], pool'[a])
         /\ \A x \in Admins \ {a} : pool'[x] = pool[x]
<1> DEFINE sold == [pool[a] EXCEPT !.pulls_count = pool[a].pulls_count + 1]
           r == [sold EXCEPT !.pending_pulls = pool[a].pending_pulls + 1]
<1>1. pool[a] \in PoolType
  BY DEF TypeInv, TypeOK
<1>2. pool[a].pulls_count \in Nat /\ pool[a].pending_pulls \in Nat
  BY <1>1 DEF PoolType
<1>3. /\ r \in PoolType /\ SameTerms(pool[a], r)
      /\ r.pending_pulls = pool[a].pending_pulls + 1
      /\ r.pulls_count = pool[a].pulls_count + 1
  <2>1. pool[a].pulls_count + 1 \in Nat /\ pool[a].pending_pulls + 1 \in Nat
    BY <1>2
  <2>2. /\ sold \in PoolType /\ SameTerms(pool[a], sold)
        /\ sold.pulls_count = pool[a].pulls_count + 1
    BY <1>1, <2>1, WithSold
  <2> HIDE DEF sold
  <2> QED BY <2>1, <2>2, WithPending DEF SameTerms
<1>4. sold.pending_pulls = pool[a].pending_pulls
  BY <1>1 DEF PoolType
<1>5. pool' = [pool EXCEPT ![a] = r]
  <2>1. pool' = [[pool EXCEPT ![a] = sold]
                   EXCEPT ![a] = [sold EXCEPT !.pending_pulls =
                                    sold.pending_pulls + 1]]
    BY DEF BuyPull, TypeInv, TypeOK
  <2> QED BY <2>1, <1>4 DEF TypeInv, TypeOK
<1> HIDE DEF r
<1>6. /\ pool' \in [Admins -> PoolType] /\ OperatorsValid' /\ pool'[a] = r
      /\ \A x \in Admins \ {a} : pool'[x] = pool[x]
  BY <1>3, <1>5, PoolReplaced DEF SameTerms
<1> QED BY <1>2, <1>3, <1>6

\* What each action does to the types.
LEMMA TypeStep == TypeInv /\ [Next]_vars => TypeInv'
<1> SUFFICES ASSUME TypeInv, [Next]_vars PROVE TypeInv'
  OBVIOUS
<1> USE Constants
<1>1. ASSUME NEW a \in Admins, NEW c \in PoolConfigs, InitPool(a, c)
      PROVE  TypeInv'
  <2> DEFINE topUp == TopUp(vault[a], RentFloor)
             cost == PoolRent + topUp
             held == vault[a] + topUp
             opened == [initialized |-> TRUE, operator |-> c.operator,
                        entry_fee |-> c.entry_fee,
                        settle_deadline_slots |-> c.settle_deadline_slots,
                        tier_count |-> c.tier_count, weights |-> c.weights,
                        pulls_count |-> 0, pending_pulls |-> 0]
  <2>1. topUp \in Nat /\ held \in Nat /\ held >= RentFloor
    <3>1. vault[a] \in Nat
      BY DEF TypeInv, TypeOK
    <3>2. topUp \in Nat /\ vault[a] + topUp >= RentFloor
      BY <3>1, TopUpFacts
    <3> QED BY <3>1, <3>2
  <2>2. c \in [operator: Wallets, entry_fee: Nat, settle_deadline_slots: Nat,
               tier_count: Nat, weights: Seq(Nat)]
    BY GachaAssumption
  <2>3. opened \in PoolType
    BY <2>2 DEF PoolType
  <2>4. pool' = [pool EXCEPT ![a] = opened]
    BY <1>1 DEF InitPool
  <2>5. pool' \in [Admins -> PoolType]
    BY <2>3, <2>4 DEF TypeInv, TypeOK
  <2>6. wallet' \in [Wallets -> Nat] /\ vault' \in [Admins -> Nat]
        /\ surplus' \in [Admins -> Nat]
    <3> HIDE DEF topUp
    <3>1. /\ wallet[a] >= cost /\ wallet[a] \in Nat
          /\ wallet' = [wallet EXCEPT ![a] = @ - cost]
          /\ vault' = [vault EXCEPT ![a] = held]
          /\ surplus' = [surplus EXCEPT ![a] = held - RentFloor]
      BY <1>1 DEF InitPool, TypeInv, TypeOK, topUp
    <3> QED BY <3>1, <2>1 DEF TypeInv, TypeOK
  <2>7. OperatorsValid'
    <3>1. c.operator \in Operators
      BY <1>1 DEF InitPool, ValidOperator
    <3> QED BY <3>1, <2>4 DEF TypeInv, TypeOK, OperatorsValid
  <2> QED BY <1>1, <2>5, <2>6, <2>7 DEF InitPool, TypeInv, TypeOK, TierOnceRevealed
<1>2. ASSUME NEW a \in Admins, NEW k \in PullKeys, BuyPull(a, k)
      PROVE  TypeInv'
  <2> DEFINE topUp == TopUp(pullLamports[k], PullRent)
             cost == topUp + pool[a].entry_fee
             bought == [status |-> "Pending", tier_selected |-> TIER_UNSET,
                        beta |-> 0, requested_slot |-> slot]
  <2>1. topUp \in Nat /\ pool[a].entry_fee \in Nat /\ k.buyer \in Wallets
    BY TopUpFacts DEF TypeInv, TypeOK, PoolType, PullKeys
  <2>2. bought \in PullType
    BY DEF PullType, PullStatus, TypeInv, TypeOK
  <2>3. pull' \in [PullKeys -> PullType] /\ TierOnceRevealed'
    <3>1. pull' = [pull EXCEPT ![k] = bought]
      BY <1>2 DEF BuyPull
    <3>2. bought.tier_selected = TIER_UNSET /\ bought.status = "Pending"
      OBVIOUS
    <3> HIDE DEF bought
    <3> QED BY <2>2, <3>1, <3>2, PullReplaced
  <2>4. /\ wallet' \in [Wallets -> Nat] /\ vault' \in [Admins -> Nat]
        /\ pullLamports' \in [PullKeys -> Nat]
    <3> HIDE DEF topUp
    <3>1. /\ wallet[k.buyer] >= cost
          /\ wallet' = [wallet EXCEPT ![k.buyer] = @ - cost]
          /\ vault' = [vault EXCEPT ![a] = @ + pool[a].entry_fee]
          /\ pullLamports' = [pullLamports EXCEPT ![k] = @ + topUp]
      BY <1>2 DEF BuyPull, topUp
    <3> QED BY <3>1, <2>1 DEF TypeInv, TypeOK
  <2>5. pool' \in [Admins -> PoolType] /\ OperatorsValid'
    BY <1>2, BuyPullMoves
  <2> QED BY <1>2, <2>3, <2>4, <2>5 DEF BuyPull, TypeInv, TypeOK
<1>3. ASSUME NEW w \in Wallets, NEW a \in Admins, NEW k \in PullKeys,
             NEW beta \in Betas, SettlePull(w, a, k, beta)
      PROVE  TypeInv'
  <2> DEFINE tier == SelectTier(beta, pool[a].weights, pool[a].tier_count)
  <2>1. tier \in Tier
    BY <1>3 DEF SettlePull
  <2> HIDE DEF tier
  <2>2. pull' = [pull EXCEPT ![k] = Revealed(k, beta, tier)]
    BY <1>3 DEF SettlePull, tier
  <2>3. Revealed(k, beta, tier) \in PullType
    BY <2>1 DEF Revealed, PullType, PullStatus, TypeInv, TypeOK
  <2>4. pull' \in [PullKeys -> PullType] /\ TierOnceRevealed'
    <3>1. pull[k] \in PullType
      BY DEF TypeInv, TypeOK
    <3>2. /\ Revealed(k, beta, tier).tier_selected = tier
          /\ Revealed(k, beta, tier).status = "Settled"
      BY <3>1 DEF Revealed, PullType
    <3>3. tier # TIER_UNSET
      BY <2>1, MaxTiersAssumption DEF Tier, TIER_UNSET
    <3> QED BY <2>2, <2>3, <3>2, <3>3, PullReplaced
  <2>5. pool' \in [Admins -> PoolType] /\ OperatorsValid'
    BY <1>3, EndPendingMoves DEF SettlePull
  <2>6. w \in Operators
    BY <1>3 DEF SettlePull, TypeInv, OperatorsValid
  <2>7. registry' \subseteq [authority: Operators, pull: PullKeys, beta: Betas]
    BY <1>3, <2>6 DEF SettlePull, Commit, TypeInv, TypeOK
  <2> QED BY <1>3, <2>4, <2>5, <2>7 DEF SettlePull, TypeInv, TypeOK
<1>4. ASSUME NEW b \in Wallets, NEW a \in Admins, NEW k \in PullKeys,
             RefundPull(b, a, k)
      PROVE  TypeInv'
  <2>1. pull' \in [PullKeys -> PullType] /\ TierOnceRevealed'
    <3>1. pull' = [pull EXCEPT ![k] = NoPull]
      BY <1>4 DEF RefundPull
    <3>2. NoPull.tier_selected = TIER_UNSET /\ NoPull.status = "Absent"
      BY DEF NoPull
    <3> QED BY <3>1, <3>2, NoAccountTypes, PullReplaced
  <2>2. pool' \in [Admins -> PoolType] /\ OperatorsValid'
    BY <1>4, EndPendingMoves DEF RefundPull, CanRefund
  <2>3. Refund(a, k) \in Nat /\ pool[a].entry_fee \in Nat
    BY DEF Refund, TypeInv, TypeOK, PoolType
  <2>4. /\ wallet' \in [Wallets -> Nat] /\ vault' \in [Admins -> Nat]
        /\ pullLamports' \in [PullKeys -> Nat]
    BY <1>4, <2>3 DEF RefundPull, CanRefund, TypeInv, TypeOK
  <2> QED BY <1>4, <2>1, <2>2, <2>4 DEF RefundPull, CanRefund, TypeInv, TypeOK
<1>5. ASSUME NEW a \in Admins, NEW b \in Wallets, NEW k \in PullKeys,
             ClaimPrize(a, b, k)
      PROVE  TypeInv'
  <2>1. pull[k] \in PullType
    BY DEF TypeInv, TypeOK
  <2> DEFINE r == [pull[k] EXCEPT !.status = "Claimed"]
  <2>2. pull' \in [PullKeys -> PullType] /\ TierOnceRevealed'
    <3>1. pull' = [pull EXCEPT ![k] = r]
      BY <1>5 DEF ClaimPrize, MarkClaimed
    <3>2. r \in PullType /\ r.status = "Claimed" /\ r.tier_selected = pull[k].tier_selected
      BY <2>1 DEF PullType, PullStatus
    <3>3. pull[k].tier_selected # TIER_UNSET
      BY <1>5 DEF ClaimPrize, TypeInv, TypeOK, TierOnceRevealed
    <3> HIDE DEF r
    <3> QED BY <3>1, <3>2, <3>3, PullReplaced
  <2>3. pull[k].tier_selected \in Tier
    BY <1>5, <2>1, MaxTiersAssumption
       DEF ClaimPrize, HasLabel, PullType, TIER_UNSET
  <2>4. b \in Buyers
    BY <1>5 DEF ClaimPrize, PullKeys
  <2>5. prizes' \subseteq [pull: PullKeys, owner: Buyers, rarity: Tier]
    BY <1>5, <2>3, <2>4 DEF ClaimPrize, MintPrize, TypeInv, TypeOK
  <2> QED BY <1>5, <2>2, <2>5 DEF ClaimPrize, TypeInv, TypeOK, OperatorsValid
<1>6. ASSUME NEW w \in Wallets, NEW a \in Admins, NEW amount \in 0 .. vault[a],
             WithdrawFees(w, a, amount)
      PROVE  TypeInv'
  <2>1. vault[a] \in Nat /\ amount \in Nat /\ amount <= vault[a]
    BY DEF TypeInv, TypeOK
  <2>2. /\ wallet' \in [Wallets -> Nat] /\ vault' \in [Admins -> Nat]
        /\ withdrawn' \in [Admins -> Nat]
    BY <1>6, <2>1 DEF WithdrawFees, TypeInv, TypeOK
  <2> QED BY <1>6, <2>2 DEF WithdrawFees, TypeInv, TypeOK, OperatorsValid,
       TierOnceRevealed
<1>7. ASSUME Tick PROVE TypeInv'
  BY <1>7 DEF Tick, TypeInv, TypeOK, OperatorsValid, TierOnceRevealed
<1>8. ASSUME NEW w \in Operators, NEW k \in PullKeys, NEW beta \in Betas,
             CommitOutside(w, k, beta)
      PROVE  TypeInv'
  <2>1. registry' \subseteq [authority: Operators, pull: PullKeys, beta: Betas]
    BY <1>8 DEF CommitOutside, Commit, TypeInv, TypeOK
  <2> QED BY <1>8, <2>1 DEF CommitOutside, TypeInv, TypeOK, OperatorsValid,
       TierOnceRevealed
<1>9. ASSUME NEW w \in Operators, RevokeAuthority(w) PROVE TypeInv'
  BY <1>9 DEF RevokeAuthority, TypeInv, TypeOK, OperatorsValid, TierOnceRevealed
<1>10. ASSUME NEW w \in Givers, NEW a \in Admins, NEW n \in 1 .. wallet[w],
              GiveVault(w, a, n)
       PROVE  TypeInv'
  <2>1. w \in Wallets /\ wallet[w] \in Nat /\ n \in Nat /\ n <= wallet[w]
    BY DEF TypeInv, TypeOK
  <2>2. /\ wallet' \in [Wallets -> Nat] /\ vault' \in [Admins -> Nat]
        /\ surplus' \in [Admins -> Nat]
    BY <1>10, <2>1 DEF GiveVault, TypeInv, TypeOK
  <2> QED BY <1>10, <2>2 DEF GiveVault, TypeInv, TypeOK, OperatorsValid,
       TierOnceRevealed
<1>11. ASSUME NEW w \in Givers, NEW k \in PullKeys, NEW n \in 1 .. wallet[w],
              GivePull(w, k, n)
       PROVE  TypeInv'
  <2>1. w \in Wallets /\ wallet[w] \in Nat /\ n \in Nat /\ n <= wallet[w]
    BY DEF TypeInv, TypeOK
  <2>2. wallet' \in [Wallets -> Nat] /\ pullLamports' \in [PullKeys -> Nat]
    BY <1>11, <2>1 DEF GivePull, TypeInv, TypeOK
  <2> QED BY <1>11, <2>2 DEF GivePull, TypeInv, TypeOK, OperatorsValid,
       TierOnceRevealed
<1>12. CASE UNCHANGED vars
  BY <1>12 DEF vars, TypeInv, TypeOK, OperatorsValid, TierOnceRevealed
<1> QED
  BY <1>1, <1>2, <1>3, <1>4, <1>5, <1>6, <1>7, <1>8, <1>9, <1>10, <1>11, <1>12
     DEF Next

\* Every reachable state of the gacha program and its surroundings is well
\* typed: no balance and no counter of any instruction ever goes below zero, a
\* prize only carries a tier the pool has, and only a checked operator's reveal
\* reaches the registry through settle_pull.
THEOREM TypeCorrect == Spec => []TypeOK
<1>1. Init => TypeInv
  BY TypeInit
<1>2. TypeInv /\ [Next]_vars => TypeInv'
  BY TypeStep
<1>3. TypeInv => TypeOK
  BY DEF TypeInv
<1> QED BY <1>1, <1>2, <1>3, PTL DEF Spec

(***************************************************************************)
(* Solvency.                                                               *)
(***************************************************************************)

\* What a vault holds back grows and shrinks by one fee with the counter.
LEMMA OneFeeMore ==
  ASSUME NEW n \in Nat, NEW f \in Nat
  PROVE  n * f \in Nat /\ (n + 1) * f = n * f + f
OBVIOUS

LEMMA OneFeeLess ==
  ASSUME NEW n \in Nat \ {0}, NEW f \in Nat
  PROVE  n * f \in Nat /\ (n - 1) * f \in Nat /\ n * f = (n - 1) * f + f
<1>1. n - 1 \in Nat /\ (n - 1) + 1 = n
  OBVIOUS
<1> QED BY <1>1, OneFeeMore

\* A step that leaves the same pulls pending leaves every count as it is.
LEMMA SamePending ==
  ASSUME \A k \in PullKeys :
           (pull'[k].status = "Pending") <=> (pull[k].status = "Pending")
  PROVE  \A a \in Admins : PullsOf(a, "Pending")' = PullsOf(a, "Pending")
BY DEF PullsOf, Pulls

\* Steps that keep the pools, the pending pulls and every vault's money.
LEMMA SolvencyKept ==
  ASSUME SolvencyInv, TypeInv', UNCHANGED pool,
         \A a \in Admins : vault'[a] >= vault[a],
         \A k \in PullKeys :
           (pull'[k].status = "Pending") <=> (pull[k].status = "Pending")
  PROVE  SolvencyInv'
<1>1. UnopenedIsEmpty' /\ PendingCounted'
  BY SamePending DEF SolvencyInv, UnopenedIsEmpty, PendingCounted, NoPool
<1>2. ReservedCovered'
  <2> SUFFICES ASSUME NEW a \in Admins, pool[a].initialized
               PROVE  vault'[a] >= Reserved(a)'
    BY DEF ReservedCovered
  <2>1. Reserved(a)' = Reserved(a) /\ vault[a] >= Reserved(a)
    BY DEF Reserved, SolvencyInv, ReservedCovered
  <2>2. vault[a] \in Nat /\ vault'[a] \in Nat /\ vault'[a] >= vault[a]
    BY DEF SolvencyInv, TypeInv, TypeOK
  <2>3. Reserved(a) \in Nat
    <3>1. pool[a].pending_pulls \in Nat /\ pool[a].entry_fee \in Nat
      BY DEF SolvencyInv, TypeInv, TypeOK, PoolType
    <3> QED BY <3>1, OneFeeMore, Constants DEF Reserved
  <2> QED BY <2>1, <2>2, <2>3
<1> QED BY <1>1, <1>2 DEF SolvencyInv

\* A pending pull of pool a ends and the vault of a pays at most its fee.
LEMMA SolvencyWhenPullEnds ==
  ASSUME SolvencyInv, TypeInv', NEW a \in Admins, NEW k \in PullKeys,
         k.pool = a, pool[a].initialized, EndPending(a),
         pull[k].status = "Pending", pull'[k].status # "Pending",
         \A l \in PullKeys \ {k} : pull'[l] = pull[l],
         \/ vault' = vault
         \/ vault' = [vault EXCEPT ![a] = @ - pool[a].entry_fee]
  PROVE  SolvencyInv'
<1>1. /\ pool[a].pending_pulls \in Nat \ {0}
      /\ pool'[a].pending_pulls = pool[a].pending_pulls - 1
      /\ pool'[a].initialized = pool[a].initialized
      /\ pool'[a].entry_fee = pool[a].entry_fee
      /\ \A x \in Admins \ {a} : pool'[x] = pool[x]
  BY EndPendingMoves DEF SolvencyInv, SameTerms
<1>2. /\ k \in PullsOf(a, "Pending")
      /\ PullsOf(a, "Pending")' = PullsOf(a, "Pending") \ {k}
      /\ \A x \in Admins \ {a} : PullsOf(x, "Pending")' = PullsOf(x, "Pending")
  BY DEF PullsOf, Pulls
<1>3. PendingCounted'
  <2>1. Cardinality(PullsOf(a, "Pending")')
          = Cardinality(PullsOf(a, "Pending")) - 1
    BY <1>2, PullsFinite, FS_RemoveElement
  <2> QED BY <1>1, <1>2, <2>1 DEF SolvencyInv, PendingCounted
<1>4. UnopenedIsEmpty'
  BY <1>1 DEF SolvencyInv, UnopenedIsEmpty, NoPool
<1>5. ReservedCovered'
  <2> SUFFICES ASSUME NEW x \in Admins, pool'[x].initialized
               PROVE  vault'[x] >= Reserved(x)'
    BY DEF ReservedCovered
  <2>1. CASE x = a
    <3>1. pool[a].entry_fee \in Nat /\ vault[a] \in Nat
      BY DEF SolvencyInv, TypeInv, TypeOK, PoolType
    <3> DEFINE before == pool[a].pending_pulls * pool[a].entry_fee
               after == (pool[a].pending_pulls - 1) * pool[a].entry_fee
    <3>2. before \in Nat /\ after \in Nat /\ before = after + pool[a].entry_fee
      BY <1>1, <3>1, OneFeeLess
    <3>3. Reserved(a)' = RentFloor + after
      BY <1>1 DEF Reserved
    <3>4. vault[a] >= RentFloor + before
      BY DEF SolvencyInv, ReservedCovered, Reserved
    <3>5. vault'[a] = vault[a] \/ vault'[a] = vault[a] - pool[a].entry_fee
      BY DEF SolvencyInv, TypeInv, TypeOK
    <3> HIDE DEF before, after
    <3> QED BY <2>1, <3>1, <3>2, <3>3, <3>4, <3>5, Constants
  <2>2. CASE x # a
    <3>1. pool'[x] = pool[x] /\ vault'[x] = vault[x]
      BY <1>1, <2>2 DEF SolvencyInv, TypeInv, TypeOK
    <3> QED BY <3>1 DEF SolvencyInv, ReservedCovered, Reserved
  <2> QED BY <2>1, <2>2
<1> QED BY <1>3, <1>4, <1>5 DEF SolvencyInv

LEMMA SolvencyInit == Init => SolvencyInv
<1> SUFFICES ASSUME Init PROVE SolvencyInv
  OBVIOUS
<1>1. \A a \in Admins : PullsOf(a, "Pending") = {}
  BY DEF Init, PullsOf, Pulls, NoPull
<1> QED BY <1>1, TypeInit, FS_EmptySet
        DEF Init, SolvencyInv, UnopenedIsEmpty, PendingCounted,
            ReservedCovered, NoPool

LEMMA SolvencyStep == SolvencyInv /\ [Next]_vars => SolvencyInv'
<1> SUFFICES ASSUME SolvencyInv, [Next]_vars PROVE SolvencyInv'
  OBVIOUS
<1>0. TypeInv'
  BY TypeStep DEF SolvencyInv
<1> USE <1>0
<1>1. ASSUME NEW a \in Admins, NEW c \in PoolConfigs, InitPool(a, c)
      PROVE  SolvencyInv'
  <2> DEFINE held == vault[a] + TopUp(vault[a], RentFloor)
  <2>1. \A x \in Admins : PullsOf(x, "Pending")' = PullsOf(x, "Pending")
    BY <1>1, SamePending DEF InitPool
  <2>2. /\ pool'[a].initialized /\ pool'[a].pending_pulls = 0
        /\ pool'[a].entry_fee \in Nat
        /\ \A x \in Admins \ {a} : pool'[x] = pool[x] /\ vault'[x] = vault[x]
    <3>1. /\ pool \in [Admins -> PoolType] /\ pool' \in [Admins -> PoolType]
          /\ vault \in [Admins -> Nat]
      BY DEF SolvencyInv, TypeInv, TypeOK
    <3>2. \A x \in Admins \ {a} : pool'[x] = pool[x] /\ vault'[x] = vault[x]
      BY <1>1, <3>1 DEF InitPool
    <3>3. pool'[a] = [initialized |-> TRUE, operator |-> c.operator,
                      entry_fee |-> c.entry_fee,
                      settle_deadline_slots |-> c.settle_deadline_slots,
                      tier_count |-> c.tier_count, weights |-> c.weights,
                      pulls_count |-> 0, pending_pulls |-> 0]
      BY <1>1, <3>1 DEF InitPool
    <3>4. pool'[a].initialized
      BY <3>3
    <3>5. pool'[a].pending_pulls = 0
      BY <3>3
    <3>6. pool'[a].entry_fee \in Nat
      BY <3>1 DEF PoolType
    <3> QED BY <3>2, <3>4, <3>5, <3>6, Zenon
  <2>3. pool[a].pending_pulls = 0
    <3>1. ~pool[a].initialized
      BY <1>1 DEF InitPool
    <3>2. pool[a] = NoPool
      BY <3>1 DEF SolvencyInv, UnopenedIsEmpty
    <3> QED BY <3>2 DEF NoPool
  <2>4. PendingCounted' /\ UnopenedIsEmpty'
    BY <2>1, <2>2, <2>3
       DEF SolvencyInv, PendingCounted, UnopenedIsEmpty, NoPool
  <2>5. vault'[a] >= RentFloor
    <3>1. vault[a] \in Nat /\ vault'[a] = held
      BY <1>1 DEF InitPool, SolvencyInv, TypeInv, TypeOK
    <3> QED BY <3>1, TopUpFacts, Constants
  <2>6. Reserved(a)' = RentFloor
    BY <2>2, Constants DEF Reserved
  <2>7. ReservedCovered'
    BY <2>2, <2>5, <2>6 DEF SolvencyInv, ReservedCovered, Reserved
  <2> QED BY <2>4, <2>7 DEF SolvencyInv
<1>2. ASSUME NEW a \in Admins, NEW k \in PullKeys, BuyPull(a, k)
      PROVE  SolvencyInv'
  <2>1. /\ pool[a].pending_pulls \in Nat
        /\ pool'[a].pending_pulls = pool[a].pending_pulls + 1
        /\ pool'[a].initialized = pool[a].initialized
        /\ pool'[a].entry_fee = pool[a].entry_fee
        /\ \A x \in Admins \ {a} : pool'[x] = pool[x]
    BY <1>2, BuyPullMoves DEF SolvencyInv, SameTerms
  <2>2. /\ k.pool = a /\ pull[k].status = "Absent" /\ pool[a].initialized
        /\ pull'[k].status = "Pending"
        /\ \A l \in PullKeys \ {k} : pull'[l] = pull[l]
    BY <1>2 DEF BuyPull, SolvencyInv, TypeInv, TypeOK
  <2>3. /\ k \notin PullsOf(a, "Pending")
        /\ PullsOf(a, "Pending")' = PullsOf(a, "Pending") \cup {k}
        /\ \A x \in Admins \ {a} :
             PullsOf(x, "Pending")' = PullsOf(x, "Pending")
    BY <2>2 DEF PullsOf, Pulls
  <2>4. PendingCounted'
    <3>1. Cardinality(PullsOf(a, "Pending")')
            = Cardinality(PullsOf(a, "Pending")) + 1
      BY <2>3, PullsFinite, FS_AddElement
    <3> QED BY <2>1, <2>3, <3>1 DEF SolvencyInv, PendingCounted
  <2>5. UnopenedIsEmpty'
    BY <2>1, <2>2 DEF SolvencyInv, UnopenedIsEmpty, NoPool
  <2>6. vault' = [vault EXCEPT ![a] = @ + pool[a].entry_fee]
    BY <1>2 DEF BuyPull
  <2>7. ReservedCovered'
    <3> SUFFICES ASSUME NEW x \in Admins, pool'[x].initialized
                 PROVE  vault'[x] >= Reserved(x)'
      BY DEF ReservedCovered
    <3>1. CASE x = a
      <4>1. /\ pool[a].entry_fee \in Nat /\ vault[a] \in Nat
            /\ vault'[a] = vault[a] + pool[a].entry_fee
        BY <2>6 DEF SolvencyInv, TypeInv, TypeOK, PoolType
      <4> DEFINE before == pool[a].pending_pulls * pool[a].entry_fee
                 after == (pool[a].pending_pulls + 1) * pool[a].entry_fee
      <4>2. before \in Nat /\ after = before + pool[a].entry_fee
        BY <2>1, <4>1, OneFeeMore
      <4>3. Reserved(a)' = RentFloor + after
        BY <2>1 DEF Reserved
      <4>4. vault[a] >= RentFloor + before
        BY <2>2 DEF SolvencyInv, ReservedCovered, Reserved
      <4> HIDE DEF before, after
      <4> QED BY <3>1, <4>1, <4>2, <4>3, <4>4, Constants
    <3>2. CASE x # a
      <4>1. pool'[x] = pool[x] /\ vault'[x] = vault[x]
        BY <2>1, <2>6, <3>2 DEF SolvencyInv, TypeInv, TypeOK
      <4> QED BY <4>1 DEF SolvencyInv, ReservedCovered, Reserved
    <3> QED BY <3>1, <3>2
  <2> QED BY <2>4, <2>5, <2>7 DEF SolvencyInv
<1>3. ASSUME NEW w \in Wallets, NEW a \in Admins, NEW k \in PullKeys,
             NEW beta \in Betas, SettlePull(w, a, k, beta)
      PROVE  SolvencyInv'
  <2> DEFINE tier == SelectTier(beta, pool[a].weights, pool[a].tier_count)
  <2>1. /\ k.pool = a /\ pool[a].initialized /\ EndPending(a)
        /\ pull[k].status = "Pending" /\ vault' = vault
    BY <1>3 DEF SettlePull, BelongsTo, IsPending
  <2>2. pull' = [pull EXCEPT ![k] = Revealed(k, beta, tier)]
    BY <1>3 DEF SettlePull
  <2> HIDE DEF tier
  <2>3. Revealed(k, beta, tier).status = "Settled"
    <3>1. pull[k] \in PullType
      BY DEF SolvencyInv, TypeInv, TypeOK
    <3> QED BY <3>1 DEF Revealed, PullType
  <2>4. /\ pull'[k].status # "Pending"
        /\ \A l \in PullKeys \ {k} : pull'[l] = pull[l]
    BY <2>2, <2>3 DEF SolvencyInv, TypeInv, TypeOK
  <2> QED BY <2>1, <2>4, SolvencyWhenPullEnds
<1>4. ASSUME NEW b \in Wallets, NEW a \in Admins, NEW k \in PullKeys,
             RefundPull(b, a, k)
      PROVE  SolvencyInv'
  <2>1. /\ k.pool = a /\ pool[a].initialized /\ EndPending(a)
        /\ pull[k].status = "Pending"
        /\ vault' = [vault EXCEPT ![a] = @ - pool[a].entry_fee]
    BY <1>4 DEF RefundPull, CanRefund, BelongsTo, IsPending
  <2>2. /\ pull'[k].status # "Pending"
        /\ \A l \in PullKeys \ {k} : pull'[l] = pull[l]
    BY <1>4 DEF RefundPull, CanRefund, SolvencyInv, TypeInv, TypeOK, NoPull
  <2> QED BY <2>1, <2>2, SolvencyWhenPullEnds
<1>5. ASSUME NEW a \in Admins, NEW b \in Wallets, NEW k \in PullKeys,
             ClaimPrize(a, b, k)
      PROVE  SolvencyInv'
  <2>1. pull[k] \in PullType /\ pull[k].status = "Settled"
    BY <1>5 DEF ClaimPrize, SolvencyInv, TypeInv, TypeOK
  <2>2. pull'[k].status = "Claimed"
    BY <1>5, <2>1 DEF ClaimPrize, MarkClaimed, SolvencyInv, TypeInv, TypeOK, PullType
  <2>3. \A l \in PullKeys \ {k} : pull'[l] = pull[l]
    BY <1>5 DEF ClaimPrize, MarkClaimed, SolvencyInv, TypeInv, TypeOK
  <2>4. UNCHANGED <<pool, vault>>
    BY <1>5 DEF ClaimPrize
  <2>5. \A x \in Admins : vault'[x] >= vault[x]
    BY <2>4 DEF SolvencyInv, TypeInv, TypeOK
  <2> QED BY <2>1, <2>2, <2>3, <2>4, <2>5, SolvencyKept
<1>6. ASSUME NEW w \in Wallets, NEW a \in Admins, NEW amount \in 0 .. vault[a],
             WithdrawFees(w, a, amount)
      PROVE  SolvencyInv'
  <2>1. UNCHANGED <<pool, pull>> /\ vault' = [vault EXCEPT ![a] = @ - amount]
        /\ vault[a] >= Reserved(a) + amount
    BY <1>6 DEF WithdrawFees
  <2>2. UnopenedIsEmpty' /\ PendingCounted'
    BY <2>1, SamePending DEF SolvencyInv, UnopenedIsEmpty, PendingCounted, NoPool
  <2>3. ReservedCovered'
    <3> SUFFICES ASSUME NEW x \in Admins, pool[x].initialized
                 PROVE  vault'[x] >= Reserved(x)'
      BY <2>1 DEF ReservedCovered
    <3>1. Reserved(x)' = Reserved(x)
      BY <2>1 DEF Reserved
    <3>2. CASE x = a
      <4>1. vault[a] \in Nat /\ amount \in Nat /\ vault'[a] = vault[a] - amount
        BY <2>1 DEF SolvencyInv, TypeInv, TypeOK
      <4>2. Reserved(a) \in Nat
        <5>1. pool[a].pending_pulls \in Nat /\ pool[a].entry_fee \in Nat
          BY DEF SolvencyInv, TypeInv, TypeOK, PoolType
        <5> QED BY <5>1, OneFeeMore, Constants DEF Reserved
      <4> QED BY <2>1, <3>1, <3>2, <4>1, <4>2
    <3>3. CASE x # a
      <4>1. vault'[x] = vault[x]
        BY <2>1, <3>3 DEF SolvencyInv, TypeInv, TypeOK
      <4> QED BY <3>1, <4>1 DEF SolvencyInv, ReservedCovered
    <3> QED BY <3>2, <3>3
  <2> QED BY <2>2, <2>3 DEF SolvencyInv
<1>7. ASSUME UNCHANGED <<pool, vault, pull>>
      PROVE  SolvencyInv'
  <2>1. \A x \in Admins : vault'[x] >= vault[x]
    BY <1>7 DEF SolvencyInv, TypeInv, TypeOK
  <2> QED BY <1>7, <2>1, SolvencyKept
<1>8. ASSUME NEW w \in Givers, NEW a \in Admins, NEW n \in 1 .. wallet[w],
             GiveVault(w, a, n)
      PROVE  SolvencyInv'
  <2>1. UNCHANGED <<pool, pull>>
    BY <1>8 DEF GiveVault
  <2>2. n \in Nat
    BY Constants DEF SolvencyInv, TypeInv, TypeOK
  <2>3. \A x \in Admins : vault'[x] >= vault[x]
    BY <1>8, <2>2 DEF GiveVault, SolvencyInv, TypeInv, TypeOK
  <2> QED BY <2>1, <2>3, SolvencyKept
<1>9. CASE Tick
  BY <1>7, <1>9 DEF Tick
<1>10. ASSUME NEW w \in Operators, NEW k \in PullKeys, NEW beta \in Betas,
              CommitOutside(w, k, beta)
       PROVE  SolvencyInv'
  BY <1>7, <1>10 DEF CommitOutside
<1>11. ASSUME NEW w \in Operators, RevokeAuthority(w) PROVE SolvencyInv'
  BY <1>7, <1>11 DEF RevokeAuthority
<1>12. ASSUME NEW w \in Givers, NEW k \in PullKeys, NEW n \in 1 .. wallet[w],
              GivePull(w, k, n)
       PROVE  SolvencyInv'
  BY <1>7, <1>12 DEF GivePull
<1>13. CASE UNCHANGED vars
  BY <1>7, <1>13 DEF vars
<1> QED
  BY <1>1, <1>2, <1>3, <1>4, <1>5, <1>6, <1>8, <1>9, <1>10, <1>11, <1>12, <1>13
     DEF Next

\* The vault of every pool always covers its rent and the fee of every pull
\* still pending, for any number of pools, buyers and pulls: withdraw_fees can
\* never reach into a refund, and refund_pull never finds the vault short.
THEOREM VaultAlwaysSolvent == Spec => []VaultSolvent
<1>1. Init => SolvencyInv
  BY SolvencyInit
<1>2. SolvencyInv /\ [Next]_vars => SolvencyInv'
  BY SolvencyStep
<1>3. SolvencyInv => VaultSolvent
  BY DEF SolvencyInv, PendingCounted, ReservedCovered, Reserved, VaultSolvent
<1> QED BY <1>1, <1>2, <1>3, PTL DEF Spec

(***************************************************************************)
(* What each instruction does to the pull and the pool it is called for.   *)
(***************************************************************************)

LEMMA InitPoolEffect ==
  ASSUME SolvencyInv, NEW a \in Admins, NEW c \in PoolConfigs, InitPool(a, c)
  PROVE  /\ ~pool[a].initialized /\ pool'[a].initialized
         /\ pool[a].pulls_count = 0 /\ pool[a].entry_fee = 0
         /\ pool'[a].pulls_count = 0 /\ pool'[a].pending_pulls = 0
         /\ pool'[a].entry_fee = c.entry_fee /\ c.entry_fee \in Nat \ {0}
         /\ \A x \in Admins \ {a} : pool'[x] = pool[x]
<1>1. pool' = [pool EXCEPT ![a] =
        [initialized |-> TRUE, operator |-> c.operator, entry_fee |-> c.entry_fee,
         settle_deadline_slots |-> c.settle_deadline_slots,
         tier_count |-> c.tier_count, weights |-> c.weights,
         pulls_count |-> 0, pending_pulls |-> 0]]
  BY DEF InitPool
<1>2. ~pool[a].initialized
  BY DEF InitPool
<1>3. pool[a] = NoPool
  BY <1>2 DEF SolvencyInv, UnopenedIsEmpty
<1>4. pool[a].pulls_count = 0 /\ pool[a].entry_fee = 0
  BY <1>3 DEF NoPool
<1>5. c.entry_fee \in Nat \ {0}
  BY GachaAssumption DEF InitPool
<1>6. /\ pool'[a].pulls_count = 0 /\ pool'[a].pending_pulls = 0
      /\ pool'[a].entry_fee = c.entry_fee /\ pool'[a].initialized
      /\ \A x \in Admins \ {a} : pool'[x] = pool[x]
  BY <1>1 DEF SolvencyInv, TypeInv, TypeOK
<1> QED BY <1>2, <1>4, <1>5, <1>6

LEMMA BuyPullEffect ==
  ASSUME TypeInv, NEW a \in Admins, NEW k \in PullKeys, BuyPull(a, k)
  PROVE  /\ k.pool = a /\ k.buyer \in Wallets /\ k.index = pool[a].pulls_count
         /\ pool[a].initialized /\ pool[a].entry_fee \in Nat
         /\ pool[a].pulls_count \in Nat
         /\ pool'[a].pulls_count = pool[a].pulls_count + 1
         /\ SameTerms(pool[a], pool'[a])
         /\ \A x \in Admins \ {a} : pool'[x] = pool[x]
         /\ pull[k].status = "Absent" /\ pull'[k].status = "Pending"
         /\ \A l \in PullKeys \ {k} : pull'[l] = pull[l]
<1>1. pull' = [pull EXCEPT ![k] =
        [status |-> "Pending", tier_selected |-> TIER_UNSET, beta |-> 0,
         requested_slot |-> slot]]
  BY DEF BuyPull
<1>2. pull'[k].status = "Pending" /\ \A l \in PullKeys \ {k} : pull'[l] = pull[l]
  BY <1>1 DEF TypeInv, TypeOK
<1>3. pool[a].entry_fee \in Nat /\ pool[a].pulls_count \in Nat
  BY DEF TypeInv, TypeOK, PoolType
<1>4. k.buyer \in Wallets
  BY Constants DEF PullKeys
<1> QED BY <1>2, <1>3, <1>4, BuyPullMoves DEF BuyPull, NextIndex

LEMMA SettlePullEffect ==
  ASSUME TypeInv, NEW w \in Wallets, NEW a \in Admins, NEW k \in PullKeys,
         NEW beta \in Betas, SettlePull(w, a, k, beta)
  PROVE  LET tier == SelectTier(beta, pool[a].weights, pool[a].tier_count)
         IN  /\ k.pool = a /\ w = pool[a].operator /\ pool[a].initialized
             /\ pool'[a].pulls_count = pool[a].pulls_count
             /\ pool[a].pending_pulls \in Nat \ {0}
             /\ pool'[a].pending_pulls = pool[a].pending_pulls - 1
             /\ SameTerms(pool[a], pool'[a])
             /\ \A x \in Admins \ {a} : pool'[x] = pool[x]
             /\ pull[k].status = "Pending" /\ pull'[k].status = "Settled"
             /\ pull'[k].beta = beta /\ pull'[k].tier_selected = tier
             /\ \A l \in PullKeys \ {k} : pull'[l] = pull[l]
             /\ CanCommit(w, k)
             /\ registry' = registry
                  \cup {[authority |-> w, pull |-> k, beta |-> beta]}
<1> DEFINE tier == SelectTier(beta, pool[a].weights, pool[a].tier_count)
<1>1. /\ k.pool = a /\ w = pool[a].operator /\ pool[a].initialized
      /\ EndPending(a) /\ pull[k].status = "Pending" /\ CanCommit(w, k)
      /\ registry' = registry \cup {[authority |-> w, pull |-> k, beta |-> beta]}
      /\ pull' = [pull EXCEPT ![k] = Revealed(k, beta, tier)]
  BY DEF SettlePull, BelongsTo, IsPending, Commit
<1> HIDE DEF tier
<1>2. pull[k] \in PullType
  BY DEF TypeInv, TypeOK
<1>3. Revealed(k, beta, tier).status = "Settled"
  BY <1>2 DEF Revealed, PullType
<1>4. Revealed(k, beta, tier).beta = beta
  BY <1>2 DEF Revealed, PullType
<1>5. Revealed(k, beta, tier).tier_selected = tier
  BY <1>2 DEF Revealed, PullType
<1>6. pull'[k] = Revealed(k, beta, tier)
      /\ \A l \in PullKeys \ {k} : pull'[l] = pull[l]
  BY <1>1 DEF TypeInv, TypeOK
<1>7. /\ pull'[k].status = "Settled" /\ pull'[k].beta = beta
      /\ pull'[k].tier_selected = tier
  BY <1>3, <1>4, <1>5, <1>6
<1>8. /\ pool'[a].pulls_count = pool[a].pulls_count
      /\ pool[a].pending_pulls \in Nat \ {0}
      /\ pool'[a].pending_pulls = pool[a].pending_pulls - 1
      /\ SameTerms(pool[a], pool'[a])
      /\ \A x \in Admins \ {a} : pool'[x] = pool[x]
  BY <1>1, EndPendingMoves
<1> QED BY <1>1, <1>6, <1>7, <1>8, Zenon DEF tier

LEMMA RefundPullEffect ==
  ASSUME TypeInv, NEW b \in Wallets, NEW a \in Admins, NEW k \in PullKeys,
         RefundPull(b, a, k)
  PROVE  /\ k.pool = a /\ k.buyer = b /\ pool[a].initialized
         /\ pool[a].entry_fee \in Nat
         /\ pool'[a].pulls_count = pool[a].pulls_count
         /\ pool[a].pending_pulls \in Nat \ {0}
         /\ pool'[a].pending_pulls = pool[a].pending_pulls - 1
         /\ SameTerms(pool[a], pool'[a])
         /\ \A x \in Admins \ {a} : pool'[x] = pool[x]
         /\ pull[k].status = "Pending" /\ pull'[k].status = "Absent"
         /\ \A l \in PullKeys \ {k} : pull'[l] = pull[l]
<1>1. /\ k.pool = a /\ k.buyer = b /\ pool[a].initialized /\ EndPending(a)
      /\ pull[k].status = "Pending" /\ pull' = [pull EXCEPT ![k] = NoPull]
  BY DEF RefundPull, CanRefund, BelongsTo, IsPending
<1>2. pull'[k].status = "Absent" /\ \A l \in PullKeys \ {k} : pull'[l] = pull[l]
  BY <1>1 DEF TypeInv, TypeOK, NoPull
<1>3. pool[a].entry_fee \in Nat
  BY DEF TypeInv, TypeOK, PoolType
<1> QED BY <1>1, <1>2, <1>3, EndPendingMoves

LEMMA ClaimPrizeEffect ==
  ASSUME TypeInv, NEW a \in Admins, NEW b \in Wallets, NEW k \in PullKeys,
         ClaimPrize(a, b, k)
  PROVE  /\ k.pool = a /\ k.buyer = b /\ pool[a].initialized /\ UNCHANGED pool
         /\ pull[k].status = "Settled"
         /\ pull'[k].status = "Claimed"
         /\ pull'[k].beta = pull[k].beta
         /\ pull'[k].tier_selected = pull[k].tier_selected
         /\ \A l \in PullKeys \ {k} : pull'[l] = pull[l]
         /\ \A p \in prizes : p.pull # k
         /\ UNCHANGED registry
<1>1. /\ k.pool = a /\ k.buyer = b /\ pool[a].initialized /\ UNCHANGED pool
      /\ pull[k].status = "Settled" /\ UNCHANGED registry
      /\ pull' = [pull EXCEPT ![k].status = "Claimed"]
      /\ \A p \in prizes : p.pull # k
  BY DEF ClaimPrize, BelongsTo, MarkClaimed, MintPrize
<1> DEFINE r == [pull[k] EXCEPT !.status = "Claimed"]
<1>2. pull[k] \in PullType
  BY DEF TypeInv, TypeOK
<1>3. pull'[k] = r /\ \A l \in PullKeys \ {k} : pull'[l] = pull[l]
  BY <1>1 DEF TypeInv, TypeOK
<1>4. r.status = "Claimed"
  BY <1>2 DEF PullType
<1>5. r.beta = pull[k].beta
  BY <1>2 DEF PullType
<1>6. r.tier_selected = pull[k].tier_selected
  BY <1>2 DEF PullType
<1> QED BY <1>1, <1>3, <1>4, <1>5, <1>6, Zenon

\* The steps that touch a pool or a pull.
LEMMA PullSteps ==
  ASSUME [Next]_vars
  PROVE  \/ \E a \in Admins, c \in PoolConfigs : InitPool(a, c)
         \/ \E a \in Admins, k \in PullKeys : BuyPull(a, k)
         \/ \E w \in Wallets, a \in Admins, k \in PullKeys, beta \in Betas :
              SettlePull(w, a, k, beta)
         \/ \E b \in Wallets, a \in Admins, k \in PullKeys : RefundPull(b, a, k)
         \/ \E a \in Admins, b \in Wallets, k \in PullKeys : ClaimPrize(a, b, k)
         \/ UNCHANGED <<pool, pull, prizes>>
BY DEF Next, vars, WithdrawFees, Tick, CommitOutside, RevokeAuthority, GiveVault,
       GivePull

(***************************************************************************)
(* The life of a pull.                                                     *)
(***************************************************************************)

LEMMA PullStep ==
  TypeInv /\ [Next]_vars => [PullProgress /\ IndexKept /\ RefundIsWhole]_vars
<1> SUFFICES ASSUME TypeInv, [Next]_vars
             PROVE  PullProgress /\ IndexKept /\ RefundIsWhole
  OBVIOUS
<1> USE DEF PullProgress, IndexKept, RefundIsWhole, Pulls
<1>1. ASSUME NEW a \in Admins, NEW c \in PoolConfigs, InitPool(a, c)
      PROVE  PullProgress /\ IndexKept /\ RefundIsWhole
  BY <1>1 DEF InitPool
<1>2. ASSUME NEW a \in Admins, NEW k \in PullKeys, BuyPull(a, k)
      PROVE  PullProgress /\ IndexKept /\ RefundIsWhole
  <2>1. /\ k.pool = a /\ k.index = pool[a].pulls_count /\ pool[a].pulls_count \in Nat
        /\ pull[k].status = "Absent" /\ pull'[k].status = "Pending"
        /\ \A l \in PullKeys \ {k} : pull'[l] = pull[l]
    BY <1>2, BuyPullEffect
  <2> QED BY <2>1
<1>3. ASSUME NEW w \in Wallets, NEW a \in Admins, NEW k \in PullKeys,
             NEW beta \in Betas, SettlePull(w, a, k, beta)
      PROVE  PullProgress /\ IndexKept /\ RefundIsWhole
  <2>1. /\ pull[k].status = "Pending" /\ pull'[k].status = "Settled"
        /\ \A l \in PullKeys \ {k} : pull'[l] = pull[l]
    BY <1>3, SettlePullEffect
  <2> QED BY <2>1
<1>4. ASSUME NEW b \in Wallets, NEW a \in Admins, NEW k \in PullKeys,
             RefundPull(b, a, k)
      PROVE  PullProgress /\ IndexKept /\ RefundIsWhole
  <2>1. /\ k.pool = a /\ k.buyer = b /\ \A x \in Admins \ {a} : pool'[x] = pool[x]
        /\ pull[k].status = "Pending" /\ pull'[k].status = "Absent"
        /\ \A l \in PullKeys \ {k} : pull'[l] = pull[l]
    BY <1>4, RefundPullEffect
  <2>2. PullProgress /\ IndexKept
    BY <2>1
  <2>3. slot > pull[k].requested_slot + pool[a].settle_deadline_slots
    BY <1>4 DEF RefundPull, CanRefund, Overdue
  <2>4. /\ wallet'[b] = wallet[b] + (pool[a].entry_fee + pullLamports[k])
        /\ vault'[a] = vault[a] - pool[a].entry_fee
        /\ \A x \in Admins \ {a} : vault'[x] = vault[x]
    BY <1>4 DEF RefundPull, CanRefund, Refund, TypeInv, TypeOK
  <2>5. wallet[b] \in Nat /\ pool[a].entry_fee \in Nat /\ pullLamports[k] \in Nat
    BY DEF TypeInv, TypeOK, PoolType
  <2>6. wallet'[b] = wallet[b] + pool[a].entry_fee + pullLamports[k]
    BY <2>4, <2>5
  <2>7. RefundIsWhole
    BY <2>1, <2>3, <2>4, <2>6
  <2> QED BY <2>2, <2>7
<1>5. ASSUME NEW a \in Admins, NEW b \in Wallets, NEW k \in PullKeys,
             ClaimPrize(a, b, k)
      PROVE  PullProgress /\ IndexKept /\ RefundIsWhole
  <2>0. pull'[k] = [pull[k] EXCEPT !.status = "Claimed"]
    BY <1>5 DEF ClaimPrize, MarkClaimed, TypeInv, TypeOK
  <2>1. /\ pull[k].status = "Settled"
        /\ pull'[k].status = "Claimed"
        /\ \A l \in PullKeys \ {k} : pull'[l] = pull[l]
    BY <1>5, ClaimPrizeEffect
  <2>2. PullProgress
    BY <2>0, <2>1
  <2>3. IndexKept /\ RefundIsWhole
    BY <2>1
  <2> QED BY <2>2, <2>3
<1>6. CASE UNCHANGED <<pool, pull, prizes>>
  BY <1>6
<1> QED BY <1>1, <1>2, <1>3, <1>4, <1>5, <1>6, PullSteps

\* A pull goes one way only, from pending to settled to claimed, or away with all
\* of its money after its deadline; its index is never sold again.
THEOREM PullsNeverRegress == Spec => PullNeverRegresses
<1>1. Init => TypeInv
  BY TypeInit
<1>2. TypeInv /\ [Next]_vars => TypeInv'
  BY TypeStep
<1>3. TypeInv /\ [Next]_vars => [PullProgress /\ IndexKept /\ RefundIsWhole]_vars
  BY PullStep
<1> QED BY <1>1, <1>2, <1>3, PTL DEF Spec, PullNeverRegresses

(***************************************************************************)
(* Each prize is the one of a claimed pull.                                *)
(***************************************************************************)

LEMMA PrizeStep == TypeInv /\ OnePrizePerClaim /\ [Next]_vars => OnePrizePerClaim'
<1> SUFFICES ASSUME TypeInv, OnePrizePerClaim, [Next]_vars PROVE OnePrizePerClaim'
  OBVIOUS
<1> USE DEF OnePrizePerClaim, Pulls
<1>0. ASSUME NEW k \in PullKeys, UNCHANGED prizes,
             pull[k].status # "Claimed", pull'[k].status # "Claimed",
             \A l \in PullKeys \ {k} : pull'[l] = pull[l]
      PROVE  OnePrizePerClaim'
  <2>1. \A p \in prizes : p.pull \in PullKeys \ {k}
    BY <1>0
  <2>2. {l \in PullKeys : pull'[l].status = "Claimed"} = Pulls("Claimed")
    BY <1>0
  <2> QED BY <1>0, <2>1, <2>2
<1>1. ASSUME NEW a \in Admins, NEW c \in PoolConfigs, InitPool(a, c)
      PROVE  OnePrizePerClaim'
  BY <1>1 DEF InitPool
<1>2. ASSUME NEW a \in Admins, NEW k \in PullKeys, BuyPull(a, k)
      PROVE  OnePrizePerClaim'
  <2>1. UNCHANGED prizes
    BY <1>2 DEF BuyPull
  <2> QED BY <1>0, <1>2, <2>1, BuyPullEffect
<1>3. ASSUME NEW w \in Wallets, NEW a \in Admins, NEW k \in PullKeys,
             NEW beta \in Betas, SettlePull(w, a, k, beta)
      PROVE  OnePrizePerClaim'
  <2>1. UNCHANGED prizes
    BY <1>3 DEF SettlePull
  <2> QED BY <1>0, <1>3, <2>1, SettlePullEffect
<1>4. ASSUME NEW b \in Wallets, NEW a \in Admins, NEW k \in PullKeys,
             RefundPull(b, a, k)
      PROVE  OnePrizePerClaim'
  <2>1. UNCHANGED prizes
    BY <1>4 DEF RefundPull, CanRefund
  <2> QED BY <1>0, <1>4, <2>1, RefundPullEffect
<1>5. ASSUME NEW a \in Admins, NEW b \in Wallets, NEW k \in PullKeys,
             ClaimPrize(a, b, k)
      PROVE  OnePrizePerClaim'
  <2> DEFINE new == [pull |-> k, owner |-> b, rarity |-> pull[k].tier_selected]
  <2>1. /\ k.buyer = b /\ pull'[k].status = "Claimed"
        /\ pull'[k].tier_selected = pull[k].tier_selected
        /\ \A l \in PullKeys \ {k} : pull'[l] = pull[l]
        /\ \A p \in prizes : p.pull # k
    BY <1>5, ClaimPrizeEffect
  <2>0. prizes' = prizes \cup {new}
    BY <1>5 DEF ClaimPrize, MintPrize
  <2>2. new.pull = k /\ new.owner = b /\ new.rarity = pull[k].tier_selected
    OBVIOUS
  <2> HIDE DEF new
  <2>3. \A p \in prizes : p.pull \in PullKeys \ {k}
    BY <2>1
  <2>4. {p.pull : p \in prizes'} = {l \in PullKeys : pull'[l].status = "Claimed"}
    <3>1. {p.pull : p \in prizes'} = {p.pull : p \in prizes} \cup {k}
      BY <2>0, <2>2
    <3>2. {l \in PullKeys : pull'[l].status = "Claimed"} = Pulls("Claimed") \cup {k}
      BY <2>1
    <3> QED BY <3>1, <3>2
  <2>5. \A p, q \in prizes' : p.pull = q.pull => p = q
    BY <2>0, <2>1, <2>2
  <2>6. \A p \in prizes' : /\ p.owner = p.pull.buyer
                           /\ p.rarity = pull'[p.pull].tier_selected
    BY <2>0, <2>1, <2>2, <2>3
  <2> QED BY <2>4, <2>5, <2>6
<1>6. CASE UNCHANGED <<pool, pull, prizes>>
  BY <1>6
<1> QED BY <1>1, <1>2, <1>3, <1>4, <1>5, <1>6, PullSteps

\* Whoever cranks claims, and however often, every claimed pull has one prize, of
\* its tier and with its buyer, and there is no other prize.
THEOREM ClaimsMintOnce == Spec => []OnePrizePerClaim
<1>1. Init => TypeInv /\ OnePrizePerClaim
  <2> SUFFICES ASSUME Init PROVE OnePrizePerClaim
    BY TypeInit
  <2>1. prizes = {} /\ \A k \in PullKeys : pull[k].status # "Claimed"
    BY DEF Init, NoPull
  <2> QED BY <2>1 DEF OnePrizePerClaim, Pulls
<1>2. TypeInv /\ OnePrizePerClaim /\ [Next]_vars => TypeInv' /\ OnePrizePerClaim'
  BY TypeStep, PrizeStep
<1> QED BY <1>1, <1>2, PTL DEF Spec

(***************************************************************************)
(* Indices, counters and the pools they belong to.                         *)
(***************************************************************************)

LEMMA IndicesStep ==
  SolvencyInv /\ IndicesOnce /\ [Next]_vars => IndicesOnce'
<1> SUFFICES ASSUME SolvencyInv, IndicesOnce, [Next]_vars PROVE IndicesOnce'
  OBVIOUS
<1> USE DEF IndicesOnce
<1>0. TypeInv
  BY DEF SolvencyInv
<1>1. ASSUME NEW a \in Admins, NEW c \in PoolConfigs, InitPool(a, c)
      PROVE  IndicesOnce'
  <2>1. /\ pool[a].pulls_count = 0 /\ pool'[a].pulls_count = 0
        /\ \A x \in Admins \ {a} : pool'[x] = pool[x]
    BY <1>1, InitPoolEffect
  <2>2. UNCHANGED pull
    BY <1>1 DEF InitPool
  <2> QED BY <2>1, <2>2
<1>2. ASSUME NEW a \in Admins, NEW k \in PullKeys, BuyPull(a, k)
      PROVE  IndicesOnce'
  <2>1. /\ k.pool = a /\ k.index = pool[a].pulls_count /\ pool[a].pulls_count \in Nat
        /\ pool'[a].pulls_count = pool[a].pulls_count + 1
        /\ \A x \in Admins \ {a} : pool'[x] = pool[x]
        /\ \A l \in PullKeys \ {k} : pull'[l] = pull[l]
    BY <1>0, <1>2, BuyPullEffect
  <2>2. ASSUME NEW l \in PullKeys, l.pool = a, l # k, pull[l].status # "Absent"
        PROVE  l.index < k.index /\ l.index < pool'[a].pulls_count
    <3>1. l.index < pool[a].pulls_count /\ l.index \in Int
      BY <2>2 DEF PullKeys
    <3> QED BY <2>1, <3>1
  <2>3. SUFFICES ASSUME NEW x \in Admins, NEW l \in PullKeys, l.pool = x,
                        pull'[l].status # "Absent"
                 PROVE  /\ l.index < pool'[x].pulls_count
                        /\ \A m \in PullKeys :
                             m.pool = x /\ m.index = l.index /\ m # l
                               => pull'[m].status = "Absent"
    OBVIOUS
  <2>4. CASE l = k
    <3>1. k.index < pool'[x].pulls_count
      BY <2>1, <2>3, <2>4
    <3>2. ASSUME NEW m \in PullKeys, m.pool = a, m.index = k.index, m # k
          PROVE  pull'[m].status = "Absent"
      BY <2>1, <2>2, <3>2
    <3> QED BY <2>1, <2>3, <2>4, <3>1, <3>2
  <2>5. CASE l # k /\ x = a
    <3>1. pull[l].status # "Absent" /\ l.index < k.index
          /\ l.index < pool'[a].pulls_count /\ l.index \in Int /\ k.index \in Int
      BY <2>1, <2>2, <2>3, <2>5 DEF PullKeys
    <3> QED BY <2>1, <2>3, <2>5, <3>1
  <2>6. CASE l # k /\ x # a
    BY <2>1, <2>3, <2>6
  <2> QED BY <2>4, <2>5, <2>6
<1>3. ASSUME NEW w \in Wallets, NEW a \in Admins, NEW k \in PullKeys,
             NEW beta \in Betas, SettlePull(w, a, k, beta)
      PROVE  IndicesOnce'
  <2>1. /\ pool'[a].pulls_count = pool[a].pulls_count
        /\ \A x \in Admins \ {a} : pool'[x] = pool[x]
        /\ pull[k].status = "Pending" /\ pull'[k].status = "Settled"
        /\ \A l \in PullKeys \ {k} : pull'[l] = pull[l]
    BY <1>0, <1>3, SettlePullEffect
  <2> QED BY <2>1
<1>4. ASSUME NEW b \in Wallets, NEW a \in Admins, NEW k \in PullKeys,
             RefundPull(b, a, k)
      PROVE  IndicesOnce'
  <2>1. /\ pool'[a].pulls_count = pool[a].pulls_count
        /\ \A x \in Admins \ {a} : pool'[x] = pool[x]
        /\ pull[k].status = "Pending" /\ pull'[k].status = "Absent"
        /\ \A l \in PullKeys \ {k} : pull'[l] = pull[l]
    BY <1>0, <1>4, RefundPullEffect
  <2> QED BY <2>1
<1>5. ASSUME NEW a \in Admins, NEW b \in Wallets, NEW k \in PullKeys,
             ClaimPrize(a, b, k)
      PROVE  IndicesOnce'
  <2>1. /\ UNCHANGED pool
        /\ pull[k].status = "Settled" /\ pull'[k].status = "Claimed"
        /\ \A l \in PullKeys \ {k} : pull'[l] = pull[l]
    BY <1>0, <1>5, ClaimPrizeEffect
  <2> QED BY <2>1
<1>6. CASE UNCHANGED <<pool, pull, prizes>>
  BY <1>6
<1> QED BY <1>1, <1>2, <1>3, <1>4, <1>5, <1>6, PullSteps

LEMMA IndicesInit == Init => IndicesOnce
BY DEF Init, IndicesOnce, NoPull

\* A pull account is one of an open pool.
LEMMA PulledIsOpen ==
  ASSUME SolvencyInv, IndicesOnce, NEW k \in PullKeys, pull[k].status # "Absent"
  PROVE  k.pool \in Admins /\ pool[k.pool].initialized
<1>1. k.pool \in Admins /\ k.index \in Nat
  BY Constants DEF PullKeys
<1>2. k.index < pool[k.pool].pulls_count
  BY <1>1 DEF IndicesOnce
<1>3. ASSUME ~pool[k.pool].initialized PROVE FALSE
  <2>1. pool[k.pool] = NoPool
    BY <1>1, <1>3 DEF SolvencyInv, UnopenedIsEmpty
  <2>2. pool[k.pool].pulls_count = 0
    BY <2>1 DEF NoPool
  <2> QED BY <1>1, <1>2, <2>2
<1> QED BY <1>1, <1>3

(***************************************************************************)
(* Reveals and the registry.                                               *)
(***************************************************************************)


\* A pull whose account, terms and commits a step leaves alone matches as before.
LEMMA RevealSame ==
  ASSUME RevealMatchesRegistry, NEW k \in PullKeys,
         pull[k].status \in {"Settled", "Claimed"},
         pull'[k].beta = pull[k].beta,
         pull'[k].tier_selected = pull[k].tier_selected,
         SameTerms(pool[k.pool], pool'[k.pool]),
         {c \in registry' : c.pull = k /\ c.authority = pool[k.pool].operator}
           = {c \in registry : c.pull = k /\ c.authority = pool[k.pool].operator}
  PROVE  LET own == {c \in registry' :
                       c.pull = k /\ c.authority = pool'[k.pool].operator}
         IN  /\ {c.beta : c \in own} = {pull'[k].beta}
             /\ pull'[k].tier_selected =
                  SelectTier(pull'[k].beta, pool'[k.pool].weights,
                             pool'[k.pool].tier_count)
<1> DEFINE was == {c \in registry :
                     c.pull = k /\ c.authority = pool[k.pool].operator}
<1>1. {c.beta : c \in was} = {pull[k].beta}
  BY DEF RevealMatchesRegistry
<1>2. pull[k].tier_selected = SelectTier(pull[k].beta, pool[k.pool].weights,
                                         pool[k.pool].tier_count)
  BY DEF RevealMatchesRegistry
<1>3. {c \in registry' : c.pull = k /\ c.authority = pool'[k.pool].operator} = was
  BY DEF SameTerms
<1>4. pull'[k].tier_selected = SelectTier(pull'[k].beta, pool'[k.pool].weights,
                                          pool'[k.pool].tier_count)
  BY <1>2 DEF SameTerms
<1> HIDE DEF was
<1> QED BY <1>1, <1>3, <1>4

LEMMA RevealStep ==
  SolvencyInv /\ IndicesOnce /\ RevealMatchesRegistry /\ [Next]_vars
    => RevealMatchesRegistry'
<1> SUFFICES ASSUME SolvencyInv, IndicesOnce, RevealMatchesRegistry, [Next]_vars
             PROVE  RevealMatchesRegistry'
  OBVIOUS
<1>0. TypeInv
  BY DEF SolvencyInv
<1> DEFINE Matched(k) ==
      LET own == {c \in registry' :
                    c.pull = k /\ c.authority = pool'[k.pool].operator}
      IN  /\ {c.beta : c \in own} = {pull'[k].beta}
          /\ pull'[k].tier_selected =
               SelectTier(pull'[k].beta, pool'[k.pool].weights,
                          pool'[k.pool].tier_count)
<1> SUFFICES ASSUME NEW l \in PullKeys, pull'[l].status \in {"Settled", "Claimed"}
             PROVE  Matched(l)
  BY DEF RevealMatchesRegistry
<1>a. l.pool \in Admins
  BY DEF PullKeys
<1>b. SameTerms(pool[l.pool], pool[l.pool])
  BY DEF SameTerms
<1>1. ASSUME NEW a \in Admins, NEW c \in PoolConfigs, InitPool(a, c)
      PROVE  Matched(l)
  <2>1. UNCHANGED <<pull, registry>>
    BY <1>1 DEF InitPool
  <2>2. pool[l.pool].initialized
    BY <2>1, PulledIsOpen
  <2>3. pool'[l.pool] = pool[l.pool]
    BY <1>a, <1>1, <2>2, InitPoolEffect
  <2> HIDE DEF Matched
  <2> QED BY <1>b, <2>1, <2>3, RevealSame DEF Matched
<1>2. ASSUME NEW a \in Admins, NEW k \in PullKeys, BuyPull(a, k)
      PROVE  Matched(l)
  <2>1. /\ pull'[k].status = "Pending" /\ SameTerms(pool[a], pool'[a])
        /\ \A x \in Admins \ {a} : pool'[x] = pool[x]
        /\ \A m \in PullKeys \ {k} : pull'[m] = pull[m]
    BY <1>0, <1>2, BuyPullEffect
  <2>2. UNCHANGED registry
    BY <1>2 DEF BuyPull
  <2>3. pull'[l] = pull[l] /\ SameTerms(pool[l.pool], pool'[l.pool])
    BY <1>a, <1>b, <2>1
  <2> QED BY <2>2, <2>3, RevealSame
<1>3. ASSUME NEW w \in Wallets, NEW a \in Admins, NEW k \in PullKeys,
             NEW beta \in Betas, SettlePull(w, a, k, beta)
      PROVE  Matched(l)
  <2> DEFINE new == [authority |-> w, pull |-> k, beta |-> beta]
  <2>1. /\ k.pool = a /\ w = pool[a].operator /\ SameTerms(pool[a], pool'[a])
        /\ \A x \in Admins \ {a} : pool'[x] = pool[x]
        /\ pull'[k].beta = beta /\ CanCommit(w, k)
        /\ pull'[k].tier_selected =
             SelectTier(beta, pool[a].weights, pool[a].tier_count)
        /\ \A m \in PullKeys \ {k} : pull'[m] = pull[m]
    BY <1>0, <1>3, SettlePullEffect
  <2>0. registry' = registry \cup {new}
    BY <1>3 DEF SettlePull, Commit
  <2>2. new.authority = w /\ new.pull = k /\ new.beta = beta
    OBVIOUS
  <2> HIDE DEF new
  <2>3. SameTerms(pool[l.pool], pool'[l.pool])
    BY <1>a, <1>b, <2>1
  <2>4. CASE l = k
    <3>1. {c \in registry' : c.pull = k /\ c.authority = w} = {new}
      BY <2>0, <2>1, <2>2 DEF CanCommit
    <3>2. pool'[k.pool].operator = w
      BY <2>1 DEF SameTerms
    <3>3. {c.beta : c \in {new}} = {beta}
      BY <2>2
    <3>4. pull'[k].tier_selected = SelectTier(beta, pool'[a].weights, pool'[a].tier_count)
      BY <2>1 DEF SameTerms
    <3> QED BY <2>1, <2>4, <3>1, <3>2, <3>3, <3>4
  <2>5. CASE l # k
    <3>1. pull'[l] = pull[l]
      BY <2>1, <2>5
    <3>2. {c \in registry' : c.pull = l /\ c.authority = pool[l.pool].operator}
            = {c \in registry : c.pull = l /\ c.authority = pool[l.pool].operator}
      BY <2>0, <2>2, <2>5
    <3> QED BY <2>3, <3>1, <3>2, RevealSame
  <2> QED BY <2>4, <2>5
<1>4. ASSUME NEW b \in Wallets, NEW a \in Admins, NEW k \in PullKeys,
             RefundPull(b, a, k)
      PROVE  Matched(l)
  <2>1. /\ pull'[k].status = "Absent" /\ SameTerms(pool[a], pool'[a])
        /\ \A x \in Admins \ {a} : pool'[x] = pool[x]
        /\ \A m \in PullKeys \ {k} : pull'[m] = pull[m]
    BY <1>0, <1>4, RefundPullEffect
  <2>2. UNCHANGED registry
    BY <1>4 DEF RefundPull, CanRefund
  <2>3. pull'[l] = pull[l] /\ SameTerms(pool[l.pool], pool'[l.pool])
    BY <1>a, <1>b, <2>1
  <2> QED BY <2>2, <2>3, RevealSame
<1>5. ASSUME NEW a \in Admins, NEW b \in Wallets, NEW k \in PullKeys,
             ClaimPrize(a, b, k)
      PROVE  Matched(l)
  <2>1. /\ pull[k].status = "Settled" /\ UNCHANGED <<pool, registry>>
        /\ pull'[k].beta = pull[k].beta
        /\ pull'[k].tier_selected = pull[k].tier_selected
        /\ \A m \in PullKeys \ {k} : pull'[m] = pull[m]
    BY <1>0, <1>5, ClaimPrizeEffect
  <2>2. /\ pull[l].status \in {"Settled", "Claimed"}
        /\ pull'[l].beta = pull[l].beta
        /\ pull'[l].tier_selected = pull[l].tier_selected
    BY <2>1
  <2> QED BY <1>b, <2>1, <2>2, RevealSame
<1>6. ASSUME NEW w \in Operators, NEW k \in PullKeys, NEW beta \in Betas,
             CommitOutside(w, k, beta)
      PROVE  Matched(l)
  <2> DEFINE new == [authority |-> w, pull |-> k, beta |-> beta]
  <2>1. /\ UNCHANGED <<pool, pull>> /\ CanCommit(w, k)
        /\ registry' = registry \cup {new}
    BY <1>6 DEF CommitOutside, Commit
  <2>2. new.authority = w /\ new.pull = k
    OBVIOUS
  <2> HIDE DEF new
  <2>3. \E c \in registry : c.pull = l /\ c.authority = pool[l.pool].operator
    BY <2>1 DEF RevealMatchesRegistry
  <2>4. ~(w = pool[l.pool].operator /\ k = l)
    BY <2>1, <2>3 DEF CanCommit
  <2>5. {c \in registry' : c.pull = l /\ c.authority = pool[l.pool].operator}
          = {c \in registry : c.pull = l /\ c.authority = pool[l.pool].operator}
    BY <2>1, <2>2, <2>4
  <2> QED BY <1>b, <2>1, <2>5, RevealSame
<1>7. CASE UNCHANGED <<pool, pull, registry>>
  BY <1>b, <1>7, RevealSame
<1> QED
  <2> HIDE DEF Matched
  <2> QED
    BY <1>1, <1>2, <1>3, <1>4, <1>5, <1>6, <1>7
       DEF Next, vars, WithdrawFees, Tick, RevokeAuthority, GiveVault, GivePull

\* Whatever operators commit in the registry outside of the program, before a pull
\* is bought or after it is revealed, a revealed pull carries the one output its
\* operator committed for it, and the tier that this output draws.
THEOREM RevealsMatchRegistry == Spec => []RevealMatchesRegistry
<1>1. Init => SolvencyInv /\ IndicesOnce /\ RevealMatchesRegistry
  <2>1. Init => RevealMatchesRegistry
    BY DEF Init, RevealMatchesRegistry, NoPull
  <2> QED BY <2>1, SolvencyInit, IndicesInit
<1>2. SolvencyInv /\ IndicesOnce /\ RevealMatchesRegistry /\ [Next]_vars
        => SolvencyInv' /\ IndicesOnce' /\ RevealMatchesRegistry'
  BY SolvencyStep, IndicesStep, RevealStep
<1> QED BY <1>1, <1>2, PTL DEF Spec

(***************************************************************************)
(* Lamports: what every instruction moves adds up.                         *)
(***************************************************************************)

Opened == {a \in Admins : pool[a].initialized}

LEMMA BalancesTyped ==
  ASSUME TypeInv
  PROVE  /\ IsFiniteSet(Wallets) /\ IsFiniteSet(Admins) /\ IsFiniteSet(PullKeys)
         /\ wallet \in [Wallets -> Int] /\ vault \in [Admins -> Int]
         /\ pullLamports \in [PullKeys -> Int]
         /\ SumFunction(wallet) \in Int /\ SumFunction(vault) \in Int
         /\ SumFunction(pullLamports) \in Int
         /\ IsFiniteSet(Opened) /\ Cardinality(Opened) \in Nat
<1>1. /\ IsFiniteSet(Wallets) /\ IsFiniteSet(Admins) /\ IsFiniteSet(PullKeys)
      /\ IsFiniteSet(Opened)
  BY GachaAssumption, FS_Subset, PullKeysFinite DEF Opened
<1>2. /\ wallet \in [Wallets -> Int] /\ vault \in [Admins -> Int]
      /\ pullLamports \in [PullKeys -> Int]
  BY DEF TypeInv, TypeOK
<1> QED BY <1>1, <1>2, SumOfFunction, FS_CardinalityType

\* The same pools are open when no instruction opens one.
LEMMA SameOpened ==
  ASSUME \A a \in Admins : pool'[a].initialized = pool[a].initialized
  PROVE  Opened' = Opened
BY DEF Opened

\* The sum by which lamports are counted, in the four parts a step moves.
LEMMA Total ==
  LamportsConserved <=>
    SumFunction(wallet) + SumFunction(vault) + SumFunction(pullLamports)
      + PoolRent * Cardinality(Opened) = SumFunction(Endowment)
BY DEF LamportsConserved, Opened

LEMMA LamportsInit == Init => LamportsConserved
<1> SUFFICES ASSUME Init PROVE LamportsConserved
  OBVIOUS
<1>1. TypeInv
  BY TypeInit
<1>2. SumFunction(vault) = 0
  BY <1>1, BalancesTyped, SumOfZeros DEF Init
<1>3. SumFunction(pullLamports) = 0
  BY <1>1, BalancesTyped, SumOfZeros DEF Init
<1>4. Cardinality(Opened) = 0
  BY FS_EmptySet DEF Opened, Init, NoPool
<1>5. wallet = Endowment /\ SumFunction(wallet) \in Int
  BY <1>1, BalancesTyped DEF Init
<1> QED BY <1>2, <1>3, <1>4, <1>5, Constants, Total

LEMMA LamportsStep ==
  SolvencyInv /\ LamportsConserved /\ [Next]_vars => LamportsConserved'
<1> SUFFICES ASSUME SolvencyInv, LamportsConserved, [Next]_vars
             PROVE  LamportsConserved'
  OBVIOUS
<1> DEFINE W == SumFunction(wallet)
           V == SumFunction(vault)
           P == SumFunction(pullLamports)
           R == PoolRent * Cardinality(Opened)
<1>a. TypeInv /\ TypeInv'
  BY TypeStep DEF SolvencyInv
<1>b. /\ wallet \in [Wallets -> Int] /\ wallet' \in [Wallets -> Int]
      /\ vault \in [Admins -> Int] /\ vault' \in [Admins -> Int]
      /\ pullLamports \in [PullKeys -> Int] /\ pullLamports' \in [PullKeys -> Int]
      /\ IsFiniteSet(Wallets) /\ IsFiniteSet(Admins) /\ IsFiniteSet(PullKeys)
  BY <1>a, BalancesTyped DEF TypeInv, TypeOK
<1>c. W \in Int /\ V \in Int /\ P \in Int /\ R \in Int
  BY <1>a, BalancesTyped, Constants
<1>d. W + V + P + R = SumFunction(Endowment)
  BY Total
<1>e. ASSUME NEW x \in Int, NEW y \in Int, NEW z \in Int,
             W' = W + x, V' = V + y, P' = P + z, R' = R, x + y + z = 0
      PROVE  LamportsConserved'
  <2>1. W' + V' + P' + R' = SumFunction(Endowment)
    BY <1>c, <1>d, <1>e
  <2>2. LamportsConserved' <=> W' + V' + P' + R' = SumFunction(Endowment)
    BY DEF LamportsConserved, Opened
  <2> QED BY <2>1, <2>2
<1> HIDE DEF W, V, P, R
<1>1. ASSUME NEW a \in Admins, NEW c \in PoolConfigs, InitPool(a, c)
      PROVE  LamportsConserved'
  <2> DEFINE t == TopUp(vault[a], RentFloor)
  <2>1. vault[a] \in Nat /\ a \in Wallets
    BY <1>a, Constants DEF TypeInv, TypeOK
  <2>2. t \in Nat
    BY <2>1, Constants, TopUpFacts
  <2>3. /\ wallet' = [wallet EXCEPT ![a] = @ - (PoolRent + t)]
        /\ vault' = [vault EXCEPT ![a] = vault[a] + t]
        /\ UNCHANGED pullLamports
    BY <1>1 DEF InitPool
  <2> HIDE DEF t
  <2>4. W' = W + (0 - (PoolRent + t))
    <3>1. /\ 0 - (PoolRent + t) \in Int
          /\ wallet'[a] = wallet[a] + (0 - (PoolRent + t))
          /\ \A w \in Wallets \ {a} : wallet'[w] = wallet[w]
      BY <1>b, <2>1, <2>2, <2>3, Constants
    <3> QED BY <1>b, <2>1, <3>1, SumMoves DEF W
  <2>5. V' = V + t
    <3>1. vault'[a] = vault[a] + t /\ \A x \in Admins \ {a} : vault'[x] = vault[x]
      BY <1>b, <2>3
    <3> QED BY <1>b, <2>2, <3>1, SumMoves DEF V
  <2>6. P' = P
    BY <2>3 DEF P
  <2>7. R' = R + PoolRent
    <3>1. Opened' = Opened \cup {a} /\ a \notin Opened
      BY <1>1, InitPoolEffect DEF Opened
    <3>2. Cardinality(Opened') = Cardinality(Opened) + 1 /\ Cardinality(Opened) \in Nat
      BY <1>a, <3>1, BalancesTyped, FS_AddElement
    <3> QED BY <3>2, Constants DEF R
  <2>8. W' + V' + P' + R' = SumFunction(Endowment)
    BY <1>c, <1>d, <2>2, <2>4, <2>5, <2>6, <2>7, Constants
  <2> QED BY <2>8 DEF W, V, P, R, LamportsConserved, Opened
<1>2. ASSUME NEW a \in Admins, NEW k \in PullKeys, BuyPull(a, k)
      PROVE  LamportsConserved'
  <2> DEFINE t == TopUp(pullLamports[k], PullRent)
             f == pool[a].entry_fee
  <2>1. /\ k.buyer \in Wallets /\ f \in Nat /\ SameTerms(pool[a], pool'[a])
        /\ \A x \in Admins \ {a} : pool'[x] = pool[x]
    BY <1>a, <1>2, BuyPullEffect
  <2>2. t \in Nat
    BY <1>a, Constants, TopUpFacts DEF TypeInv, TypeOK
  <2>3. /\ wallet' = [wallet EXCEPT ![k.buyer] = @ - (t + f)]
        /\ vault' = [vault EXCEPT ![a] = @ + f]
        /\ pullLamports' = [pullLamports EXCEPT ![k] = @ + t]
    BY <1>2 DEF BuyPull
  <2>4. R' = R
    BY <2>1, SameOpened DEF R, SameTerms
  <2> HIDE DEF t, f
  <2>5. W' = W + (0 - (t + f))
    <3>1. /\ 0 - (t + f) \in Int
          /\ wallet'[k.buyer] = wallet[k.buyer] + (0 - (t + f))
          /\ \A w \in Wallets \ {k.buyer} : wallet'[w] = wallet[w]
      BY <1>b, <2>1, <2>2, <2>3
    <3> QED BY <1>b, <2>1, <3>1, SumMoves DEF W
  <2>6. V' = V + f
    <3>1. vault'[a] = vault[a] + f /\ \A x \in Admins \ {a} : vault'[x] = vault[x]
      BY <1>b, <2>3
    <3> QED BY <1>b, <2>1, <3>1, SumMoves DEF V
  <2>7. P' = P + t
    <3>1. /\ pullLamports'[k] = pullLamports[k] + t
          /\ \A l \in PullKeys \ {k} : pullLamports'[l] = pullLamports[l]
      BY <1>b, <2>3
    <3> QED BY <1>b, <2>2, <3>1, SumMoves DEF P
  <2> QED BY <1>e, <2>1, <2>2, <2>4, <2>5, <2>6, <2>7
<1>3. ASSUME NEW b \in Wallets, NEW a \in Admins, NEW k \in PullKeys,
             RefundPull(b, a, k)
      PROVE  LamportsConserved'
  <2> DEFINE f == pool[a].entry_fee
             p == pullLamports[k]
  <2>1. /\ f \in Nat /\ SameTerms(pool[a], pool'[a])
        /\ \A x \in Admins \ {a} : pool'[x] = pool[x]
    BY <1>a, <1>3, RefundPullEffect
  <2>2. p \in Nat
    BY <1>a DEF TypeInv, TypeOK
  <2> HIDE DEF p
  <2>3. /\ wallet' = [wallet EXCEPT ![b] = @ + (f + p)]
        /\ vault' = [vault EXCEPT ![a] = @ - f]
        /\ pullLamports' = [pullLamports EXCEPT ![k] = 0]
    BY <1>3 DEF RefundPull, CanRefund, Refund, p
  <2>4. R' = R
    BY <2>1, SameOpened DEF R, SameTerms
  <2> HIDE DEF f
  <2>5. W' = W + (f + p)
    <3>1. /\ f + p \in Int /\ wallet'[b] = wallet[b] + (f + p)
          /\ \A w \in Wallets \ {b} : wallet'[w] = wallet[w]
      BY <1>b, <2>1, <2>2, <2>3
    <3> QED BY <1>b, <3>1, SumMoves DEF W
  <2>6. V' = V + (0 - f)
    <3>1. /\ 0 - f \in Int /\ vault'[a] = vault[a] + (0 - f)
          /\ \A x \in Admins \ {a} : vault'[x] = vault[x]
      BY <1>b, <2>1, <2>3
    <3> QED BY <1>b, <3>1, SumMoves DEF V
  <2>7. P' = P + (0 - p)
    <3>1. /\ 0 - p \in Int /\ pullLamports'[k] = pullLamports[k] + (0 - p)
          /\ \A l \in PullKeys \ {k} : pullLamports'[l] = pullLamports[l]
      BY <1>b, <2>2, <2>3 DEF p
    <3> DEFINE d == 0 - p
    <3>2. /\ d \in Int /\ pullLamports'[k] = pullLamports[k] + d
          /\ \A l \in PullKeys \ {k} : pullLamports'[l] = pullLamports[l]
      BY <3>1
    <3> HIDE DEF d
    <3> DEFINE g == pullLamports
               h == pullLamports'
    <3>3. /\ IsFiniteSet(PullKeys) /\ g \in [PullKeys -> Int] /\ h \in [PullKeys -> Int]
          /\ d \in Int /\ h[k] = g[k] + d
          /\ \A l \in PullKeys \ {k} : h[l] = g[l]
      BY <1>b, <3>2
    <3>4. P = SumFunction(g) /\ P' = SumFunction(h)
      BY DEF P
    <3> HIDE DEF g, h
    <3>5. SumFunction(h) = SumFunction(g) + d
      BY <3>3, SumMoves
    <3>6. P' = P + d
      BY <3>4, <3>5
    <3> QED BY <3>6 DEF d
  <2>8. f + p \in Int /\ 0 - f \in Int /\ 0 - p \in Int
        /\ (f + p) + (0 - f) + (0 - p) = 0
    BY <2>1, <2>2
  <2> QED BY <1>e, <2>4, <2>5, <2>6, <2>7, <2>8
<1>4. ASSUME NEW w \in Wallets, NEW a \in Admins, NEW amount \in 0 .. vault[a],
             WithdrawFees(w, a, amount)
      PROVE  LamportsConserved'
  <2>1. amount \in Int /\ 0 - amount \in Int
    BY <1>b
  <2>2. /\ wallet' = [wallet EXCEPT ![w] = @ + amount]
        /\ vault' = [vault EXCEPT ![a] = @ - amount]
        /\ UNCHANGED <<pool, pullLamports>>
    BY <1>4 DEF WithdrawFees
  <2>3. W' = W + amount
    <3>1. /\ wallet'[w] = wallet[w] + amount
          /\ \A u \in Wallets \ {w} : wallet'[u] = wallet[u]
      BY <1>b, <2>2
    <3> QED BY <1>b, <2>1, <3>1, SumMoves DEF W
  <2>4. V' = V + (0 - amount)
    <3>1. /\ vault'[a] = vault[a] + (0 - amount)
          /\ \A x \in Admins \ {a} : vault'[x] = vault[x]
      BY <1>b, <2>1, <2>2
    <3> QED BY <1>b, <2>1, <3>1, SumMoves DEF V
  <2>5. P' = P + 0 /\ R' = R
    BY <1>c, <2>2 DEF P, R, Opened
  <2>6. amount + (0 - amount) + 0 = 0
    BY <2>1
  <2> QED BY <1>e, <2>1, <2>3, <2>4, <2>5, <2>6
<1>5. ASSUME NEW w \in Givers, NEW a \in Admins, NEW n \in 1 .. wallet[w],
             GiveVault(w, a, n)
      PROVE  LamportsConserved'
  <2>1. w \in Wallets /\ n \in Int /\ 0 - n \in Int
    BY <1>b, Constants
  <2>2. /\ wallet' = [wallet EXCEPT ![w] = @ - n]
        /\ vault' = [vault EXCEPT ![a] = @ + n]
        /\ UNCHANGED <<pool, pullLamports>>
    BY <1>5 DEF GiveVault
  <2>3. W' = W + (0 - n)
    <3>1. /\ wallet'[w] = wallet[w] + (0 - n)
          /\ \A u \in Wallets \ {w} : wallet'[u] = wallet[u]
      BY <1>b, <2>1, <2>2
    <3> QED BY <1>b, <2>1, <3>1, SumMoves DEF W
  <2>4. V' = V + n
    <3>1. vault'[a] = vault[a] + n /\ \A x \in Admins \ {a} : vault'[x] = vault[x]
      BY <1>b, <2>2
    <3> QED BY <1>b, <2>1, <3>1, SumMoves DEF V
  <2>5. P' = P + 0 /\ R' = R
    BY <1>c, <2>2 DEF P, R, Opened
  <2>6. (0 - n) + n + 0 = 0
    BY <2>1
  <2> QED BY <1>e, <2>1, <2>3, <2>4, <2>5, <2>6
<1>6. ASSUME NEW w \in Givers, NEW k \in PullKeys, NEW n \in 1 .. wallet[w],
             GivePull(w, k, n)
      PROVE  LamportsConserved'
  <2>1. w \in Wallets /\ n \in Int /\ 0 - n \in Int
    BY <1>b, Constants
  <2>2. /\ wallet' = [wallet EXCEPT ![w] = @ - n]
        /\ pullLamports' = [pullLamports EXCEPT ![k] = @ + n]
        /\ UNCHANGED <<pool, vault>>
    BY <1>6 DEF GivePull
  <2>3. W' = W + (0 - n)
    <3>1. /\ wallet'[w] = wallet[w] + (0 - n)
          /\ \A u \in Wallets \ {w} : wallet'[u] = wallet[u]
      BY <1>b, <2>1, <2>2
    <3> QED BY <1>b, <2>1, <3>1, SumMoves DEF W
  <2>4. P' = P + n
    <3>1. /\ pullLamports'[k] = pullLamports[k] + n
          /\ \A l \in PullKeys \ {k} : pullLamports'[l] = pullLamports[l]
      BY <1>b, <2>2
    <3> QED BY <1>b, <2>1, <3>1, SumMoves DEF P
  <2>5. V' = V + 0 /\ R' = R
    BY <1>c, <2>2 DEF V, R, Opened
  <2>6. (0 - n) + 0 + n = 0
    BY <2>1
  <2> QED BY <1>e, <2>1, <2>3, <2>4, <2>5, <2>6
<1>7. ASSUME UNCHANGED <<wallet, vault, pullLamports>>, Opened' = Opened
      PROVE  LamportsConserved'
  BY <1>7 DEF LamportsConserved, Opened
<1>8. ASSUME NEW w \in Wallets, NEW a \in Admins, NEW k \in PullKeys,
             NEW beta \in Betas, SettlePull(w, a, k, beta)
      PROVE  LamportsConserved'
  <2>1. SameTerms(pool[a], pool'[a]) /\ \A x \in Admins \ {a} : pool'[x] = pool[x]
    BY <1>a, <1>8, SettlePullEffect
  <2>2. Opened' = Opened
    BY <2>1, SameOpened DEF SameTerms
  <2>3. UNCHANGED <<wallet, vault, pullLamports>>
    BY <1>8 DEF SettlePull
  <2> QED BY <1>7, <2>2, <2>3
<1>9. ASSUME UNCHANGED <<pool, wallet, vault, pullLamports>>
      PROVE  LamportsConserved'
  BY <1>7, <1>9 DEF Opened
<1> QED
  BY <1>1, <1>2, <1>3, <1>4, <1>5, <1>6, <1>8, <1>9
     DEF Next, vars, ClaimPrize, Tick, CommitOutside, RevokeAuthority

\* Counters describe the accounts, and lamports are neither made nor lost, for any
\* number of pools, buyers and pulls: the balances refund_pull and withdraw_fees
\* set themselves agree with what they take from the vault.
THEOREM AccountsAlwaysAddUp == Spec => []AccountsAddUp
<1> DEFINE I == SolvencyInv /\ IndicesOnce /\ LamportsConserved
<1>1. Init => I
  BY SolvencyInit, IndicesInit, LamportsInit
<1>2. I /\ [Next]_vars => I'
  BY SolvencyStep, IndicesStep, LamportsStep
<1>3. I => AccountsAddUp
  BY DEF SolvencyInv, PendingCounted, IndicesOnce, AccountsAddUp,
         CountersMatchAccounts
<1> HIDE DEF I
<1>4. Spec => []I
  BY <1>1, <1>2, PTL DEF Spec
<1> QED BY <1>3, <1>4, PTL

(***************************************************************************)
(* Revenue: what a vault holds is accounted for to the lamport.            *)
(***************************************************************************)

\* The pull accounts of a pool, in whatever state.
Accounts(a) == {k \in PullKeys : k.pool = a /\ pull[k].status # "Absent"}

Balanced(a) ==
  vault[a] + withdrawn[a] =
    RentFloor + surplus[a] + Cardinality(Accounts(a)) * pool[a].entry_fee

RevenueInv == \A a \in Admins : pool[a].initialized => Balanced(a)

LEMMA AccountsFinite ==
  ASSUME NEW a
  PROVE  IsFiniteSet(Accounts(a)) /\ Cardinality(Accounts(a)) \in Nat
BY PullKeysFinite, FS_Subset, FS_CardinalityType DEF Accounts

\* Every account is pending or revealed, and none is both.
LEMMA AccountsSplit ==
  ASSUME TypeOK, NEW a
  PROVE  LET revealed == PullsOf(a, "Settled") \cup PullsOf(a, "Claimed")
         IN  /\ Cardinality(revealed) \in Nat
             /\ Cardinality(Accounts(a)) =
                  Cardinality(revealed) + Cardinality(PullsOf(a, "Pending"))
<1> DEFINE revealed == PullsOf(a, "Settled") \cup PullsOf(a, "Claimed")
           pending == PullsOf(a, "Pending")
<1>1. \A k \in PullKeys : pull[k].status \in {"Absent", "Pending", "Settled", "Claimed"}
  BY DEF TypeOK, PullType, PullStatus
<1>2. Accounts(a) = revealed \cup pending /\ revealed \cap pending = {}
  BY <1>1 DEF Accounts, PullsOf, Pulls
<1>3. IsFiniteSet(revealed) /\ IsFiniteSet(pending)
  BY PullsFinite, FS_Union
<1>4. Cardinality(revealed) \in Nat /\ Cardinality(pending) \in Nat
  BY <1>3, FS_CardinalityType
<1>5. Cardinality(revealed \cup pending)
        = Cardinality(revealed) + Cardinality(pending)
          - Cardinality(revealed \cap pending)
  BY <1>3, FS_Union
<1>6. Cardinality(revealed \cap pending) = 0
  BY <1>2, FS_EmptySet
<1> HIDE DEF revealed, pending
<1>7. Cardinality(Accounts(a)) = Cardinality(revealed) + Cardinality(pending)
  BY <1>2, <1>4, <1>5, <1>6
<1> QED BY <1>4, <1>7 DEF revealed, pending

\* The values the equation of a pool is about.
LEMMA RevenueTyped ==
  ASSUME TypeOK, NEW a \in Admins
  PROVE  /\ vault[a] \in Nat /\ withdrawn[a] \in Nat /\ surplus[a] \in Nat
         /\ pool[a].entry_fee \in Nat /\ RentFloor \in Nat
         /\ Cardinality(Accounts(a)) \in Nat
         /\ Cardinality(Accounts(a)) * pool[a].entry_fee \in Nat
<1>1. pool[a].entry_fee \in Nat /\ Cardinality(Accounts(a)) \in Nat
  BY AccountsFinite DEF TypeOK, PoolType
<1> QED BY <1>1, OneFeeMore, Constants DEF TypeOK

\* A pool whose accounts, fee and money a step leaves alone stays balanced.
LEMMA BalanceKept ==
  ASSUME NEW a \in Admins, Balanced(a),
         vault'[a] = vault[a], withdrawn'[a] = withdrawn[a],
         surplus'[a] = surplus[a], pool'[a].entry_fee = pool[a].entry_fee,
         Accounts(a)' = Accounts(a)
  PROVE  Balanced(a)'
BY DEF Balanced

LEMMA AccountsSame ==
  ASSUME NEW a,
         \A k \in PullKeys : k.pool = a =>
           (pull'[k].status = "Absent" <=> pull[k].status = "Absent")
  PROVE  Accounts(a)' = Accounts(a)
BY DEF Accounts

LEMMA UndrawnStep ==
  TypeInv /\ UnopenedUndrawn /\ [Next]_vars => UnopenedUndrawn'
<1> SUFFICES ASSUME TypeInv, UnopenedUndrawn, [Next]_vars,
                    NEW x \in Admins, ~pool'[x].initialized
             PROVE  withdrawn'[x] = 0
  BY DEF UnopenedUndrawn
<1>1. ~pool[x].initialized
  <2>1. ASSUME NEW a \in Admins, NEW c \in PoolConfigs, InitPool(a, c)
        PROVE  ~pool[x].initialized
    BY <2>1 DEF InitPool, TypeInv, TypeOK
  <2>2. ASSUME NEW a \in Admins, NEW k \in PullKeys, BuyPull(a, k)
        PROVE  ~pool[x].initialized
    BY <2>2, BuyPullEffect DEF SameTerms
  <2>3. ASSUME NEW w \in Wallets, NEW a \in Admins, NEW k \in PullKeys,
               NEW beta \in Betas, SettlePull(w, a, k, beta)
        PROVE  ~pool[x].initialized
    BY <2>3, SettlePullEffect DEF SameTerms
  <2>4. ASSUME NEW b \in Wallets, NEW a \in Admins, NEW k \in PullKeys,
               RefundPull(b, a, k)
        PROVE  ~pool[x].initialized
    BY <2>4, RefundPullEffect DEF SameTerms
  <2>5. ASSUME NEW a \in Admins, NEW b \in Wallets, NEW k \in PullKeys,
               ClaimPrize(a, b, k)
        PROVE  ~pool[x].initialized
    BY <2>5, ClaimPrizeEffect
  <2> QED BY <2>1, <2>2, <2>3, <2>4, <2>5, PullSteps
<1>2. withdrawn'[x] = withdrawn[x]
  <2>1. ASSUME NEW w \in Wallets, NEW a \in Admins, NEW amount \in 0 .. vault[a],
               WithdrawFees(w, a, amount)
        PROVE  withdrawn'[x] = withdrawn[x]
    BY <1>1, <2>1 DEF WithdrawFees, TypeInv, TypeOK
  <2> QED BY <2>1 DEF Next, vars, InitPool, BuyPull, SettlePull, RefundPull, CanRefund,
                      ClaimPrize, Tick, CommitOutside, RevokeAuthority,
                      GiveVault, GivePull
<1> QED BY <1>1, <1>2 DEF UnopenedUndrawn

LEMMA RevenueStep ==
  LedgerInv /\ RevenueInv /\ [Next]_vars => RevenueInv'
<1> SUFFICES ASSUME LedgerInv, RevenueInv, [Next]_vars,
                    NEW x \in Admins, pool'[x].initialized
             PROVE  Balanced(x)'
  BY DEF RevenueInv
<1>0. TypeInv /\ TypeOK /\ TypeInv' /\ TypeOK' /\ SolvencyInv
  BY TypeStep DEF LedgerInv, SolvencyInv, TypeInv
<1>1. ASSUME NEW a \in Admins, NEW c \in PoolConfigs, InitPool(a, c)
      PROVE  Balanced(x)'
  <2> DEFINE t == TopUp(vault[a], RentFloor)
  <2>1. /\ ~pool[a].initialized
        /\ \A y \in Admins \ {a} : pool'[y] = pool[y]
    BY <1>0, <1>1, InitPoolEffect
  <2>2. /\ vault' = [vault EXCEPT ![a] = vault[a] + t]
        /\ surplus' = [surplus EXCEPT ![a] = (vault[a] + t) - RentFloor]
        /\ UNCHANGED <<pull, withdrawn>>
    <3>1. vault' = [vault EXCEPT ![a] = vault[a] + t]
      BY <1>1 DEF InitPool
    <3>2. surplus' = [surplus EXCEPT ![a] = (vault[a] + t) - RentFloor]
      BY <1>1 DEF InitPool
    <3>3. UNCHANGED <<pull, withdrawn>>
      BY <1>1 DEF InitPool
    <3> QED BY <3>1, <3>2, <3>3
  <2>3. Accounts(x)' = Accounts(x)
    BY <2>2, AccountsSame
  <2>4. CASE x = a
    <3>1. Accounts(a) = {}
      BY <1>0, <2>1, PulledIsOpen DEF Accounts, LedgerInv
    <3>2. Cardinality(Accounts(a)) = 0 /\ withdrawn[a] = 0
      BY <2>1, <3>1, FS_EmptySet DEF LedgerInv, UnopenedUndrawn
    <3>3. t \in Nat /\ vault[a] \in Nat /\ RentFloor \in Nat
      BY <1>0, Constants, TopUpFacts DEF TypeOK
    <3>4. /\ vault'[a] = vault[a] + t /\ withdrawn'[a] = 0
          /\ surplus'[a] = (vault[a] + t) - RentFloor
      BY <1>0, <2>2, <3>2 DEF TypeOK
    <3>5. pool'[a].entry_fee \in Nat
      BY <1>0 DEF TypeOK, PoolType
    <3>6. Cardinality(Accounts(a))' = 0
      BY <2>3, <2>4, <3>2
    <3> HIDE DEF t
    <3> QED BY <2>4, <3>3, <3>4, <3>5, <3>6 DEF Balanced
  <2>5. CASE x # a
    <3>1. vault'[x] = vault[x] /\ surplus'[x] = surplus[x] /\ withdrawn'[x] = withdrawn[x]
      BY <1>0, <2>2, <2>5 DEF TypeOK
    <3> QED BY <2>1, <2>3, <2>5, <3>1, BalanceKept DEF RevenueInv
  <2> QED BY <2>4, <2>5
<1>2. ASSUME NEW a \in Admins, NEW k \in PullKeys, BuyPull(a, k)
      PROVE  Balanced(x)'
  <2>1. /\ k.pool = a /\ SameTerms(pool[a], pool'[a])
        /\ \A y \in Admins \ {a} : pool'[y] = pool[y]
        /\ pull[k].status = "Absent" /\ pull'[k].status = "Pending"
        /\ \A l \in PullKeys \ {k} : pull'[l] = pull[l]
    BY <1>0, <1>2, BuyPullEffect
  <2>2. /\ vault' = [vault EXCEPT ![a] = @ + pool[a].entry_fee]
        /\ UNCHANGED <<withdrawn, surplus>>
    BY <1>2 DEF BuyPull
  <2>3. CASE x = a
    <3>1. Accounts(a)' = Accounts(a) \cup {k} /\ k \notin Accounts(a)
      BY <2>1 DEF Accounts
    <3>2. Cardinality(Accounts(a)') = Cardinality(Accounts(a)) + 1
      BY <3>1, AccountsFinite, FS_AddElement
    <3>3. /\ vault'[a] = vault[a] + pool[a].entry_fee
          /\ pool'[a].entry_fee = pool[a].entry_fee
          /\ withdrawn'[a] = withdrawn[a] /\ surplus'[a] = surplus[a]
      BY <1>0, <2>1, <2>2 DEF TypeOK, SameTerms
    <3>4. Balanced(a)
      BY <2>1, <2>3 DEF RevenueInv, SameTerms
    <3> DEFINE n == Cardinality(Accounts(a))
               f == pool[a].entry_fee
    <3>5. n \in Nat /\ f \in Nat /\ (n + 1) * f = n * f + f /\ n * f \in Nat
      BY <1>0, RevenueTyped, OneFeeMore
    <3>6. vault[a] + withdrawn[a] = RentFloor + surplus[a] + n * f
      BY <3>4 DEF Balanced
    <3>7. vault'[a] + withdrawn'[a] = RentFloor + surplus'[a] + (n + 1) * f
      <4> HIDE DEF n, f
      <4>1. vault[a] \in Nat /\ withdrawn[a] \in Nat /\ surplus[a] \in Nat
            /\ RentFloor \in Nat /\ vault'[a] = vault[a] + f
        BY <1>0, <3>3, RevenueTyped DEF f
      <4> QED BY <3>3, <3>5, <3>6, <4>1
    <3> QED BY <2>3, <3>2, <3>3, <3>7 DEF Balanced
  <2>4. CASE x # a
    <3>1. vault'[x] = vault[x] /\ surplus'[x] = surplus[x] /\ withdrawn'[x] = withdrawn[x]
      BY <1>0, <2>2, <2>4 DEF TypeOK
    <3>2. Accounts(x)' = Accounts(x)
      BY <2>1, <2>4, AccountsSame
    <3> QED BY <2>1, <2>4, <3>1, <3>2, BalanceKept DEF RevenueInv
  <2> QED BY <2>3, <2>4
<1>3. ASSUME NEW w \in Wallets, NEW a \in Admins, NEW k \in PullKeys,
             NEW beta \in Betas, SettlePull(w, a, k, beta)
      PROVE  Balanced(x)'
  <2>1. /\ SameTerms(pool[a], pool'[a])
        /\ \A y \in Admins \ {a} : pool'[y] = pool[y]
        /\ pull[k].status = "Pending" /\ pull'[k].status = "Settled"
        /\ \A l \in PullKeys \ {k} : pull'[l] = pull[l]
    BY <1>0, <1>3, SettlePullEffect
  <2>2. UNCHANGED <<vault, withdrawn, surplus>>
    BY <1>3 DEF SettlePull
  <2>3. Accounts(x)' = Accounts(x)
    BY <2>1, AccountsSame
  <2>4. pool'[x].entry_fee = pool[x].entry_fee /\ pool[x].initialized
    BY <2>1 DEF SameTerms
  <2> QED BY <2>2, <2>3, <2>4, BalanceKept DEF RevenueInv
<1>4. ASSUME NEW b \in Wallets, NEW a \in Admins, NEW k \in PullKeys,
             RefundPull(b, a, k)
      PROVE  Balanced(x)'
  <2>1. /\ k.pool = a /\ SameTerms(pool[a], pool'[a])
        /\ \A y \in Admins \ {a} : pool'[y] = pool[y]
        /\ pull[k].status = "Pending" /\ pull'[k].status = "Absent"
        /\ \A l \in PullKeys \ {k} : pull'[l] = pull[l]
    BY <1>0, <1>4, RefundPullEffect
  <2>2. /\ vault' = [vault EXCEPT ![a] = @ - pool[a].entry_fee]
        /\ UNCHANGED <<withdrawn, surplus>>
    BY <1>4 DEF RefundPull, CanRefund
  <2>3. CASE x = a
    <3>1. Accounts(a)' = Accounts(a) \ {k} /\ k \in Accounts(a)
      BY <2>1 DEF Accounts
    <3> DEFINE n == Cardinality(Accounts(a))
               f == pool[a].entry_fee
    <3>2. Cardinality(Accounts(a)') = n - 1 /\ n - 1 \in Nat
      <4>1. Cardinality(Accounts(a)') = n - 1
        BY <3>1, AccountsFinite, FS_RemoveElement
      <4>2. IsFiniteSet(Accounts(a)')
        BY <3>1, AccountsFinite, FS_RemoveElement
      <4> QED BY <4>1, <4>2, FS_CardinalityType
    <3>3. /\ vault'[a] = vault[a] - f /\ pool'[a].entry_fee = f
          /\ withdrawn'[a] = withdrawn[a] /\ surplus'[a] = surplus[a]
      BY <1>0, <2>1, <2>2 DEF TypeOK, SameTerms
    <3>4. Balanced(a)
      BY <2>1, <2>3 DEF RevenueInv, SameTerms
    <3>5. n \in Nat \ {0} /\ f \in Nat
      BY <1>0, <3>2, RevenueTyped
    <3>6. n * f = (n - 1) * f + f /\ n * f \in Nat /\ (n - 1) * f \in Nat
      BY <3>5, OneFeeLess
    <3>7. vault[a] + withdrawn[a] = RentFloor + surplus[a] + n * f
      BY <3>4 DEF Balanced
    <3>8. vault[a] \in Nat /\ withdrawn[a] \in Nat /\ surplus[a] \in Nat
          /\ RentFloor \in Nat
      BY <1>0, RevenueTyped
    <3>9. vault'[a] + withdrawn'[a] = RentFloor + surplus'[a] + (n - 1) * f
      <4> DEFINE before == n * f
                 after == (n - 1) * f
      <4>1. /\ before = after + f /\ before \in Nat /\ after \in Nat
            /\ vault[a] + withdrawn[a] = RentFloor + surplus[a] + before
        BY <3>6, <3>7
      <4> HIDE DEF n, f, before, after
      <4>2. vault'[a] + withdrawn'[a] = RentFloor + surplus'[a] + after
        BY <3>3, <3>5, <3>8, <4>1
      <4> QED BY <4>2 DEF after
    <3> QED BY <2>3, <3>2, <3>3, <3>9 DEF Balanced
  <2>4. CASE x # a
    <3>1. vault'[x] = vault[x] /\ surplus'[x] = surplus[x] /\ withdrawn'[x] = withdrawn[x]
      BY <1>0, <2>2, <2>4 DEF TypeOK
    <3>2. Accounts(x)' = Accounts(x)
      BY <2>1, <2>4, AccountsSame
    <3> QED BY <2>1, <2>4, <3>1, <3>2, BalanceKept DEF RevenueInv
  <2> QED BY <2>3, <2>4
<1>5. ASSUME NEW a \in Admins, NEW b \in Wallets, NEW k \in PullKeys,
             ClaimPrize(a, b, k)
      PROVE  Balanced(x)'
  <2>1. /\ UNCHANGED pool
        /\ pull[k].status = "Settled" /\ pull'[k].status = "Claimed"
        /\ \A l \in PullKeys \ {k} : pull'[l] = pull[l]
    BY <1>0, <1>5, ClaimPrizeEffect
  <2>2. UNCHANGED <<vault, withdrawn, surplus>>
    BY <1>5 DEF ClaimPrize
  <2>3. Accounts(x)' = Accounts(x)
    BY <2>1, AccountsSame
  <2> QED BY <2>1, <2>2, <2>3, BalanceKept DEF RevenueInv
<1>6. ASSUME UNCHANGED <<pool, pull>>,
             vault'[x] + withdrawn'[x] - surplus'[x]
               = vault[x] + withdrawn[x] - surplus[x]
      PROVE  Balanced(x)'
  <2>1. Accounts(x)' = Accounts(x) /\ Balanced(x)
    BY <1>6, AccountsSame DEF RevenueInv
  <2> DEFINE m == Cardinality(Accounts(x)) * pool[x].entry_fee
  <2>2. m \in Nat /\ vault[x] + withdrawn[x] = RentFloor + surplus[x] + m
    BY <1>0, <2>1, RevenueTyped DEF Balanced
  <2>3. /\ vault[x] \in Nat /\ withdrawn[x] \in Nat /\ surplus[x] \in Nat
        /\ vault'[x] \in Nat /\ withdrawn'[x] \in Nat /\ surplus'[x] \in Nat
    BY <1>0 DEF TypeOK
  <2>4. m' = m
    BY <1>6, <2>1
  <2> HIDE DEF m
  <2>5. vault'[x] + withdrawn'[x] = RentFloor + surplus'[x] + m
    BY <1>6, <2>2, <2>3, Constants
  <2> QED BY <2>4, <2>5 DEF Balanced, m
<1>7. ASSUME NEW w \in Wallets, NEW a \in Admins, NEW amount \in 0 .. vault[a],
             WithdrawFees(w, a, amount)
      PROVE  Balanced(x)'
  BY <1>0, <1>6, <1>7 DEF WithdrawFees, TypeOK
<1>8. ASSUME NEW w \in Givers, NEW a \in Admins, NEW n \in 1 .. wallet[w],
             GiveVault(w, a, n)
      PROVE  Balanced(x)'
  <2>0. w \in Wallets /\ wallet[w] \in Nat
    BY <1>0, Constants DEF TypeOK
  <2>1. /\ UNCHANGED <<pool, pull, withdrawn>>
        /\ vault' = [vault EXCEPT ![a] = @ + n]
        /\ surplus' = [surplus EXCEPT ![a] = IF pool[a].initialized THEN @ + n ELSE @]
    BY <1>8 DEF GiveVault
  <2>2. n \in Nat /\ pool[x].initialized
    BY <2>0, <2>1
  <2>3. vault'[x] + withdrawn'[x] - surplus'[x] = vault[x] + withdrawn[x] - surplus[x]
    BY <1>0, <2>1, <2>2 DEF TypeOK
  <2> QED BY <1>6, <2>1, <2>3
<1>9. ASSUME UNCHANGED <<pool, pull, vault, withdrawn, surplus>>
      PROVE  Balanced(x)'
  BY <1>6, <1>9
<1> QED
  BY <1>1, <1>2, <1>3, <1>4, <1>5, <1>7, <1>8, <1>9
     DEF Next, vars, Tick, CommitOutside, RevokeAuthority, GivePull

\* The admin never takes more than the fees of revealed pulls and what outsiders
\* sent, whatever fees, refunds, reveals and gifts come in whatever order.
THEOREM OnlyRevenueIsWithdrawn == Spec => []OnlyRevenueWithdrawn
<1> DEFINE I == LedgerInv /\ RevenueInv
<1>1. Init => I
  <2>1. Init => UnopenedUndrawn /\ RevenueInv
    BY DEF Init, UnopenedUndrawn, RevenueInv, NoPool
  <2> QED BY <2>1, SolvencyInit, IndicesInit DEF LedgerInv
<1>2. I /\ [Next]_vars => I'
  BY SolvencyStep, IndicesStep, UndrawnStep, RevenueStep DEF LedgerInv, SolvencyInv
<1>3. I => OnlyRevenueWithdrawn
  <2> SUFFICES ASSUME I, NEW a \in Admins, pool[a].initialized
               PROVE  LET revealed == PullsOf(a, "Settled") \cup PullsOf(a, "Claimed")
                          pending == PullsOf(a, "Pending")
                          fee == pool[a].entry_fee
                      IN  /\ vault[a] + withdrawn[a] =
                               RentFloor + surplus[a]
                               + (Cardinality(revealed) + Cardinality(pending)) * fee
                          /\ withdrawn[a] <= Cardinality(revealed) * fee + surplus[a]
    BY DEF OnlyRevenueWithdrawn
  <2> DEFINE r == Cardinality(PullsOf(a, "Settled") \cup PullsOf(a, "Claimed"))
             p == Cardinality(PullsOf(a, "Pending"))
             f == pool[a].entry_fee
  <2>0. TypeOK
    BY DEF LedgerInv, SolvencyInv, TypeInv
  <2>1. r \in Nat /\ p \in Nat /\ Cardinality(Accounts(a)) = r + p
    BY <2>0, AccountsSplit, PullsFinite
  <2>2. vault[a] + withdrawn[a] = RentFloor + surplus[a] + (r + p) * f
    BY <2>1 DEF RevenueInv, Balanced
  <2>3. vault[a] >= RentFloor + p * f
    BY DEF LedgerInv, SolvencyInv, PendingCounted, ReservedCovered, Reserved
  <2>4. /\ vault[a] \in Nat /\ withdrawn[a] \in Nat /\ surplus[a] \in Nat
        /\ f \in Nat /\ RentFloor \in Nat
    BY <2>0, RevenueTyped
  <2> HIDE DEF r, p, f
  <2>5. (r + p) * f = r * f + p * f /\ r * f \in Nat /\ p * f \in Nat
    BY <2>1, <2>4
  <2>6. withdrawn[a] <= r * f + surplus[a]
    <3> DEFINE rf == r * f
               pf == p * f
    <3>1. rf \in Nat /\ pf \in Nat
          /\ vault[a] + withdrawn[a] = RentFloor + surplus[a] + (rf + pf)
          /\ vault[a] >= RentFloor + pf
      BY <2>2, <2>3, <2>5
    <3> HIDE DEF rf, pf
    <3>2. withdrawn[a] <= rf + surplus[a]
      BY <2>4, <3>1
    <3> QED BY <3>2 DEF rf
  <2> QED BY <2>2, <2>6 DEF r, p, f
<1> HIDE DEF I
<1>4. Spec => []I
  BY <1>1, <1>2, PTL DEF Spec
<1> QED BY <1>3, <1>4, PTL

(***************************************************************************)
(* The program implements PullEscrow.                                      *)
(***************************************************************************)

\* What Escrow sees of the accounts.
Index == 0 .. MaxPulls - 1

RevenueOf(a) == IF pool[a].initialized THEN vault[a] - Reserved(a) ELSE 0

Phases == [a \in Admins |-> [i \in Index |-> PhaseOf(a, i)]]
Fees == [a \in Admins |-> pool[a].entry_fee]
Revenues == [a \in Admins |-> RevenueOf(a)]

\* An open pool charges something, which is how Escrow tells that it is open.
FeesPositive == \A a \in Admins : pool[a].initialized => pool[a].entry_fee > 0

EscrowInv == LedgerInv /\ FeesPositive

LEMMA FeesInit == Init => FeesPositive
BY DEF Init, FeesPositive, NoPool

LEMMA FeesStep == SolvencyInv /\ FeesPositive /\ [Next]_vars => FeesPositive'
<1> SUFFICES ASSUME SolvencyInv, FeesPositive, [Next]_vars
             PROVE  FeesPositive'
  OBVIOUS
<1>0. TypeInv
  BY DEF SolvencyInv
<1>1. ASSUME NEW a \in Admins, NEW c \in PoolConfigs, InitPool(a, c)
      PROVE  FeesPositive'
  BY <1>1, InitPoolEffect DEF FeesPositive
<1>2. ASSUME NEW a \in Admins, SameTerms(pool[a], pool'[a]),
             \A x \in Admins \ {a} : pool'[x] = pool[x]
      PROVE  FeesPositive'
  BY <1>2 DEF FeesPositive, SameTerms
<1>3. ASSUME NEW a \in Admins, NEW k \in PullKeys, BuyPull(a, k)
      PROVE  FeesPositive'
  BY <1>0, <1>2, <1>3, BuyPullEffect
<1>4. ASSUME NEW w \in Wallets, NEW a \in Admins, NEW k \in PullKeys,
             NEW beta \in Betas, SettlePull(w, a, k, beta)
      PROVE  FeesPositive'
  BY <1>0, <1>2, <1>4, SettlePullEffect
<1>5. ASSUME NEW b \in Wallets, NEW a \in Admins, NEW k \in PullKeys,
             RefundPull(b, a, k)
      PROVE  FeesPositive'
  BY <1>0, <1>2, <1>5, RefundPullEffect
<1>6. ASSUME UNCHANGED pool
      PROVE  FeesPositive'
  BY <1>6 DEF FeesPositive
<1>7. ASSUME NEW a \in Admins, NEW b \in Wallets, NEW k \in PullKeys,
             ClaimPrize(a, b, k)
      PROVE  FeesPositive'
  BY <1>6, <1>7 DEF ClaimPrize
<1> QED BY <1>1, <1>3, <1>4, <1>5, <1>6, <1>7, PullSteps

LEMMA EscrowInvStep == EscrowInv /\ [Next]_vars => EscrowInv'
BY SolvencyStep, IndicesStep, UndrawnStep, FeesStep DEF EscrowInv, LedgerInv,
   SolvencyInv

LEMMA EscrowInvInit == Init => EscrowInv
<1>1. Init => UnopenedUndrawn
  BY DEF Init, UnopenedUndrawn
<1> QED BY <1>1, SolvencyInit, IndicesInit, FeesInit DEF EscrowInv, LedgerInv

\* The phase of an index is the status of the account that carries it.
LifeOf(status) == CASE status = "Pending" -> "open"
                    [] status = "Settled" -> "revealed"
                    [] status = "Claimed" -> "delivered"

LEMMA LifeOfStatus ==
  /\ LifeOf("Pending") = "open" /\ LifeOf("Settled") = "revealed"
  /\ LifeOf("Claimed") = "delivered"
BY DEF LifeOf

PhasesCarried ==
  \A k \in PullKeys : pull[k].status # "Absent" =>
    /\ k.index < pool[k.pool].pulls_count
    /\ PhaseOf(k.pool, k.index) = LifeOf(pull[k].status)

PhasesBare ==
  \A a \in Admins, i \in Index :
    (\A k \in PullKeys : k.pool = a /\ k.index = i => pull[k].status = "Absent")
      => PhaseOf(a, i) = IF i < pool[a].pulls_count THEN "returned" ELSE "unsold"

LEMMA PhaseCarried == LedgerInv => PhasesCarried
<1> SUFFICES ASSUME LedgerInv, NEW k \in PullKeys, pull[k].status # "Absent"
             PROVE  /\ k.index < pool[k.pool].pulls_count
                    /\ PhaseOf(k.pool, k.index) = LifeOf(pull[k].status)
  BY DEF PhasesCarried
<1> DEFINE a == k.pool
           i == k.index
           carried == {l \in PullKeys :
                         l.pool = a /\ l.index = i /\ pull[l].status # "Absent"}
<1>1. /\ a \in Admins /\ i \in Nat /\ i < pool[a].pulls_count
      /\ \A l \in PullKeys : l.pool = a /\ l.index = i /\ l # k
                               => pull[l].status = "Absent"
  BY Constants DEF PullKeys, LedgerInv, IndicesOnce
<1>2. carried = {k}
  BY <1>1
<1>3. (CHOOSE l \in carried : TRUE) = k
  BY <1>2
<1>4. pool[a].pulls_count \in Nat
  BY <1>1 DEF LedgerInv, SolvencyInv, TypeInv, TypeOK, PoolType
<1>5. ~(i >= pool[a].pulls_count) /\ carried # {}
  BY <1>1, <1>2, <1>4
<1>6. PhaseOf(a, i) =
        CASE i >= pool[a].pulls_count -> "unsold"
          [] i < pool[a].pulls_count /\ carried = {} -> "returned"
          [] OTHER -> LifeOf(pull[CHOOSE l \in carried : TRUE].status)
  BY DEF PhaseOf, LifeOf
<1> HIDE DEF carried
<1>7. PhaseOf(a, i) = LifeOf(pull[CHOOSE l \in carried : TRUE].status)
  BY <1>5, <1>6
<1> QED BY <1>1, <1>3, <1>7

LEMMA PhaseBare == LedgerInv => PhasesBare
<1> SUFFICES ASSUME LedgerInv, NEW a \in Admins, NEW i \in Index,
                    \A k \in PullKeys :
                      k.pool = a /\ k.index = i => pull[k].status = "Absent"
             PROVE  PhaseOf(a, i) =
                      IF i < pool[a].pulls_count THEN "returned" ELSE "unsold"
  BY DEF PhasesBare
<1> DEFINE carried == {l \in PullKeys :
                         l.pool = a /\ l.index = i /\ pull[l].status # "Absent"}
<1>1. carried = {}
  OBVIOUS
<1>2. pool[a].pulls_count \in Nat /\ i \in Nat
  BY Constants DEF LedgerInv, SolvencyInv, TypeInv, TypeOK, PoolType, Index
<1>3. PhaseOf(a, i) =
        CASE i >= pool[a].pulls_count -> "unsold"
          [] i < pool[a].pulls_count /\ carried = {} -> "returned"
          [] OTHER -> LifeOf(pull[CHOOSE l \in carried : TRUE].status)
  BY DEF PhaseOf, LifeOf
<1> HIDE DEF carried
<1> QED BY <1>1, <1>2, <1>3

\* Both before and after a step.
LEMMA PhasesNow ==
  EscrowInv /\ EscrowInv'
    => PhasesCarried /\ PhasesBare /\ PhasesCarried' /\ PhasesBare'
<1>1. EscrowInv => PhasesCarried /\ PhasesBare
  BY PhaseCarried, PhaseBare DEF EscrowInv
<1> QED BY <1>1, PTL

\* An index whose accounts and whose place before or after the counter a step
\* leaves alone keeps its phase.
LEMMA PhaseKept ==
  ASSUME EscrowInv, EscrowInv', NEW a \in Admins, NEW i \in Index,
         \A k \in PullKeys : k.pool = a /\ k.index = i
                               => pull'[k].status = pull[k].status,
         i < pool'[a].pulls_count <=> i < pool[a].pulls_count
  PROVE  PhaseOf(a, i)' = PhaseOf(a, i)
<1>0. PhasesCarried /\ PhasesBare /\ PhasesCarried' /\ PhasesBare'
  BY PhasesNow
<1>1. CASE \E k \in PullKeys : k.pool = a /\ k.index = i /\ pull[k].status # "Absent"
  BY <1>0, <1>1 DEF PhasesCarried
<1>2. CASE ~\E k \in PullKeys : k.pool = a /\ k.index = i /\ pull[k].status # "Absent"
  BY <1>0, <1>2 DEF PhasesBare
<1> QED BY <1>1, <1>2

\* The steps of Escrow, in the terms above.
LEMMA EscrowOpens ==
  ASSUME NEW a \in Admins, NEW i \in Index, Fees[a] > 0,
         \A j \in Index : j < i => Phases[a][j] # "unsold",
         Phases[a][i] = "unsold", Phases' = [Phases EXCEPT ![a][i] = "open"],
         Fees' = Fees, Revenues' = Revenues
  PROVE  Escrow!Next
<1>1. Escrow!Open(a, i)
  BY DEF Escrow!Open, Escrow!Move, Phases, Fees, Revenues, RevenueOf, Index
<1> QED BY <1>1 DEF Escrow!Next, Index

LEMMA EscrowReveals ==
  ASSUME NEW a \in Admins, NEW i \in Index, Phases[a][i] = "open",
         Phases' = [Phases EXCEPT ![a][i] = "revealed"],
         Fees' = Fees, Revenues' = [Revenues EXCEPT ![a] = @ + Fees[a]]
  PROVE  Escrow!Next
<1>1. Escrow!Reveal(a, i)
  BY DEF Escrow!Reveal, Escrow!Move, Phases, Fees, Revenues, RevenueOf, Index
<1> QED BY <1>1 DEF Escrow!Next, Index

LEMMA EscrowReturns ==
  ASSUME NEW a \in Admins, NEW i \in Index, Phases[a][i] = "open",
         Phases' = [Phases EXCEPT ![a][i] = "returned"],
         Fees' = Fees, Revenues' = Revenues
  PROVE  Escrow!Next
<1>1. Escrow!Return(a, i)
  BY DEF Escrow!Return, Escrow!Move, Phases, Fees, Revenues, RevenueOf, Index
<1> QED BY <1>1 DEF Escrow!Next, Index

LEMMA EscrowDelivers ==
  ASSUME NEW a \in Admins, NEW i \in Index, Phases[a][i] = "revealed",
         Phases' = [Phases EXCEPT ![a][i] = "delivered"],
         Fees' = Fees, Revenues' = Revenues
  PROVE  Escrow!Next
<1>1. Escrow!Deliver(a, i)
  BY DEF Escrow!Deliver, Escrow!Move, Phases, Fees, Revenues, RevenueOf, Index
<1> QED BY <1>1 DEF Escrow!Next, Index

LEMMA EscrowLaunches ==
  ASSUME NEW a \in Admins, Fees[a] = 0, Fees'[a] > 0,
         Fees' = [Fees EXCEPT ![a] = Fees'[a]],
         Revenues'[a] >= 0, Revenues' = [Revenues EXCEPT ![a] = Revenues'[a]],
         Phases' = Phases
  PROVE  Escrow!Next
<1>1. Escrow!Launch(a)
  BY DEF Escrow!Launch, Escrow!ChangesAt, Phases, Fees, Revenues, RevenueOf, Index
<1> QED BY <1>1 DEF Escrow!Next

LEMMA EscrowDraws ==
  ASSUME NEW a \in Admins, Fees[a] > 0,
         Revenues'[a] \in 0 .. Revenues[a] - 1,
         Revenues' = [Revenues EXCEPT ![a] = Revenues'[a]],
         Phases' = Phases, Fees' = Fees
  PROVE  Escrow!Next
<1>1. Escrow!Draw(a)
  BY DEF Escrow!Draw, Escrow!ChangesAt, Phases, Fees, Revenues, RevenueOf, Index
<1> QED BY <1>1 DEF Escrow!Next

LEMMA EscrowGains ==
  ASSUME NEW a \in Admins, Fees[a] > 0,
         Revenues'[a] > Revenues[a],
         Revenues' = [Revenues EXCEPT ![a] = Revenues'[a]],
         Phases' = Phases, Fees' = Fees
  PROVE  Escrow!Next
<1>1. Escrow!Gift(a)
  BY DEF Escrow!Gift, Escrow!ChangesAt, Phases, Fees, Revenues, RevenueOf, Index
<1> QED BY <1>1 DEF Escrow!Next

LEMMA EscrowRests ==
  ASSUME Phases' = Phases, Fees' = Fees, Revenues' = Revenues
  PROVE  UNCHANGED Escrow!evars
BY DEF Escrow!evars, Phases, Fees, Revenues, RevenueOf, Index

\* One pull of one pool moves, and the phases of all others stay.
LEMMA PhaseMoves ==
  ASSUME NEW a \in Admins, NEW i \in Index, NEW to,
         PhaseOf(a, i)' = to,
         \A x \in Admins, j \in Index :
           x # a \/ j # i => PhaseOf(x, j)' = PhaseOf(x, j)
  PROVE  Phases' = [Phases EXCEPT ![a][i] = to]
<1> DEFINE Before(x) == [j \in Index |-> PhaseOf(x, j)]
           Later(x) == [j \in Index |-> PhaseOf(x, j)']
<1>1. Phases = [x \in Admins |-> Before(x)] /\ Phases' = [x \in Admins |-> Later(x)]
  BY DEF Phases
<1>2. Later(a) = [Before(a) EXCEPT ![i] = to]
  OBVIOUS
<1>3. \A x \in Admins \ {a} : Later(x) = Before(x)
  OBVIOUS
<1> HIDE DEF Before, Later
<1>4. Phases[a] = Before(a)
  BY <1>1
<1> QED BY <1>1, <1>2, <1>3, <1>4

LEMMA PhasesStay ==
  ASSUME \A x \in Admins, j \in Index : PhaseOf(x, j)' = PhaseOf(x, j)
  PROVE  Phases' = Phases
BY DEF Phases

\* What a pool's owner may draw, with its counter of pending pulls multiplied out.
LEMMA RevenueFacts ==
  EscrowInv => \A a \in Admins :
    /\ pool[a].pending_pulls \in Nat /\ pool[a].entry_fee \in Nat
    /\ vault[a] \in Nat /\ RentFloor \in Nat
    /\ pool[a].pending_pulls * pool[a].entry_fee \in Nat
    /\ pool[a].initialized =>
         /\ RevenueOf(a) = vault[a]
              - (RentFloor + pool[a].pending_pulls * pool[a].entry_fee)
         /\ RevenueOf(a) \in Nat
    /\ ~pool[a].initialized => RevenueOf(a) = 0
<1> SUFFICES ASSUME EscrowInv, NEW a \in Admins
             PROVE  /\ pool[a].pending_pulls \in Nat /\ pool[a].entry_fee \in Nat
                    /\ vault[a] \in Nat /\ RentFloor \in Nat
                    /\ pool[a].pending_pulls * pool[a].entry_fee \in Nat
                    /\ pool[a].initialized =>
                         /\ RevenueOf(a) = vault[a]
                              - (RentFloor + pool[a].pending_pulls * pool[a].entry_fee)
                         /\ RevenueOf(a) \in Nat
                    /\ ~pool[a].initialized => RevenueOf(a) = 0
  OBVIOUS
<1> DEFINE m == pool[a].pending_pulls * pool[a].entry_fee
<1>1. pool[a].pending_pulls \in Nat /\ pool[a].entry_fee \in Nat /\ vault[a] \in Nat
  BY DEF EscrowInv, LedgerInv, SolvencyInv, TypeInv, TypeOK, PoolType
<1>2. m \in Nat /\ RentFloor \in Nat
  BY <1>1, OneFeeMore, Constants
<1>3. pool[a].initialized => RevenueOf(a) = vault[a] - (RentFloor + m)
  BY DEF RevenueOf, Reserved
<1>4. pool[a].initialized => vault[a] >= RentFloor + m
  BY DEF EscrowInv, LedgerInv, SolvencyInv, ReservedCovered, Reserved
<1>5. ~pool[a].initialized => RevenueOf(a) = 0
  BY DEF RevenueOf
<1> HIDE DEF m
<1>6. pool[a].initialized => RevenueOf(a) \in Nat
  BY <1>1, <1>2, <1>3, <1>4
<1> QED BY <1>1, <1>2, <1>3, <1>5, <1>6 DEF m

RevenuesTyped ==
  \A a \in Admins :
    /\ pool[a].pending_pulls \in Nat /\ pool[a].entry_fee \in Nat
    /\ vault[a] \in Nat /\ RentFloor \in Nat
    /\ pool[a].pending_pulls * pool[a].entry_fee \in Nat
    /\ pool[a].initialized =>
         /\ RevenueOf(a) = vault[a]
              - (RentFloor + pool[a].pending_pulls * pool[a].entry_fee)
         /\ RevenueOf(a) \in Nat
    /\ ~pool[a].initialized => RevenueOf(a) = 0

LEMMA RevenuesNow == EscrowInv /\ EscrowInv' => RevenuesTyped /\ RevenuesTyped'
<1>1. EscrowInv => RevenuesTyped
  BY RevenueFacts DEF RevenuesTyped
<1> QED BY <1>1, PTL

\* Fees stay where the terms stay.
LEMMA FeesStay ==
  ASSUME \A x \in Admins : pool'[x].entry_fee = pool[x].entry_fee
  PROVE  Fees' = Fees
BY DEF Fees

\* The revenue of one pool moves.
LEMMA RevenueMoves ==
  ASSUME NEW a \in Admins, NEW r,
         RevenueOf(a)' = r,
         \A x \in Admins \ {a} : RevenueOf(x)' = RevenueOf(x)
  PROVE  /\ Revenues' = [Revenues EXCEPT ![a] = r] /\ Revenues'[a] = r
         /\ Revenues[a] = RevenueOf(a) /\ Fees[a] = pool[a].entry_fee
         /\ (r = RevenueOf(a) => Revenues' = Revenues)
BY DEF Revenues, Fees

LEMMA RevenueSame ==
  ASSUME NEW x \in Admins, pool'[x] = pool[x], vault'[x] = vault[x]
  PROVE  RevenueOf(x)' = RevenueOf(x)
BY DEF RevenueOf, Reserved

LEMMA LaunchStep ==
  ASSUME EscrowInv, EscrowInv', NEW a \in Admins, NEW c \in PoolConfigs,
         InitPool(a, c)
  PROVE  Escrow!Next
<1>0. TypeInv /\ TypeOK /\ SolvencyInv
  BY DEF EscrowInv, LedgerInv, SolvencyInv, TypeInv
<1>1. /\ pool[a].pulls_count = 0 /\ pool[a].entry_fee = 0
      /\ pool'[a].pulls_count = 0 /\ pool'[a].initialized
      /\ pool'[a].entry_fee \in Nat \ {0}
      /\ \A x \in Admins \ {a} : pool'[x] = pool[x]
  BY <1>0, InitPoolEffect
<1>2. vault' = [vault EXCEPT ![a] = vault[a] + TopUp(vault[a], RentFloor)]
      /\ UNCHANGED pull
  BY DEF InitPool
<1>3. \A x \in Admins \ {a} : vault'[x] = vault[x]
  BY <1>0, <1>2 DEF TypeOK
<1>4. Phases' = Phases
  <2>1. \A x \in Admins, j \in Index : PhaseOf(x, j)' = PhaseOf(x, j)
    BY <1>1, <1>2, PhaseKept
  <2> QED BY <2>1, PhasesStay
<1>5. /\ Revenues' = [Revenues EXCEPT ![a] = Revenues'[a]]
      /\ Revenues'[a] = RevenueOf(a)'
  BY <1>1, <1>3, RevenueSame, RevenueMoves
<1>6. RevenueOf(a)' \in Nat
  BY <1>1, RevenuesNow DEF RevenuesTyped
<1>7. Fees[a] = 0 /\ Fees'[a] > 0 /\ Fees' = [Fees EXCEPT ![a] = Fees'[a]]
  <2>1. Fees[a] = pool[a].entry_fee /\ Fees'[a] = pool'[a].entry_fee
    BY DEF Fees
  <2>2. Fees' = [Fees EXCEPT ![a] = pool'[a].entry_fee]
    BY <1>1 DEF Fees
  <2> QED BY <1>1, <2>1, <2>2
<1>8. Revenues'[a] >= 0
  BY <1>5, <1>6
<1> QED BY <1>4, <1>5, <1>7, <1>8, EscrowLaunches

LEMMA SaleStep ==
  ASSUME EscrowInv, EscrowInv', NEW a \in Admins, NEW k \in PullKeys, BuyPull(a, k)
  PROVE  Escrow!Next
<1>0. TypeInv /\ TypeOK /\ SolvencyInv
  BY DEF EscrowInv, LedgerInv, SolvencyInv, TypeInv
<1> DEFINE i == k.index
<1>1. /\ k.pool = a /\ i = pool[a].pulls_count /\ pool[a].initialized
      /\ pool[a].pulls_count \in Nat
      /\ pool'[a].pulls_count = pool[a].pulls_count + 1
      /\ SameTerms(pool[a], pool'[a])
      /\ \A x \in Admins \ {a} : pool'[x] = pool[x]
      /\ pull[k].status = "Absent" /\ pull'[k].status = "Pending"
      /\ \A l \in PullKeys \ {k} : pull'[l] = pull[l]
  BY <1>0, BuyPullEffect
<1>2. vault' = [vault EXCEPT ![a] = @ + pool[a].entry_fee]
      /\ pool'[a].pending_pulls = pool[a].pending_pulls + 1
  BY <1>0, BuyPullMoves DEF BuyPull
<1>3. /\ vault'[a] = vault[a] + pool[a].entry_fee
      /\ \A x \in Admins \ {a} : vault'[x] = vault[x]
  BY <1>0, <1>2 DEF TypeOK
<1>4. i \in Index /\ \A l \in PullKeys : l.index \in Index /\ l.pool \in Admins
  BY DEF PullKeys, Index
<1>5. Index \subseteq Nat
  BY Constants DEF Index
<1>6. PhasesCarried /\ PhasesBare /\ PhasesCarried' /\ PhasesBare'
  BY PhasesNow
<1>7. PhaseOf(a, i) = "unsold"
  <2>1. \A l \in PullKeys : l.pool = a /\ l.index = i => pull[l].status = "Absent"
    BY <1>1, <1>4, <1>5, <1>6 DEF PhasesCarried
  <2> QED BY <1>1, <1>4, <1>6, <2>1 DEF PhasesBare
<1>8. \A j \in Index : j < i => PhaseOf(a, j) # "unsold"
  <2> SUFFICES ASSUME NEW j \in Index, j < i PROVE PhaseOf(a, j) # "unsold"
    OBVIOUS
  <2>1. CASE \E l \in PullKeys : l.pool = a /\ l.index = j /\ pull[l].status # "Absent"
    <3> PICK l \in PullKeys : l.pool = a /\ l.index = j /\ pull[l].status # "Absent"
      BY <2>1
    <3>1. PhaseOf(a, j) = LifeOf(pull[l].status)
      BY <1>6 DEF PhasesCarried
    <3>2. pull[l].status \in {"Pending", "Settled", "Claimed"}
      BY <1>0 DEF TypeOK, PullType, PullStatus
    <3> QED BY <3>1, <3>2, LifeOfStatus
  <2>2. CASE ~\E l \in PullKeys : l.pool = a /\ l.index = j /\ pull[l].status # "Absent"
    <3>1. PhaseOf(a, j) = "returned"
      BY <1>1, <1>6, <2>2 DEF PhasesBare
    <3> QED BY <3>1
  <2> QED BY <2>1, <2>2
<1>9. Phases' = [Phases EXCEPT ![a][i] = "open"]
  <2>1. PhaseOf(a, i)' = "open"
    BY <1>1, <1>6, LifeOfStatus DEF PhasesCarried
  <2>2. ASSUME NEW x \in Admins, NEW j \in Index, x # a \/ j # i
        PROVE  PhaseOf(x, j)' = PhaseOf(x, j)
    <3>1. \A l \in PullKeys : l.pool = x /\ l.index = j
                                => pull'[l].status = pull[l].status
      BY <1>1, <2>2
    <3>2. j < pool'[x].pulls_count <=> j < pool[x].pulls_count
      BY <1>1, <1>4, <1>5, <2>2
    <3> QED BY <3>1, <3>2, PhaseKept
  <2> HIDE DEF i
  <2> QED BY <1>4, <2>1, <2>2, PhaseMoves
<1>10. Fees' = Fees
  BY <1>1, FeesStay DEF SameTerms
<1>11. Revenues' = Revenues
  <2>1. RevenuesTyped /\ RevenuesTyped'
    BY RevenuesNow
  <2> DEFINE n == pool[a].pending_pulls
             f == pool[a].entry_fee
  <2>2. n \in Nat /\ f \in Nat /\ vault[a] \in Nat /\ RentFloor \in Nat
    BY <2>1 DEF RevenuesTyped
  <2>3. n * f \in Nat /\ (n + 1) * f = n * f + f
    BY <2>2, OneFeeMore
  <2>4. RevenueOf(a) = vault[a] - (RentFloor + n * f)
    BY <1>1, <2>1 DEF RevenuesTyped
  <2>5. RevenueOf(a)' = vault'[a] - (RentFloor + (n + 1) * f)
    BY <1>1, <1>2, <2>1 DEF RevenuesTyped, SameTerms
  <2>6. vault'[a] = vault[a] + f
    BY <1>3
  <2>7. RevenueOf(a)' = RevenueOf(a)
    <3> DEFINE m == n * f
    <3>1. /\ m \in Nat /\ RevenueOf(a) = vault[a] - (RentFloor + m)
          /\ RevenueOf(a)' = vault'[a] - (RentFloor + (m + f))
      BY <2>3, <2>4, <2>5
    <3> HIDE DEF m, n, f
    <3> QED BY <2>2, <2>6, <3>1
  <2> QED BY <1>1, <1>3, <2>7, RevenueSame, RevenueMoves
<1>12. Fees[a] > 0
  BY <1>1 DEF Fees, EscrowInv, FeesPositive
<1>13. /\ Phases[a][i] = "unsold"
       /\ \A j \in Index : j < i => Phases[a][j] # "unsold"
  BY <1>4, <1>7, <1>8 DEF Phases
<1> HIDE DEF i
<1> QED BY <1>4, <1>9, <1>10, <1>11, <1>12, <1>13, EscrowOpens

\* What the reveal, the refund and the claim of pull k do to the phases.
LEMMA PhaseOfPull ==
  ASSUME EscrowInv, EscrowInv', NEW a \in Admins, NEW k \in PullKeys, k.pool = a,
         pull[k].status # "Absent",
         pool'[a].pulls_count = pool[a].pulls_count,
         \A x \in Admins \ {a} : pool'[x] = pool[x],
         \A l \in PullKeys \ {k} : pull'[l] = pull[l]
  PROVE  /\ k.index \in Index /\ Phases[a][k.index] = LifeOf(pull[k].status)
         /\ Phases' = [Phases EXCEPT ![a][k.index] =
              IF pull'[k].status = "Absent" THEN "returned" ELSE LifeOf(pull'[k].status)]
<1> DEFINE i == k.index
           to == IF pull'[k].status = "Absent" THEN "returned"
                                               ELSE LifeOf(pull'[k].status)
<1>1. i \in Index /\ Index \subseteq Nat
  BY Constants DEF PullKeys, Index
<1>2. PhasesCarried /\ PhasesBare /\ PhasesCarried' /\ PhasesBare'
  BY PhasesNow
<1>3. PhaseOf(a, i) = LifeOf(pull[k].status) /\ i < pool'[a].pulls_count
  BY <1>2 DEF PhasesCarried
<1>4. PhaseOf(a, i)' = to
  <2>1. CASE pull'[k].status # "Absent"
    BY <1>2, <2>1 DEF PhasesCarried
  <2>2. CASE pull'[k].status = "Absent"
    <3>1. \A l \in PullKeys : l.pool = a /\ l.index = i => pull'[l].status = "Absent"
      BY <2>2 DEF EscrowInv, LedgerInv, IndicesOnce
    <3>2. PhaseOf(a, i)' = "returned"
      BY <1>1, <1>2, <1>3, <3>1 DEF PhasesBare
    <3> QED BY <2>2, <3>2
  <2> QED BY <2>1, <2>2
<1>5. ASSUME NEW x \in Admins, NEW j \in Index, x # a \/ j # i
      PROVE  PhaseOf(x, j)' = PhaseOf(x, j)
  <2>1. \A l \in PullKeys : l.pool = x /\ l.index = j
                              => pull'[l].status = pull[l].status
    BY <1>5
  <2>2. j < pool'[x].pulls_count <=> j < pool[x].pulls_count
    OBVIOUS
  <2> QED BY <2>1, <2>2, PhaseKept
<1> HIDE DEF to
<1>6. Phases' = [Phases EXCEPT ![a][i] = to]
  <2> HIDE DEF i
  <2> QED BY <1>1, <1>4, <1>5, PhaseMoves
<1>7. Phases[a][i] = LifeOf(pull[k].status)
  BY <1>1, <1>3 DEF Phases
<1> QED BY <1>1, <1>6, <1>7 DEF to

LEMMA RevealStepOfEscrow ==
  ASSUME EscrowInv, EscrowInv', NEW w \in Wallets, NEW a \in Admins,
         NEW k \in PullKeys, NEW beta \in Betas, SettlePull(w, a, k, beta)
  PROVE  Escrow!Next
<1>0. TypeInv /\ TypeOK /\ SolvencyInv
  BY DEF EscrowInv, LedgerInv, SolvencyInv, TypeInv
<1>1. /\ k.pool = a /\ pool[a].initialized
      /\ pool'[a].pulls_count = pool[a].pulls_count
      /\ pool[a].pending_pulls \in Nat \ {0}
      /\ pool'[a].pending_pulls = pool[a].pending_pulls - 1
      /\ SameTerms(pool[a], pool'[a])
      /\ \A x \in Admins \ {a} : pool'[x] = pool[x]
      /\ pull[k].status = "Pending" /\ pull'[k].status = "Settled"
      /\ \A l \in PullKeys \ {k} : pull'[l] = pull[l]
  BY <1>0, SettlePullEffect
<1>2. vault' = vault
  BY DEF SettlePull
<1>3. /\ k.index \in Index /\ Phases[a][k.index] = "open"
      /\ Phases' = [Phases EXCEPT ![a][k.index] = "revealed"]
  <2>1. /\ k.index \in Index /\ Phases[a][k.index] = LifeOf(pull[k].status)
        /\ Phases' = [Phases EXCEPT ![a][k.index] =
             IF pull'[k].status = "Absent" THEN "returned" ELSE LifeOf(pull'[k].status)]
    BY <1>1, PhaseOfPull
  <2> QED BY <1>1, <2>1, LifeOfStatus
<1>4. Fees' = Fees
  BY <1>1, FeesStay DEF SameTerms
<1>5. Revenues' = [Revenues EXCEPT ![a] = @ + Fees[a]]
  <2>1. RevenuesTyped /\ RevenuesTyped'
    BY RevenuesNow
  <2> DEFINE n == pool[a].pending_pulls
             f == pool[a].entry_fee
  <2>2. n \in Nat \ {0} /\ f \in Nat /\ vault[a] \in Nat /\ RentFloor \in Nat
    BY <1>1, <2>1 DEF RevenuesTyped
  <2>3. n * f \in Nat /\ (n - 1) * f \in Nat /\ n * f = (n - 1) * f + f
    BY <2>2, OneFeeLess
  <2>4. RevenueOf(a) = vault[a] - (RentFloor + n * f)
    BY <1>1, <2>1 DEF RevenuesTyped
  <2>5. RevenueOf(a)' = vault[a] - (RentFloor + (n - 1) * f)
    BY <1>1, <1>2, <2>1 DEF RevenuesTyped, SameTerms
  <2>6. RevenueOf(a)' = RevenueOf(a) + f
    <3> DEFINE m == (n - 1) * f
    <3>1. /\ m \in Nat /\ RevenueOf(a) = vault[a] - (RentFloor + (m + f))
          /\ RevenueOf(a)' = vault[a] - (RentFloor + m)
      BY <2>3, <2>4, <2>5
    <3> HIDE DEF m, n, f
    <3> QED BY <2>2, <3>1
  <2>7. \A x \in Admins \ {a} : RevenueOf(x)' = RevenueOf(x)
    BY <1>1, <1>2, RevenueSame
  <2>8. Revenues' = [Revenues EXCEPT ![a] = RevenueOf(a) + f]
        /\ Revenues[a] = RevenueOf(a) /\ Fees[a] = f
    BY <2>6, <2>7, RevenueMoves
  <2> HIDE DEF f
  <2> QED BY <2>8
<1> QED BY <1>3, <1>4, <1>5, EscrowReveals

LEMMA RefundStepOfEscrow ==
  ASSUME EscrowInv, EscrowInv', NEW b \in Wallets, NEW a \in Admins,
         NEW k \in PullKeys, RefundPull(b, a, k)
  PROVE  Escrow!Next
<1>0. TypeInv /\ TypeOK /\ SolvencyInv
  BY DEF EscrowInv, LedgerInv, SolvencyInv, TypeInv
<1>1. /\ k.pool = a /\ pool[a].initialized
      /\ pool'[a].pulls_count = pool[a].pulls_count
      /\ pool[a].pending_pulls \in Nat \ {0}
      /\ pool'[a].pending_pulls = pool[a].pending_pulls - 1
      /\ SameTerms(pool[a], pool'[a])
      /\ \A x \in Admins \ {a} : pool'[x] = pool[x]
      /\ pull[k].status = "Pending" /\ pull'[k].status = "Absent"
      /\ \A l \in PullKeys \ {k} : pull'[l] = pull[l]
  BY <1>0, RefundPullEffect
<1>2. vault' = [vault EXCEPT ![a] = @ - pool[a].entry_fee]
  BY DEF RefundPull, CanRefund
<1>3. /\ vault'[a] = vault[a] - pool[a].entry_fee
      /\ \A x \in Admins \ {a} : vault'[x] = vault[x]
  BY <1>0, <1>2 DEF TypeOK
<1>4. /\ k.index \in Index /\ Phases[a][k.index] = "open"
      /\ Phases' = [Phases EXCEPT ![a][k.index] = "returned"]
  <2>1. /\ k.index \in Index /\ Phases[a][k.index] = LifeOf(pull[k].status)
        /\ Phases' = [Phases EXCEPT ![a][k.index] =
             IF pull'[k].status = "Absent" THEN "returned" ELSE LifeOf(pull'[k].status)]
    BY <1>1, PhaseOfPull
  <2> QED BY <1>1, <2>1, LifeOfStatus
<1>5. Fees' = Fees
  BY <1>1, FeesStay DEF SameTerms
<1>6. Revenues' = Revenues
  <2>1. RevenuesTyped /\ RevenuesTyped'
    BY RevenuesNow
  <2> DEFINE n == pool[a].pending_pulls
             f == pool[a].entry_fee
  <2>2. n \in Nat \ {0} /\ f \in Nat /\ vault[a] \in Nat /\ RentFloor \in Nat
    BY <1>1, <2>1 DEF RevenuesTyped
  <2>3. n * f \in Nat /\ (n - 1) * f \in Nat /\ n * f = (n - 1) * f + f
    BY <2>2, OneFeeLess
  <2>4. RevenueOf(a) = vault[a] - (RentFloor + n * f)
    BY <1>1, <2>1 DEF RevenuesTyped
  <2>5. RevenueOf(a)' = vault'[a] - (RentFloor + (n - 1) * f)
    BY <1>1, <2>1 DEF RevenuesTyped, SameTerms
  <2>6. vault'[a] = vault[a] - f
    BY <1>3
  <2>7. RevenueOf(a)' = RevenueOf(a)
    <3> DEFINE m == (n - 1) * f
    <3>1. /\ m \in Nat /\ RevenueOf(a) = vault[a] - (RentFloor + (m + f))
          /\ RevenueOf(a)' = vault'[a] - (RentFloor + m)
      BY <2>3, <2>4, <2>5
    <3> HIDE DEF m, n, f
    <3> QED BY <2>2, <2>6, <3>1
  <2>8. \A x \in Admins \ {a} : RevenueOf(x)' = RevenueOf(x)
    BY <1>1, <1>3, RevenueSame
  <2> QED BY <2>7, <2>8, RevenueMoves
<1> QED BY <1>4, <1>5, <1>6, EscrowReturns

LEMMA ClaimStepOfEscrow ==
  ASSUME EscrowInv, EscrowInv', NEW b \in Wallets, NEW a \in Admins,
         NEW k \in PullKeys, ClaimPrize(a, b, k)
  PROVE  Escrow!Next
<1>0. TypeInv
  BY DEF EscrowInv, LedgerInv, SolvencyInv
<1>1. /\ k.pool = a /\ UNCHANGED pool
      /\ pull[k].status = "Settled" /\ pull'[k].status = "Claimed"
      /\ \A l \in PullKeys \ {k} : pull'[l] = pull[l]
  BY <1>0, ClaimPrizeEffect
<1>2. vault' = vault
  BY DEF ClaimPrize
<1>3. /\ k.index \in Index /\ Phases[a][k.index] = "revealed"
      /\ Phases' = [Phases EXCEPT ![a][k.index] = "delivered"]
  <2>1. /\ k.index \in Index /\ Phases[a][k.index] = LifeOf(pull[k].status)
        /\ Phases' = [Phases EXCEPT ![a][k.index] =
             IF pull'[k].status = "Absent" THEN "returned" ELSE LifeOf(pull'[k].status)]
    BY <1>1, PhaseOfPull
  <2> QED BY <1>1, <2>1, LifeOfStatus
<1>4. Fees' = Fees /\ Revenues' = Revenues
  BY <1>1, <1>2 DEF Fees, Revenues, RevenueOf, Reserved
<1> QED BY <1>3, <1>4, EscrowDelivers

\* Money that enters or leaves a vault while the pools and the pulls stay.
LEMMA MoneyStepOfEscrow ==
  ASSUME EscrowInv, EscrowInv', NEW a \in Admins, UNCHANGED <<pool, pull>>,
         \A x \in Admins \ {a} : vault'[x] = vault[x]
  PROVE  Escrow!Next \/ UNCHANGED Escrow!evars
<1>1. RevenuesTyped /\ RevenuesTyped'
  BY RevenuesNow
<1>2. Phases' = Phases
  <2>1. \A x \in Admins, j \in Index : PhaseOf(x, j)' = PhaseOf(x, j)
    BY PhaseKept
  <2> QED BY <2>1, PhasesStay
<1>3. Fees' = Fees
  BY DEF Fees
<1>4. /\ Revenues' = [Revenues EXCEPT ![a] = Revenues'[a]]
      /\ Revenues'[a] = RevenueOf(a)' /\ Revenues[a] = RevenueOf(a)
      /\ (RevenueOf(a)' = RevenueOf(a) => Revenues' = Revenues)
  <2>1. \A x \in Admins \ {a} : RevenueOf(x)' = RevenueOf(x)
    BY RevenueSame
  <2> QED BY <2>1, RevenueMoves
<1>5. CASE ~pool[a].initialized
  <2>1. RevenueOf(a)' = RevenueOf(a)
    BY <1>1, <1>5 DEF RevenuesTyped
  <2> QED BY <1>2, <1>3, <1>4, <2>1, EscrowRests
<1>6. CASE pool[a].initialized
  <2>1. RevenueOf(a) \in Nat /\ RevenueOf(a)' \in Nat
    BY <1>1, <1>6 DEF RevenuesTyped
  <2>2. Fees[a] > 0
    BY <1>6 DEF Fees, EscrowInv, FeesPositive
  <2>3. CASE RevenueOf(a)' = RevenueOf(a)
    BY <1>2, <1>3, <1>4, <2>3, EscrowRests
  <2>4. CASE RevenueOf(a)' > RevenueOf(a)
    <3>1. Revenues'[a] > Revenues[a]
      BY <1>4, <2>4
    <3> QED BY <1>2, <1>3, <1>4, <2>2, <3>1, EscrowGains
  <2>5. CASE RevenueOf(a)' < RevenueOf(a)
    <3>1. Revenues'[a] \in 0 .. Revenues[a] - 1
      BY <1>4, <2>1, <2>5
    <3> QED BY <1>2, <1>3, <1>4, <2>2, <3>1, EscrowDraws
  <2> QED BY <2>1, <2>3, <2>4, <2>5
<1> QED BY <1>5, <1>6

LEMMA EscrowStep ==
  EscrowInv /\ [Next]_vars => Escrow!Next \/ UNCHANGED Escrow!evars
<1> SUFFICES ASSUME EscrowInv, [Next]_vars
             PROVE  Escrow!Next \/ UNCHANGED Escrow!evars
  OBVIOUS
<1>0. EscrowInv' /\ TypeOK
  BY EscrowInvStep DEF EscrowInv, LedgerInv, SolvencyInv, TypeInv
<1> USE <1>0
<1>1. ASSUME NEW a \in Admins, NEW c \in PoolConfigs, InitPool(a, c)
      PROVE  Escrow!Next
  BY <1>1, LaunchStep
<1>2. ASSUME NEW a \in Admins, NEW k \in PullKeys, BuyPull(a, k)
      PROVE  Escrow!Next
  BY <1>2, SaleStep
<1>3. ASSUME NEW w \in Wallets, NEW a \in Admins, NEW k \in PullKeys,
             NEW beta \in Betas, SettlePull(w, a, k, beta)
      PROVE  Escrow!Next
  BY <1>3, RevealStepOfEscrow
<1>4. ASSUME NEW b \in Wallets, NEW a \in Admins, NEW k \in PullKeys,
             RefundPull(b, a, k)
      PROVE  Escrow!Next
  BY <1>4, RefundStepOfEscrow
<1>5. ASSUME NEW a \in Admins, NEW b \in Wallets, NEW k \in PullKeys,
             ClaimPrize(a, b, k)
      PROVE  Escrow!Next
  BY <1>5, ClaimStepOfEscrow
<1>6. ASSUME NEW w \in Wallets, NEW a \in Admins, NEW amount \in 0 .. vault[a],
             WithdrawFees(w, a, amount)
      PROVE  Escrow!Next \/ UNCHANGED Escrow!evars
  <2>1. UNCHANGED <<pool, pull>> /\ \A x \in Admins \ {a} : vault'[x] = vault[x]
    BY <1>6 DEF WithdrawFees, TypeOK
  <2> QED BY <2>1, MoneyStepOfEscrow
<1>7. ASSUME NEW w \in Givers, NEW a \in Admins, NEW n \in 1 .. wallet[w],
             GiveVault(w, a, n)
      PROVE  Escrow!Next \/ UNCHANGED Escrow!evars
  <2>1. UNCHANGED <<pool, pull>> /\ \A x \in Admins \ {a} : vault'[x] = vault[x]
    BY <1>7 DEF GiveVault, TypeOK
  <2> QED BY <2>1, MoneyStepOfEscrow
<1>8. ASSUME UNCHANGED <<pool, pull, vault>>
      PROVE  UNCHANGED Escrow!evars
  <2>1. Fees' = Fees /\ Revenues' = Revenues
    BY <1>8 DEF Fees, Revenues, RevenueOf, Reserved
  <2>2. \A x \in Admins, j \in Index : PhaseOf(x, j)' = PhaseOf(x, j)
    BY <1>8, PhaseKept
  <2> QED BY <2>1, <2>2, PhasesStay, EscrowRests
<1> QED
  BY <1>1, <1>2, <1>3, <1>4, <1>5, <1>6, <1>7, <1>8
     DEF Next, vars, Tick, CommitOutside, RevokeAuthority, GivePull

LEMMA EscrowStarts == Init => Escrow!Init
<1> SUFFICES ASSUME Init PROVE Escrow!Init
  OBVIOUS
<1>1. \A a \in Admins, i \in Index : PhaseOf(a, i) = "unsold"
  <2> SUFFICES ASSUME NEW a \in Admins, NEW i \in Index
               PROVE  PhaseOf(a, i) = "unsold"
    OBVIOUS
  <2>1. LedgerInv
    BY EscrowInvInit DEF EscrowInv
  <2>2. PhasesBare
    BY <2>1, PhaseBare
  <2>3. pool[a].pulls_count = 0 /\ \A k \in PullKeys : pull[k].status = "Absent"
    BY DEF Init, NoPool, NoPull
  <2>4. ~(i < 0)
    BY Constants DEF Index
  <2> QED BY <2>2, <2>3, <2>4 DEF PhasesBare
<1>2. \A a \in Admins : pool[a].entry_fee = 0 /\ ~pool[a].initialized
  BY DEF Init, NoPool
<1> QED BY <1>1, <1>2 DEF Escrow!Init, Index

\* The program implements the escrow: whatever instructions, gifts, commits and
\* revocations interleave in any number of pools, what each party sees is one step of
\* the promised life of one pull, a change of the revenue the owner may draw, or
\* nothing.
THEOREM ProgramImplementsEscrow == Spec => ImplementsEscrow
<1>1. Init => EscrowInv /\ Escrow!Init
  BY EscrowInvInit, EscrowStarts
<1>2. EscrowInv /\ [Next]_vars => EscrowInv' /\ [Escrow!Next]_(Escrow!evars)
  BY EscrowInvStep, EscrowStep
<1> QED BY <1>1, <1>2, PTL DEF Spec, ImplementsEscrow, Escrow!Spec

\* A buyer can always get out: after the deadline of a pending pull every check of
\* refund_pull passes, in whatever state the vault, the counter and the registry are:
\* the vault holds the fee, and the counter of pending pulls does not underflow.
THEOREM OverdueIsAlwaysRefundable == Spec => []OverdueIsRefundable
<1>1. EscrowInv => OverdueIsRefundable
  <2> SUFFICES ASSUME EscrowInv, NEW k \in Pulls("Pending"),
                      slot > pull[k].requested_slot + pool[k.pool].settle_deadline_slots
               PROVE  CanRefund(k.buyer, k.pool, k)
    BY DEF OverdueIsRefundable
  <2> DEFINE a == k.pool
             n == pool[a].pending_pulls
             f == pool[a].entry_fee
  <2>1. k \in PullKeys /\ pull[k].status = "Pending"
    BY DEF Pulls
  <2>2. a \in Admins /\ pool[a].initialized
    BY <2>1, PulledIsOpen DEF EscrowInv, LedgerInv
  <2>3. n = Cardinality(PullsOf(a, "Pending")) /\ n \in Nat /\ f \in Nat
        /\ vault[a] \in Nat
    BY <2>2 DEF EscrowInv, LedgerInv, SolvencyInv, PendingCounted, TypeInv, TypeOK,
                PoolType
  <2>4. n # 0
    <3>1. k \in PullsOf(a, "Pending")
      BY <2>1 DEF PullsOf, Pulls
    <3> QED BY <2>3, <3>1, PullsFinite, FS_EmptySet
  <2>5. vault[a] >= RentFloor + n * f
    BY <2>2 DEF EscrowInv, LedgerInv, SolvencyInv, ReservedCovered, Reserved
  <2>6. n * f = (n - 1) * f + f /\ (n - 1) * f \in Nat
    BY <2>3, <2>4, OneFeeLess
  <2>7. vault[a] >= f /\ n >= 1
    <3> DEFINE m == (n - 1) * f
    <3>1. m \in Nat /\ vault[a] >= RentFloor + (m + f)
      BY <2>5, <2>6
    <3> HIDE DEF m, n, f, a
    <3> QED BY <2>3, <2>4, <3>1, Constants
  <2> QED BY <2>1, <2>2, <2>7 DEF CanRefund, BelongsTo, IsPending, Overdue
<1>2. Spec => []EscrowInv
  BY EscrowInvInit, EscrowInvStep, PTL DEF Spec
<1> QED BY <1>1, <1>2, PTL

(***************************************************************************)
(* The draw: what select_tier selects, and how often.                      *)
(***************************************************************************)

\* The total of more weights is the total of fewer and the weight of one more.
LEMMA TotalSteps ==
  ASSUME NEW weights, NEW n \in Nat, \A i \in 1 .. n : weights[i] \in Nat
  PROVE  /\ TotalWeight(weights, 0) = 0
         /\ \A m \in 0 .. n : TotalWeight(weights, m) \in Nat
         /\ \A m \in 0 .. n - 1 :
              TotalWeight(weights, m + 1) = TotalWeight(weights, m) + weights[m + 1]
<1> DEFINE S == 1 .. n
<1>1. IsFiniteSet(S) /\ \A x \in S : weights[x] \in Nat /\ weights[x] \in Int
  BY FS_Interval
<1>2. 1 .. 0 = {} /\ \A m \in 0 .. n : 1 .. m \in SUBSET S
  OBVIOUS
<1>3. \A T \in SUBSET S : SumFunctionOnSet(weights, T) \in Nat
  <2> HIDE DEF S
  <2> QED BY <1>1, SumNat
<1>4. ASSUME NEW m \in 0 .. n - 1
      PROVE  SumFunctionOnSet(weights, 1 .. m + 1)
               = SumFunctionOnSet(weights, 1 .. m) + weights[m + 1]
  <2> DEFINE T == 1 .. m + 1
             x == m + 1
  <2>1. T \in SUBSET S /\ x \in T /\ T \ {x} = 1 .. m /\ x \in S /\ 1 .. m \in SUBSET S
    OBVIOUS
  <2>2. SumFunctionOnSet(weights, T) = weights[x] + SumFunctionOnSet(weights, T \ {x})
    <3> HIDE DEF S, T, x
    <3> QED BY <1>1, <2>1, SumOut
  <2>3. SumFunctionOnSet(weights, 1 .. m) \in Nat /\ weights[x] \in Nat
    BY <1>1, <1>3, <2>1
  <2>4. SumFunctionOnSet(weights, T) = SumFunctionOnSet(weights, 1 .. m) + weights[x]
    <3> DEFINE s == SumFunctionOnSet(weights, 1 .. m)
    <3>1. T \ {x} = 1 .. m
      BY <2>1
    <3> HIDE DEF T
    <3>2. SumFunctionOnSet(weights, T) = weights[x] + s
      BY <2>2, <3>1
    <3>3. s \in Nat /\ weights[x] \in Nat
      BY <2>3
    <3> HIDE DEF s, x
    <3>4. SumFunctionOnSet(weights, T) = s + weights[x]
      BY <3>2, <3>3
    <3> QED BY <3>4 DEF s
  <2> QED BY <2>4
<1> QED BY <1>2, <1>3, <1>4, SumEmpty DEF TotalWeight

LEMMA TotalGrows ==
  ASSUME NEW weights, NEW n \in Nat, \A i \in 1 .. n : weights[i] \in Nat,
         NEW i \in 0 .. n, NEW j \in i .. n
  PROVE  TotalWeight(weights, i) <= TotalWeight(weights, j)
<1> DEFINE Tot(k) == TotalWeight(weights, k)
           m == n - i
           G == {d \in 0 .. m : Tot(i) <= Tot(i + d)}
<1>1. /\ \A k \in 0 .. n : Tot(k) \in Nat
      /\ \A k \in 0 .. n - 1 : Tot(k + 1) = Tot(k) + weights[k + 1] /\ weights[k + 1] \in Nat
  BY TotalSteps
<1> HIDE DEF Tot
<1>2. m \in Nat
  OBVIOUS
<1>3. 0 \in G
  BY <1>1, <1>2
<1>4. ASSUME NEW d \in 0 .. m - 1, d \in G PROVE d + 1 \in G
  <2>1. /\ i + d \in 0 .. n - 1 /\ (i + d) + 1 = i + (d + 1) /\ d + 1 \in 0 .. m
        /\ i + d \in 0 .. n
    OBVIOUS
  <2>2. Tot((i + d) + 1) = Tot(i + d) + weights[(i + d) + 1]
        /\ weights[(i + d) + 1] \in Nat
    BY <1>1, <2>1
  <2>3. Tot(i) <= Tot(i + (d + 1))
    BY <1>1, <1>4, <2>1, <2>2
  <2> QED BY <2>1, <2>3
<1>5. \A d \in 0 .. m : d \in G
  <2> HIDE DEF G, m
  <2> QED BY <1>2, <1>3, <1>4, Stepwise
<1>6. j - i \in 0 .. m /\ i + (j - i) = j
  OBVIOUS
<1>7. Tot(i) <= Tot(i + (j - i))
  BY <1>5, <1>6
<1> QED BY <1>6, <1>7 DEF Tot

\* The tiers from i on whose share, or an earlier one, holds what is left of the target.
Within(weights, count, i, target) ==
  {j \in i .. count - 1 : target < TotalWeight(weights, j + 1) - TotalWeight(weights, i)}

Least(X) == IF X = {} THEN NoTier ELSE CHOOSE j \in X : \A k \in X : j <= k

LEMMA LeastIsLeast ==
  ASSUME NEW X \in SUBSET Nat, IsFiniteSet(X), X # {}
  PROVE  Least(X) \in X /\ \A k \in X : Least(X) <= k
<1>1. X \subseteq Int
  OBVIOUS
<1>2. \E j \in X : \A k \in X : j <= k
  BY <1>1, LeastMember
<1> QED BY <1>2 DEF Least

\* The loop, as a function of the tier it is at and what is left of the target.
Turns(walk, weights, count, total) ==
  walk = [i \in 0 .. count |->
           [target \in 0 .. total |->
             IF i = count THEN NoTier
             ELSE IF Takes(target, weights[i + 1]) THEN i
             ELSE walk[i + 1][Left(target, weights[i + 1])]]]

LEMMA TurnOnce ==
  ASSUME NEW weights, NEW count \in Nat, \A i \in 1 .. count : weights[i] \in Nat,
         NEW total \in Nat, NEW i \in 0 .. count - 1, NEW target \in 0 .. total
  PROVE  /\ Takes(target, weights[i + 1]) => Least(Within(weights, count, i, target)) = i
         /\ ~Takes(target, weights[i + 1]) =>
              /\ Left(target, weights[i + 1]) \in 0 .. total
              /\ Within(weights, count, i, target)
                   = Within(weights, count, i + 1, Left(target, weights[i + 1]))
<1> DEFINE Tot(k) == TotalWeight(weights, k)
           w == weights[i + 1]
           W == Within(weights, count, i, target)
<1>1. /\ \A k \in 0 .. count : Tot(k) \in Nat
      /\ Tot(i + 1) = Tot(i) + w /\ w \in Nat
      /\ i \in 0 .. count /\ i + 1 \in 0 .. count /\ i \in Nat
  BY TotalSteps
<1>2. W = {j \in i .. count - 1 : target < Tot(j + 1) - Tot(i)}
  BY DEF Within
<1>3. \A j \in i .. count - 1 : j + 1 \in 0 .. count
  OBVIOUS
<1>4. ASSUME Takes(target, w) PROVE Least(W) = i
  <2>1. i \in W
    BY <1>1, <1>2, <1>4 DEF Takes
  <2>2. \A k \in W : i <= k
    BY <1>2
  <2>3. W \in SUBSET Nat
    BY <1>1, <1>2
  <2>4. IsFiniteSet(W)
    <3>1. i \in Int /\ count - 1 \in Int /\ W \subseteq i .. count - 1
      BY <1>1, <1>2
    <3>2. IsFiniteSet(i .. count - 1)
      BY <3>1, FS_Interval
    <3> HIDE DEF W
    <3> QED BY <3>1, <3>2, FS_Subset
  <2> HIDE DEF W
  <2>5. Least(W) \in W /\ \A k \in W : Least(W) <= k
    BY <2>1, <2>3, <2>4, LeastIsLeast
  <2>6. Least(W) <= i /\ i <= Least(W) /\ Least(W) \in Nat
    BY <2>1, <2>2, <2>3, <2>5
  <2> QED BY <1>1, <2>6
<1>5. ASSUME ~Takes(target, w)
      PROVE  /\ Left(target, w) \in 0 .. total
             /\ W = Within(weights, count, i + 1, Left(target, w))
  <2> DEFINE V == {j \in i + 1 .. count - 1 : Left(target, w) < Tot(j + 1) - Tot(i + 1)}
  <2>1. Left(target, w) = target - w /\ target >= w
    BY <1>1, <1>5 DEF Takes, Left
  <2>2. V = Within(weights, count, i + 1, Left(target, w))
    BY DEF Within
  <2>3. i \notin W
    BY <1>1, <1>2, <2>1
  <2>4. \A j \in i + 1 .. count - 1 :
          (target < Tot(j + 1) - Tot(i)) <=> (Left(target, w) < Tot(j + 1) - Tot(i + 1))
    <3> HIDE DEF Tot, w
    <3> QED BY <1>1, <1>3, <2>1
  <2>5. W = V
    <3> HIDE DEF Tot, w
    <3> QED BY <1>1, <1>2, <2>3, <2>4
  <2> QED BY <1>1, <2>1, <2>2, <2>5
<1> QED BY <1>4, <1>5

LEMMA NothingWithin ==
  ASSUME NEW weights, NEW count \in Nat, NEW target
  PROVE  Least(Within(weights, count, count, target)) = NoTier
BY DEF Least, Within

LEMMA WalkExists ==
  ASSUME NEW weights, NEW count \in Nat, \A i \in 1 .. count : weights[i] \in Nat,
         NEW total \in Nat
  PROVE  \E walk : Turns(walk, weights, count, total)
<1> DEFINE L(i, t) == Least(Within(weights, count, i, t))
           walk == [i \in 0 .. count |-> [target \in 0 .. total |-> L(i, target)]]
<1>1. ASSUME NEW i \in 0 .. count, NEW target \in 0 .. total
      PROVE  L(i, target) = IF i = count THEN NoTier
                            ELSE IF Takes(target, weights[i + 1]) THEN i
                            ELSE walk[i + 1][Left(target, weights[i + 1])]
  <2>1. CASE i = count
    BY <2>1, NothingWithin
  <2>2. CASE i # count
    <3>1. i \in 0 .. count - 1 /\ i + 1 \in 0 .. count
      BY <2>2
    <3>2. CASE Takes(target, weights[i + 1])
      BY <2>2, <3>1, <3>2, TurnOnce
    <3>3. CASE ~Takes(target, weights[i + 1])
      <4> DEFINE left == Left(target, weights[i + 1])
      <4>1. left \in 0 .. total /\ L(i, target) = L(i + 1, left)
        BY <3>1, <3>3, TurnOnce
      <4>2. walk[i + 1][left] = L(i + 1, left)
        <5> HIDE DEF L, left
        <5> QED BY <3>1, <4>1
      <4> QED BY <2>2, <3>3, <4>1, <4>2
    <3> QED BY <3>2, <3>3
  <2> QED BY <2>1, <2>2
<1>2. walk = [i \in 0 .. count |->
               [target \in 0 .. total |->
                 IF i = count THEN NoTier
                 ELSE IF Takes(target, weights[i + 1]) THEN i
                 ELSE walk[i + 1][Left(target, weights[i + 1])]]]
  <2> DEFINE v == walk
  <2>1. walk = v /\ \A i \in 0 .. count, target \in 0 .. total :
          L(i, target) = IF i = count THEN NoTier
                         ELSE IF Takes(target, weights[i + 1]) THEN i
                         ELSE v[i + 1][Left(target, weights[i + 1])]
    BY <1>1
  <2> SUFFICES walk = [i \in 0 .. count |->
               [target \in 0 .. total |->
                 IF i = count THEN NoTier
                 ELSE IF Takes(target, weights[i + 1]) THEN i
                 ELSE v[i + 1][Left(target, weights[i + 1])]]]
    BY <2>1
  <2> HIDE DEF v, L
  <2> QED BY <2>1
<1>3. Turns(walk, weights, count, total)
  <2> HIDE DEF walk
  <2> QED BY <1>2 DEF Turns
<1> QED BY <1>3

\* However the loop is walked, it ends at the first tier within which the target is.
LEMMA WalkEnds ==
  ASSUME NEW weights, NEW count \in Nat, \A i \in 1 .. count : weights[i] \in Nat,
         NEW total \in Nat, NEW walk, Turns(walk, weights, count, total),
         NEW target \in 0 .. total
  PROVE  walk[0][target] = Least(Within(weights, count, 0, target))
<1> DEFINE L(i, t) == Least(Within(weights, count, i, t))
           G == {n \in 0 .. count : \A t \in 0 .. total : walk[count - n][t] = L(count - n, t)}
<1>1. ASSUME NEW i \in 0 .. count, NEW t \in 0 .. total
      PROVE  walk[i][t] = IF i = count THEN NoTier
                          ELSE IF Takes(t, weights[i + 1]) THEN i
                          ELSE walk[i + 1][Left(t, weights[i + 1])]
  <2> DEFINE v == [j \in 0 .. count |->
           [x \in 0 .. total |->
             IF j = count THEN NoTier
             ELSE IF Takes(x, weights[j + 1]) THEN j
             ELSE walk[j + 1][Left(x, weights[j + 1])]]]
  <2>1. walk = v
    BY DEF Turns
  <2>2. v[i][t] = IF i = count THEN NoTier
                  ELSE IF Takes(t, weights[i + 1]) THEN i
                  ELSE walk[i + 1][Left(t, weights[i + 1])]
    OBVIOUS
  <2> HIDE DEF v
  <2> QED BY <2>1, <2>2
<1>2. 0 \in G
  <2>1. count - 0 = count /\ 0 \in 0 .. count /\ count \in 0 .. count
    OBVIOUS
  <2> QED BY <1>1, <2>1, NothingWithin
<1>3. ASSUME NEW n \in 0 .. count - 1, n \in G PROVE n + 1 \in G
  <2> DEFINE i == count - (n + 1)
  <2>1. i \in 0 .. count - 1 /\ i \in 0 .. count /\ i # count /\ i + 1 = count - n
        /\ n + 1 \in 0 .. count
    OBVIOUS
  <2> HIDE DEF i
  <2>2. ASSUME NEW t \in 0 .. total PROVE walk[i][t] = L(i, t)
    <3>1. CASE Takes(t, weights[i + 1])
      BY <1>1, <2>1, <3>1, TurnOnce
    <3>2. CASE ~Takes(t, weights[i + 1])
      <4> DEFINE left == Left(t, weights[i + 1])
      <4>1. left \in 0 .. total /\ L(i, t) = L(i + 1, left)
        BY <2>1, <3>2, TurnOnce
      <4>2. walk[i][t] = walk[i + 1][left]
        BY <1>1, <2>1, <3>2
      <4>3. walk[i + 1][left] = L(i + 1, left)
        <5> HIDE DEF left, L
        <5> QED BY <1>3, <2>1, <4>1
      <4> QED BY <4>1, <4>2, <4>3
    <3> QED BY <3>1, <3>2
  <2> QED BY <2>1, <2>2 DEF i
<1>4. \A n \in 0 .. count : n \in G
  <2> HIDE DEF G
  <2> QED BY <1>2, <1>3, Stepwise
<1>5. count \in G /\ count - count = 0
  BY <1>4
<1> QED BY <1>5

\* select_tier takes each tier for exactly the targets in its share of the total weight,
\* and fails only when there is no weight at all: its loop never runs past the last tier.
THEOREM SelectsByShare ==
  ASSUME NEW weights, \A i \in 1 .. MAX_TIERS : weights[i] \in Nat,
         NEW tier_count \in Nat, NEW beta \in Nat
  PROVE  LET count == Smaller(tier_count, MAX_TIERS)
             total == TotalWeight(weights, count)
             tier == SelectTier(beta, weights, tier_count)
         IN  IF total = 0 THEN tier = NoTier
             ELSE /\ tier \in 0 .. count - 1
                  /\ \A t \in 0 .. count - 1 : (t = tier) <=> InShare(t, beta % total, weights)
<1> DEFINE count == Smaller(tier_count, MAX_TIERS)
           total == TotalWeight(weights, count)
           tier == SelectTier(beta, weights, tier_count)
           target == beta % total
           Tot(k) == TotalWeight(weights, k)
           W == Within(weights, count, 0, target)
<1>1. count \in Nat /\ \A i \in 1 .. count : weights[i] \in Nat
  BY MaxTiersAssumption DEF Smaller
<1>2. total \in Nat /\ Tot(0) = 0 /\ (\A k \in 0 .. count : Tot(k) \in Nat)
  <2> HIDE DEF count
  <2>1. count \in 0 .. count
    BY <1>1
  <2> QED BY <1>1, <2>1, TotalSteps
<1>3. CASE total = 0
  BY <1>3 DEF SelectTier
<1>4. CASE total # 0
  <2>1. target \in 0 .. total /\ target < total /\ target \in Nat
    <3> HIDE DEF total
    <3> QED BY <1>2, <1>4
  <2>2. tier = Least(W)
    <3> DEFINE walk == CHOOSE walk : Turns(walk, weights, count, total)
    <3>1. tier = walk[0][target]
      BY <1>4 DEF SelectTier, Turns
    <3>2. Turns(walk, weights, count, total)
      <4> HIDE DEF count, total
      <4> QED BY <1>1, <1>2, WalkExists
    <3> HIDE DEF walk, count, total, target, tier, W, Tot
    <3>3. walk[0][target] = Least(Within(weights, count, 0, target))
      <4>1. count \in Nat /\ total \in Nat /\ target \in 0 .. total
        BY <1>1, <1>2, <2>1
      <4>2. \A i \in 1 .. count : weights[i] \in Nat
        BY <1>1
      <4> QED BY <3>2, <4>1, <4>2, WalkEnds
    <3> QED BY <3>1, <3>3 DEF W
  <2>3. W = {j \in 0 .. count - 1 : target < Tot(j + 1)}
    <3>1. W = {j \in 0 .. count - 1 : target < Tot(j + 1) - Tot(0)}
      BY DEF Within
    <3>2. \A j \in 0 .. count - 1 : Tot(j + 1) - Tot(0) = Tot(j + 1)
      <4> HIDE DEF Tot, count
      <4> QED BY <1>1, <1>2
    <3> HIDE DEF W, Tot, count, target
    <3> QED BY <3>1, <3>2
  <2> HIDE DEF tier, target
  <2>4. count - 1 \in W
    <3>1. total = Tot(count)
      OBVIOUS
    <3>2. count # 0
      BY <1>2, <1>4
    <3> HIDE DEF W, Tot, count, total
    <3> QED BY <1>1, <2>1, <2>3, <3>1, <3>2
  <2>5. W \in SUBSET Nat /\ IsFiniteSet(W)
    <3>1. IsFiniteSet(0 .. count - 1) /\ W \subseteq 0 .. count - 1
      <4> HIDE DEF count, W
      <4> QED BY <1>1, <2>3, FS_Interval
    <3>2. W \in SUBSET Nat
      BY <3>1
    <3> HIDE DEF W
    <3>3. IsFiniteSet(W)
      BY <3>1, FS_Subset
    <3> QED BY <3>2, <3>3
  <2>6. tier \in W /\ \A k \in W : tier <= k
    <3> HIDE DEF W
    <3> QED BY <2>2, <2>4, <2>5, LeastIsLeast
  <2> HIDE DEF W, Tot, count, total
  <2>7. tier \in 0 .. count - 1 /\ target < Tot(tier + 1)
    BY <2>3, <2>6
  <2>8. Tot(tier) <= target
    <3>1. CASE tier = 0
      BY <1>2, <2>1, <3>1
    <3>2. CASE tier # 0
      <4>1. tier - 1 \in 0 .. count - 1 /\ (tier - 1) + 1 = tier /\ tier \in 0 .. count
            /\ ~(tier <= tier - 1)
        BY <1>1, <2>7, <3>2
      <4>2. tier - 1 \notin W
        BY <2>6, <4>1
      <4>3. ~(target < Tot((tier - 1) + 1))
        BY <2>3, <4>1, <4>2
      <4> QED BY <1>2, <2>1, <4>1, <4>3
    <3> QED BY <3>1, <3>2
  <2>9. ASSUME NEW t \in 0 .. count - 1
        PROVE  (t = tier) <=> (Tot(t) <= target /\ target < Tot(t + 1))
    <3>1. ASSUME Tot(t) <= target, target < Tot(t + 1), t # tier PROVE FALSE
      <4>1. CASE t < tier
        <5>1. t \in W
          BY <2>3, <3>1
        <5> QED BY <1>1, <2>6, <2>7, <4>1, <5>1
      <4>2. CASE t > tier
        <5>1. tier + 1 \in 0 .. count /\ t \in (tier + 1) .. count /\ t \in 0 .. count
          BY <1>1, <2>7, <4>2
        <5>2. Tot(tier + 1) <= Tot(t)
          BY <1>1, <5>1, TotalGrows DEF Tot
        <5> QED BY <1>2, <2>1, <2>7, <3>1, <5>1, <5>2
      <4> QED BY <1>1, <2>7, <3>1, <4>1, <4>2
    <3> QED BY <2>7, <2>8, <3>1
  <2>10. \A t \in 0 .. count - 1 : (t = tier) <=> InShare(t, target, weights)
    BY <2>9 DEF InShare, Tot
  <2> QED BY <1>4, <2>7, <2>10 DEF tier, count, total, target
<1> QED BY <1>3, <1>4

\* The odds are the weights: of the targets that a VRF output can be reduced to, a tier
\* is selected for just as many as its weight says (doc comment of select_tier).
THEOREM OddsAreTheWeights ==
  ASSUME NEW weights, \A i \in 1 .. MAX_TIERS : weights[i] \in Nat,
         NEW tier_count \in Nat, NEW t \in 0 .. Smaller(tier_count, MAX_TIERS) - 1
  PROVE  LET total == TotalWeight(weights, Smaller(tier_count, MAX_TIERS))
         IN  Cardinality({target \in 0 .. total - 1 :
                            SelectTier(target, weights, tier_count) = t}) = weights[t + 1]
<1> DEFINE count == Smaller(tier_count, MAX_TIERS)
           total == TotalWeight(weights, count)
           Tot(k) == TotalWeight(weights, k)
           chosen == {target \in 0 .. total - 1 : SelectTier(target, weights, tier_count) = t}
           w == weights[t + 1]
<1>1. count \in Nat /\ \A i \in 1 .. count : weights[i] \in Nat
  BY MaxTiersAssumption DEF Smaller
<1>2. t \in 0 .. count - 1
  OBVIOUS
<1>3. /\ total \in Nat /\ Tot(t) \in Nat /\ Tot(t + 1) = Tot(t) + w /\ w \in Nat
      /\ Tot(t + 1) <= total
  <2> HIDE DEF count
  <2>1. count \in 0 .. count /\ t \in 0 .. count /\ t + 1 \in 0 .. count /\ t + 1 \in 1 .. count
        /\ count \in (t + 1) .. count
    BY <1>1, <1>2
  <2> QED BY <1>1, <1>2, <2>1, TotalSteps, TotalGrows
<1>4. ASSUME NEW target \in 0 .. total - 1
      PROVE  (SelectTier(target, weights, tier_count) = t)
               <=> (Tot(t) <= target /\ target < Tot(t + 1))
  <2>1. target \in Nat /\ total # 0 /\ target % total = target
    <3> HIDE DEF total
    <3> QED BY <1>3
  <2>2. (t = SelectTier(target, weights, tier_count)) <=> InShare(t, target % total, weights)
    BY <1>2, <2>1, SelectsByShare
  <2> HIDE DEF total
  <2> QED BY <2>1, <2>2 DEF InShare
<1>5. chosen = Tot(t) .. (Tot(t + 1) - 1)
  <2>1. chosen = {target \in 0 .. total - 1 : Tot(t) <= target /\ target < Tot(t + 1)}
    <3> HIDE DEF total, Tot
    <3> QED BY <1>4
  <2> HIDE DEF chosen, total, Tot, w
  <2> QED BY <1>3, <2>1
<1>6. Cardinality(chosen) = w
  <2> HIDE DEF chosen, total, Tot, w
  <2>1. Tot(t) \in Int /\ Tot(t + 1) - 1 \in Int
    BY <1>3
  <2>2. Cardinality(chosen) =
          IF Tot(t) > Tot(t + 1) - 1 THEN 0 ELSE (Tot(t + 1) - 1) - Tot(t) + 1
    BY <1>5, <2>1, FS_Interval
  <2> QED BY <1>3, <2>2
<1> QED BY <1>6

\* What is drawn from in GameRules: weights that init_pool accepts.
DrawOK ==
  rules = "draw" =>
    /\ tiers \in 1 .. MAX_TIERS /\ output \in Nat
    /\ odds \in [1 .. MAX_TIERS -> 0 .. MaxWeight]
    /\ \A i \in 1 .. MAX_TIERS : (i <= tiers) <=> (odds[i] # 0)

\* Whatever the weights and however often it is drawn: every VRF output selects the tier
\* whose interval of the running sums of the weights holds the reduced output.
THEOREM DrawsByInterval == RulesSpec => []SelectsByInterval
<1>1. RulesInit => DrawOK
  BY DEF RulesInit, DrawOK
<1>2. DrawOK /\ [RulesNext]_rulesVars => DrawOK'
  BY DEF DrawOK, RulesNext, Draw, Change, rulesVars
<1>3. DrawOK => SelectsByInterval
  <2> SUFFICES ASSUME DrawOK, rules = "draw"
               PROVE  SelectTier(output, odds, tiers) = ReferenceTier(output)
    BY DEF SelectsByInterval
  <2> DEFINE tier == SelectTier(output, odds, tiers)
             Tot(k) == TotalWeight(odds, k)
  <2>1. /\ tiers \in 1 .. MAX_TIERS /\ tiers \in Nat /\ output \in Nat
        /\ \A i \in 1 .. MAX_TIERS : odds[i] \in Nat
        /\ odds[1] # 0 /\ MAX_TIERS \in Nat
    BY MaxTiersAssumption, RulesAssumption DEF DrawOK
  <2>2. Smaller(tiers, MAX_TIERS) = tiers
    BY <2>1 DEF Smaller
  <2>3. Tot(tiers) \in Nat /\ Tot(tiers) # 0
    <3>1. \A i \in 1 .. tiers : odds[i] \in Nat
      BY <2>1
    <3>2. Tot(0) = 0 /\ Tot(tiers) \in Nat /\ Tot(0 + 1) = Tot(0) + odds[0 + 1]
      <4>1. 0 \in 0 .. tiers - 1 /\ tiers \in 0 .. tiers
        BY <2>1
      <4> QED BY <2>1, <3>1, <4>1, TotalSteps
    <3>3. Tot(1) <= Tot(tiers)
      <4>1. 1 \in 0 .. tiers /\ tiers \in 1 .. tiers
        BY <2>1
      <4> QED BY <2>1, <3>1, <4>1, TotalGrows
    <3> HIDE DEF Tot
    <3>4. odds[1] \in Nat /\ Tot(1) = odds[1]
      BY <2>1, <3>2
    <3> QED BY <2>1, <3>2, <3>3, <3>4
  <2>4. /\ tier \in 0 .. tiers - 1
        /\ \A t \in 0 .. tiers - 1 : (t = tier) <=> InShare(t, output % Tot(tiers), odds)
    BY <2>1, <2>2, <2>3, SelectsByShare
  <2>5. ReferenceTier(output)
          = CHOOSE t \in 0 .. tiers - 1 : InShare(t, output % Tot(tiers), odds)
    BY DEF ReferenceTier, TotalOdds
  <2> HIDE DEF tier, Tot
  <2>6. ReferenceTier(output) = tier
    BY <2>4, <2>5
  <2> QED BY <2>6 DEF tier
<1> QED BY <1>1, <1>2, <1>3, PTL DEF RulesSpec
=============================================================================
