------------------------------- MODULE Gacha --------------------------------
(***************************************************************************)
(* The gacha program of games/gacha/pinocchio/program: admins open pools,  *)
(* buyers escrow an entry fee in a pool's vault for a pull, the pool's     *)
(* operator reveals a VRF output for it (anchored once in the external     *)
(* cc-vrf registry), the buyer takes the fee back when no reveal came      *)
(* before the deadline, and anyone mints the prize of a revealed pull.     *)
(*                                                                         *)
(* One action is one instruction.  The runtime executes an instruction     *)
(* atomically and undoes all of it when any of its checks or CPIs fails,   *)
(* so an error return is an action that is not enabled.  What is           *)
(* interleaved are the instructions of different signers, the clock, the   *)
(* registry and transfers made from outside.                               *)
(***************************************************************************)
EXTENDS TierSelect, FiniteSets, Functions

CONSTANTS
  Wallets,          \* system accounts that can sign
  Admins,           \* the wallets that may open a pool
  Buyers,           \* the wallets that may buy pulls
  Operators,        \* the wallets whose address is a valid curve point
  PoolConfigs,      \* the arguments tried for init_pool, invalid ones too
  Betas,            \* VRF outputs
  Givers,           \* bound: the wallets that send lamports from outside
  Endowment,        \* lamports of each wallet at the start
  RentFloor,        \* rent minimum of an account without data (the vault)
  PoolRent,         \* rent minimum of a pool account
  PullRent,         \* rent minimum of a pull account
  MaxSlot,          \* bound: the clock stops here
  MaxPulls          \* bound: pulls sold by one pool

ASSUME GachaAssumption ==
  /\ Admins \subseteq Wallets /\ Buyers \subseteq Wallets
  /\ Operators \subseteq Wallets /\ Givers \subseteq Wallets
  /\ IsFiniteSet(Wallets)
  /\ Betas \subseteq Nat
  /\ Endowment \in [Wallets -> Nat]
  /\ RentFloor \in Nat /\ PoolRent \in Nat /\ PullRent \in Nat
  /\ MaxSlot \in Nat /\ MaxPulls \in Nat
  /\ \A c \in PoolConfigs :
       c \in [operator: Wallets, entry_fee: Nat, settle_deadline_slots: Nat,
              tier_count: Nat, weights: Seq(Nat)]

VARIABLES
  slot,             \* Clock::get()?.slot
  pool,             \* the pool account of each admin
  vault,            \* lamports at each admin's vault address
  pull,             \* the data of each pull account
  pullLamports,     \* lamports at each pull address
  wallet,           \* lamports of each wallet
  registry,         \* cc-vrf: the reveals committed, one address per pull
  revoked,          \* cc-vrf: operators whose authority record was revoked
  prizes,           \* Token-2022: the prize mints, with their only holder
  surplus,          \* history: lamports outsiders added to a vault's revenue
  withdrawn         \* history: lamports each admin took out

vars == <<slot, pool, vault, pull, pullLamports, wallet, registry, revoked,
          prizes, surplus, withdrawn>>

\* A pull address: the seeds of its PDA.
PullKeys == [pool: Admins, buyer: Buyers, index: 0 .. MaxPulls - 1]

PullStatus == {"Pending", "Settled", "Claimed"}

\* An account whose data_len is 0.
NoPool == [initialized |-> FALSE, operator |-> CHOOSE w \in Wallets : TRUE,
           entry_fee |-> 0, settle_deadline_slots |-> 0, tier_count |-> 0,
           weights |-> <<>>, pulls_count |-> 0, pending_pulls |-> 0]
NoPull == [status |-> "Absent", tier_selected |-> TIER_UNSET, beta |-> 0,
           requested_slot |-> 0]

PoolType == [initialized: BOOLEAN, operator: Wallets, entry_fee: Nat,
             settle_deadline_slots: Nat, tier_count: Nat, weights: Seq(Nat),
             pulls_count: Nat, pending_pulls: Nat]
PullType == [status: PullStatus \cup {"Absent"},
             tier_selected: Tier \cup {TIER_UNSET}, beta: Nat,
             requested_slot: Nat]

Pulls(status) == {k \in PullKeys : pull[k].status = status}
PullsOf(a, status) == {k \in Pulls(status) : k.pool = a}

\* What create_pda_account takes from the payer: the full rent for an empty
\* address, the missing part for one that already holds lamports.
TopUp(held, rent) == IF held < rent THEN rent - held ELSE 0

-----------------------------------------------------------------------------
(* Slips: each definition of this section is a wrong form of the one its      *)
(* comment names, a mistake the code could have made.  No action uses them;   *)
(* the README says how they test the properties.                              *)

\* ValidOperator: the curve check is missing.
ValidOperatorOffCurve(a, c) == c.operator # a
\* BelongsTo: a pull account of any pool is accepted.
BelongsToAny(k, a) == TRUE
\* IsPending: a settled pull is taken for a pending one.
IsPendingOrLater(k) == pull[k].status # "Absent"
\* EndPending: the counter is forgotten.
LeavePending(a) == UNCHANGED pool
\* NextIndex: the wrong counter numbers the pulls.
NextIndexByPending(a) == pool[a].pending_pulls
\* Revealed: the beta is not recorded.
RevealedKeepingBeta(k, beta, tier) ==
  [pull[k] EXCEPT !.status = "Settled", !.tier_selected = tier]
\* Overdue: the comparison is the wrong way round.
NotYetOverdue(a, k) ==
  slot <= pull[k].requested_slot + pool[a].settle_deadline_slots
\* Overdue: the deadline slot itself is taken for late.
OverdueInclusive(a, k) ==
  slot >= pull[k].requested_slot + pool[a].settle_deadline_slots
\* Refund: the rent of the closed account is lost.
RefundFeeOnly(a, k) == pool[a].entry_fee
\* HasLabel: off by one.
HasLabelBelowTop(tier) == tier < MAX_TIERS - 1
\* MarkClaimed: the status is not written back.
StaySettled(k) == UNCHANGED pull
\* Reserved: the fees of pending pulls are left out.
ReservedRentOnly(a) == RentFloor
\* Reserved: the rent of the vault is left out.
ReservedFeesOnly(a) == pool[a].pending_pulls * pool[a].entry_fee

-----------------------------------------------------------------------------

Init ==
  /\ slot = 0
  /\ pool = [a \in Admins |-> NoPool]
  /\ vault = [a \in Admins |-> 0]
  /\ pull = [k \in PullKeys |-> NoPull]
  /\ pullLamports = [k \in PullKeys |-> 0]
  /\ wallet = Endowment
  /\ registry = {}
  /\ revoked = {}
  /\ prizes = {}
  /\ surplus = [a \in Admins |-> 0]
  /\ withdrawn = [a \in Admins |-> 0]

\* init_pool: admin a opens its pool with arguments c.
ValidTiers(c) ==
  /\ c.tier_count \in 1 .. MAX_TIERS
  /\ \A i \in 1 .. MAX_TIERS : (i <= c.tier_count) <=> (c.weights[i] # 0)

ValidOperator(a, c) == c.operator # a /\ c.operator \in Operators

InitPool(a, c) ==
  LET cost == PoolRent + TopUp(vault[a], RentFloor)
      held == vault[a] + TopUp(vault[a], RentFloor)
  IN
  /\ ValidTiers(c)
  /\ c.entry_fee # 0
  /\ c.settle_deadline_slots # 0
  /\ ValidOperator(a, c)
  /\ ~pool[a].initialized
  /\ wallet[a] >= cost
  /\ pool' = [pool EXCEPT ![a] =
       [initialized |-> TRUE, operator |-> c.operator,
        entry_fee |-> c.entry_fee,
        settle_deadline_slots |-> c.settle_deadline_slots,
        tier_count |-> c.tier_count, weights |-> c.weights,
        pulls_count |-> 0, pending_pulls |-> 0]]
  /\ wallet' = [wallet EXCEPT ![a] = @ - cost]
  /\ vault' = [vault EXCEPT ![a] = held]
  /\ surplus' = [surplus EXCEPT ![a] = held - RentFloor]
  /\ UNCHANGED <<slot, pull, pullLamports, registry, revoked, prizes,
                 withdrawn>>

\* The checks instructions share: the pull account belongs to the pool account
\* passed with it, and it is pending.
BelongsTo(k, a) == k.pool = a

IsPending(k) == pull[k].status = "Pending"

\* A pending pull is over: settled or refunded.
EndPending(a) ==
  /\ pool[a].pending_pulls >= 1
  /\ pool' = [pool EXCEPT ![a].pending_pulls = @ - 1]

\* buy_pull: buyer k.buyer opens the pull at address k of pool a.  The bounds
\* leave the clock room to pass the pull's deadline.
NextIndex(a) == pool[a].pulls_count

BuyPull(a, k) ==
  LET topUp == TopUp(pullLamports[k], PullRent)
      cost == topUp + pool[a].entry_fee
  IN
  /\ slot + pool[a].settle_deadline_slots < MaxSlot
  /\ pool[a].initialized
  /\ k.pool = a /\ k.index = NextIndex(a)
  /\ pull[k].status = "Absent"
  /\ wallet[k.buyer] >= cost
  /\ pull' = [pull EXCEPT ![k] =
       [status |-> "Pending", tier_selected |-> TIER_UNSET, beta |-> 0,
        requested_slot |-> slot]]
  /\ pullLamports' = [pullLamports EXCEPT ![k] = @ + topUp]
  /\ wallet' = [wallet EXCEPT ![k.buyer] = @ - cost]
  /\ vault' = [vault EXCEPT ![a] = @ + pool[a].entry_fee]
  /\ pool' = [pool EXCEPT ![a].pulls_count = @ + 1,
                          ![a].pending_pulls = @ + 1]
  /\ UNCHANGED <<slot, registry, revoked, prizes, surplus, withdrawn>>

\* cc-vrf commit_proof_with_beta: the address of a commit is derived from the
\* authority and the pull, a second commit at it fails, and the authority's
\* record must still be frozen and not revoked.
CanCommit(operator, k) ==
  /\ operator \notin revoked
  /\ \A c \in registry : ~(c.authority = operator /\ c.pull = k)

Commit(operator, k, beta) ==
  registry' = registry \cup {[authority |-> operator, pull |-> k, beta |-> beta]}

\* Pull::settle.
Revealed(k, beta, tier) ==
  [pull[k] EXCEPT !.status = "Settled", !.tier_selected = tier, !.beta = beta]

\* settle_pull: operator w of pool a reveals beta for pull k.
SettlePull(w, a, k, beta) ==
  LET tier == SelectTier(beta, pool[a].weights, pool[a].tier_count)
  IN
  /\ pool[a].initialized
  /\ w = pool[a].operator
  /\ IsPending(k)
  /\ BelongsTo(k, a)
  /\ CanCommit(w, k)
  /\ tier \in Tier
  /\ Commit(w, k, beta)
  /\ EndPending(a)
  /\ pull' = [pull EXCEPT ![k] = Revealed(k, beta, tier)]
  /\ UNCHANGED <<slot, vault, pullLamports, wallet, revoked, prizes, surplus,
                 withdrawn>>

\* refund_pull: buyer b closes its overdue pull k of pool a.
Overdue(a, k) == slot > pull[k].requested_slot + pool[a].settle_deadline_slots

Refund(a, k) == pool[a].entry_fee + pullLamports[k]

CanRefund(b, a, k) ==
  /\ pool[a].initialized
  /\ BelongsTo(k, a)
  /\ k.buyer = b
  /\ IsPending(k)
  /\ Overdue(a, k)
  /\ vault[a] >= pool[a].entry_fee
  /\ pool[a].pending_pulls >= 1

RefundPull(b, a, k) ==
  /\ CanRefund(b, a, k)
  /\ vault' = [vault EXCEPT ![a] = @ - pool[a].entry_fee]
  /\ wallet' = [wallet EXCEPT ![b] = @ + Refund(a, k)]
  /\ pullLamports' = [pullLamports EXCEPT ![k] = 0]
  /\ pull' = [pull EXCEPT ![k] = NoPull]
  /\ EndPending(a)
  /\ UNCHANGED <<slot, registry, revoked, prizes, surplus, withdrawn>>

\* claim_prize: anyone mints the prize of pull k to buyer b.  The mint is a new
\* account at an address of the pull, so it must not exist; its authority is
\* given up in the same instruction.  The payer's rent is not tracked.
HasLabel(tier) == tier < MAX_TIERS

MintPrize(b, k) ==
  /\ \A p \in prizes : p.pull # k
  /\ prizes' = prizes \cup {[pull |-> k, owner |-> b,
                             rarity |-> pull[k].tier_selected]}

MarkClaimed(k) == pull' = [pull EXCEPT ![k].status = "Claimed"]

ClaimPrize(a, b, k) ==
  /\ pool[a].initialized
  /\ pull[k].status = "Settled"
  /\ BelongsTo(k, a)
  /\ k.buyer = b
  /\ HasLabel(pull[k].tier_selected)
  /\ MintPrize(b, k)
  /\ MarkClaimed(k)
  /\ UNCHANGED <<slot, pool, vault, pullLamports, wallet, registry, revoked,
                 surplus, withdrawn>>

\* withdraw_fees: admin w takes amount out of the vault of pool a.
Reserved(a) == RentFloor + pool[a].pending_pulls * pool[a].entry_fee

WithdrawFees(w, a, amount) ==
  /\ pool[a].initialized
  /\ w = a
  /\ amount # 0
  /\ vault[a] >= Reserved(a) + amount
  /\ vault' = [vault EXCEPT ![a] = @ - amount]
  /\ wallet' = [wallet EXCEPT ![w] = @ + amount]
  /\ withdrawn' = [withdrawn EXCEPT ![a] = @ + amount]
  /\ UNCHANGED <<slot, pool, pull, pullLamports, registry, revoked, prizes,
                 surplus>>

-----------------------------------------------------------------------------
(* The surroundings. *)

\* The clock sysvar moves on.
Tick ==
  /\ slot < MaxSlot
  /\ slot' = slot + 1
  /\ UNCHANGED <<pool, vault, pull, pullLamports, wallet, registry, revoked,
                 prizes, surplus, withdrawn>>

\* An operator calls cc-vrf itself, for a pull it has not settled or that is
\* not even sold yet: the registry does not know the gacha program.
CommitOutside(w, k, beta) ==
  /\ w \in Operators
  /\ pool[k.pool].initialized /\ pool[k.pool].operator = w
  /\ CanCommit(w, k)
  /\ Commit(w, k, beta)
  /\ UNCHANGED <<slot, pool, vault, pull, pullLamports, wallet, revoked,
                 prizes, surplus, withdrawn>>

\* The registry revokes the authority record of operator w.
RevokeAuthority(w) ==
  /\ w \in Operators \ revoked
  /\ revoked' = revoked \cup {w}
  /\ UNCHANGED <<slot, pool, vault, pull, pullLamports, wallet, registry,
                 prizes, surplus, withdrawn>>

\* Anyone may send lamports to any address, before its account exists or
\* after.  The runtime refuses to leave an account below its rent minimum.
GiveVault(w, a, n) ==
  /\ n \in 1 .. wallet[w]
  /\ vault[a] + n >= RentFloor
  /\ wallet' = [wallet EXCEPT ![w] = @ - n]
  /\ vault' = [vault EXCEPT ![a] = @ + n]
  /\ surplus' =
       [surplus EXCEPT ![a] = IF pool[a].initialized THEN @ + n ELSE @]
  /\ UNCHANGED <<slot, pool, pull, pullLamports, registry, revoked, prizes,
                 withdrawn>>

GivePull(w, k, n) ==
  /\ n \in 1 .. wallet[w]
  /\ pullLamports[k] + n >= RentFloor
  /\ wallet' = [wallet EXCEPT ![w] = @ - n]
  /\ pullLamports' = [pullLamports EXCEPT ![k] = @ + n]
  /\ UNCHANGED <<slot, pool, vault, pull, registry, revoked, prizes, surplus,
                 withdrawn>>

-----------------------------------------------------------------------------

Next ==
  \/ \E a \in Admins, c \in PoolConfigs : InitPool(a, c)
  \/ \E a \in Admins, k \in PullKeys : BuyPull(a, k)
  \/ \E w \in Wallets, a \in Admins, k \in PullKeys, beta \in Betas :
       SettlePull(w, a, k, beta)
  \/ \E b \in Wallets, a \in Admins, k \in PullKeys : RefundPull(b, a, k)
  \/ \E a \in Admins, b \in Wallets, k \in PullKeys : ClaimPrize(a, b, k)
  \/ \E w \in Wallets, a \in Admins : \E amount \in 0 .. vault[a] :
       WithdrawFees(w, a, amount)
  \/ Tick
  \/ \E w \in Operators, k \in PullKeys, beta \in Betas :
       CommitOutside(w, k, beta)
  \/ \E w \in Operators : RevokeAuthority(w)
  \/ \E w \in Givers, a \in Admins : \E n \in 1 .. wallet[w] : GiveVault(w, a, n)
  \/ \E w \in Givers, k \in PullKeys : \E n \in 1 .. wallet[w] : GivePull(w, k, n)

Spec == Init /\ [][Next]_vars

\* The clock never stops, a buyer asks for an overdue refund, and somebody
\* cranks the claim of a settled pull.  Nothing is assumed of the operator.
Fairness ==
  /\ WF_vars(Tick)
  /\ \A k \in PullKeys : WF_vars(RefundPull(k.buyer, k.pool, k))
  /\ \A k \in PullKeys : WF_vars(ClaimPrize(k.pool, k.buyer, k))

FairSpec == Spec /\ Fairness

-----------------------------------------------------------------------------
(* Safety. *)

\* A pull carries a tier exactly once it is revealed ("TIER_UNSET while pending").
TierOnceRevealed ==
  \A k \in PullKeys :
    (pull[k].tier_selected = TIER_UNSET) <=> (pull[k].status \in {"Absent", "Pending"})

\* Every variable holds a value of its type; a pull carries a tier exactly once it is
\* revealed.
TypeOK ==
  /\ slot \in 0 .. MaxSlot
  /\ pool \in [Admins -> PoolType]
  /\ vault \in [Admins -> Nat]
  /\ pull \in [PullKeys -> PullType] /\ TierOnceRevealed
  /\ pullLamports \in [PullKeys -> Nat]
  /\ wallet \in [Wallets -> Nat]
  /\ registry \subseteq [authority: Operators, pull: PullKeys, beta: Betas]
  /\ revoked \subseteq Operators
  /\ prizes \subseteq [pull: PullKeys, owner: Buyers, rarity: Tier]
  /\ surplus \in [Admins -> Nat]
  /\ withdrawn \in [Admins -> Nat]

\* A pool's two counters describe its accounts: pending_pulls is the number of
\* its pull accounts that are pending, and every pull account it ever sold has
\* an index below pulls_count, each index at most one account (buy_pull,
\* settle_pull and refund_pull each adjust a counter away from the accounts).
CountersMatchAccounts ==
  \A a \in Admins :
    /\ pool[a].pending_pulls = Cardinality(PullsOf(a, "Pending"))
    /\ \A k \in PullKeys :
         k.pool = a /\ pull[k].status # "Absent"
           => /\ k.index < pool[a].pulls_count
              /\ \A l \in PullKeys :
                   l.pool = a /\ l.index = k.index /\ l # k
                     => pull[l].status = "Absent"

\* The vault of every pool covers its rent and the fee of every pending pull,
\* whatever was bought, revealed, refunded and withdrawn, in whatever order and
\* in whichever of the pools (the promise of the Pool struct's comment).
VaultSolvent ==
  \A a \in Admins : pool[a].initialized =>
    vault[a] >= RentFloor
                + Cardinality(PullsOf(a, "Pending")) * pool[a].entry_fee

\* The admin never takes more than the fees of revealed pulls and what
\* outsiders sent: what a vault holds is accounted for to the lamport
\* (withdraw_fees against buy_pull, settle_pull and refund_pull).
OnlyRevenueWithdrawn ==
  \A a \in Admins : pool[a].initialized =>
    LET revealed == PullsOf(a, "Settled") \cup PullsOf(a, "Claimed")
        pending == PullsOf(a, "Pending")
        fee == pool[a].entry_fee
    IN  /\ vault[a] + withdrawn[a] =
             RentFloor + surplus[a]
             + (Cardinality(revealed) + Cardinality(pending)) * fee
        /\ withdrawn[a] <= Cardinality(revealed) * fee + surplus[a]

\* No instruction creates or destroys lamports: the balances set directly by
\* refund_pull and withdraw_fees add up with those moved by the system program
\* (an instruction that does not balance would be aborted by the runtime every
\* time it is tried).
LamportsConserved ==
  SumFunction(wallet) + SumFunction(vault) + SumFunction(pullLamports)
    + PoolRent * Cardinality({a \in Admins : pool[a].initialized})
  = SumFunction(Endowment)

\* Counters against accounts, balances against each other.
AccountsAddUp == CountersMatchAccounts /\ LamportsConserved

\* A revealed pull agrees with the registry: the beta it records is the one its
\* pool's operator committed for it, there is no other commit of that operator
\* for it, and its tier is the draw of that beta (settle_pull against commits
\* made outside of the program, before the pull is bought or after).
RevealMatchesRegistry ==
  \A k \in PullKeys : pull[k].status \in {"Settled", "Claimed"} =>
    LET own == {c \in registry :
                  c.pull = k /\ c.authority = pool[k.pool].operator}
    IN  /\ {c.beta : c \in own} = {pull[k].beta}
        /\ pull[k].tier_selected =
             SelectTier(pull[k].beta, pool[k.pool].weights,
                        pool[k.pool].tier_count)

\* A prize exists exactly for the claimed pulls, one each, with the rarity of
\* the pull's tier and in the hands of the pull's buyer, whoever cranked it.
OnePrizePerClaim ==
  /\ {p.pull : p \in prizes} = Pulls("Claimed")
  /\ \A p, q \in prizes : p.pull = q.pull => p = q
  /\ \A p \in prizes : /\ p.owner = p.pull.buyer
                        /\ p.rarity = pull[p.pull].tier_selected

\* A buyer can always get out: once the deadline of a pending pull has passed
\* its refund cannot be refused, whatever the admin withdrew and the operator
\* committed (refund_pull's InsufficientVaultFunds and ArithmeticOverflow
\* returns are unreachable).
OverdueIsRefundable ==
  \A k \in Pulls("Pending") :
    slot > pull[k].requested_slot + pool[k.pool].settle_deadline_slots
      => CanRefund(k.buyer, k.pool, k)

-----------------------------------------------------------------------------
(* What a step may never do. *)

\* A pull only moves from pending to settled to claimed, or away when pending;
\* once revealed, its outcome is final and its account is never closed.
PullProgress ==
  \A k \in PullKeys :
    LET before == pull[k]
        after == pull'[k]
    IN  \/ after = before
        \/ before.status = "Absent" /\ after.status = "Pending"
        \/ before.status = "Pending" /\ after.status \in {"Settled", "Absent"}
        \/ before.status = "Settled"
           /\ after = [before EXCEPT !.status = "Claimed"]

\* A pull index that was sold is never sold again: a refunded pull cannot be
\* re-created by its buyer or by anyone else (doc comment of refund_pull).
IndexKept ==
  \A k \in PullKeys :
    /\ pull[k].status = "Absent"
    /\ k.index < pool[k.pool].pulls_count
    => pull'[k].status = "Absent"

\* A pull leaves only after its deadline and without a reveal, and then its
\* buyer is paid the fee and all the account held, out of the right vault.
RefundIsWhole ==
  \A k \in Pulls("Pending") : pull'[k].status = "Absent" =>
    /\ slot > pull[k].requested_slot + pool[k.pool].settle_deadline_slots
    /\ wallet'[k.buyer] = wallet[k.buyer] + pool[k.pool].entry_fee
                                          + pullLamports[k]
    /\ vault'[k.pool] = vault[k.pool] - pool[k.pool].entry_fee
    /\ \A a \in Admins \ {k.pool} :
         vault'[a] = vault[a] /\ pool'[a] = pool[a]

\* The life of a pull: it goes one way only, its index is never sold again, and it
\* ends in a prize or in a whole refund.
PullNeverRegresses == [][PullProgress /\ IndexKept /\ RefundIsWhole]_vars

-----------------------------------------------------------------------------
(* What a buyer and an admin are promised: module PullEscrow. *)

\* The life of the pull with index i of pool a, read off the accounts: an index
\* below pulls_count that no account carries was refunded.
PhaseOf(a, i) ==
  LET carried == {k \in PullKeys :
                    k.pool = a /\ k.index = i /\ pull[k].status # "Absent"}
      status == pull[CHOOSE k \in carried : TRUE].status
  IN  CASE i >= pool[a].pulls_count                -> "unsold"
        [] i < pool[a].pulls_count /\ carried = {} -> "returned"
        [] OTHER -> CASE status = "Pending" -> "open"
                      [] status = "Settled" -> "revealed"
                      [] status = "Claimed" -> "delivered"

Escrow == INSTANCE PullEscrow WITH
  Pools <- Admins,
  Indices <- 0 .. MaxPulls - 1,
  phase <- [a \in Admins |-> [i \in 0 .. MaxPulls - 1 |-> PhaseOf(a, i)]],
  fee <- [a \in Admins |-> pool[a].entry_fee],
  revenue <- [a \in Admins |->
                IF pool[a].initialized THEN vault[a] - Reserved(a) ELSE 0]

\* The program implements the escrow: every instruction of it is one step of
\* the promised life of one pull, or moves revenue only, or changes nothing a
\* party was promised.
ImplementsEscrow == Escrow!Spec

\* Liveness, under Fairness: the escrow's promise of progress.  Every pull sold is
\* eventually revealed or returned, though the operator may withhold, commit
\* elsewhere or be revoked, and every revealed one has its prize minted.
ImplementsEscrowProgress == Escrow!Progress

=============================================================================
