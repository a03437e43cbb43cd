# Solana program examples: a TLA+ verification development

This directory models the on-chain programs of the repository that keep state or
money over several instructions, checks them on small instances with TLC and proves
the properties that matter most with TLAPS. Paths below are relative to the
repository's root.

Contents: [inventory](#1-inventory), [how programs are modelled](#2-how-a-solana-program-is-modelled),
[modules and code](#3-modules-and-the-code-they-model), [runs](#4-runs),
[fairness](#5-fairness), [proofs](#6-what-is-proved),
[where comments and code differ](#7-where-the-documentation-and-the-code-differ),
[what is not modelled](#8-what-is-left-out), [plan](#9-plan).

## 1. Inventory

The repository is a collection of independent programs, most of them in several
versions (Anchor, native, Pinocchio, a few in assembly). Nothing calls across programs of the
repository; each calls external programs (system, SPL token, Token-2022,
associated-token, cc-vrf, Bubblegum). What is concurrent in all of them is the
same: transactions of different signers are executed one after the other in an
order nobody controls, and anyone may send lamports or tokens to any address in
between.

### Modelled

**gacha** (`games/gacha/pinocchio/program`). State: one `Pool` per admin (operator,
fee, deadline, tier weights, `pulls_count`, `pending_pulls`), one vault per pool
holding lamports only, one `Pull` per purchase (pending, settled, claimed). Six
instructions: `init_pool`, `buy_pull`, `settle_pull`, `refund_pull`, `claim_prize`,
`withdraw_fees`. It calls the external cc-vrf registry, in which an operator
commits each VRF output once, and Token-2022 for prizes. Hard: the operator may
withhold reveals, commit around the program or be revoked; a late reveal races a
refund; one counter decides how much of the vault is free; one transaction may
name accounts of two pools. Correct when fees are held until a pull is revealed
or returned, no more than revenue is ever withdrawn, a buyer can always get out,
a reveal is the registry's one draw and gives exactly one prize, and the tiers
are drawn with the odds of their weights.

**world-cup** (`games/world-cup/pinocchio/program`). State: a `Config` (state
machine, admin, lock time, counters, the tally of the best bracket, the winner), an
`Oracle` (results of 32 games, goal total), a vault, one `Bracket` per entrant.
Nine instructions: `init_config`, `submit_bracket`, `lock`, `post_result`,
`post_goals`, `refresh_score`, `finalize`, `claim`, `close_bracket`. Hard: brackets
are folded into the tally one by one, by anyone, in any order and repeatedly; results
may be posted in any order that could have been played; the pot is swept before,
between and after brackets return their rent to it. Correct when the winner is the
entry a ranking of all entries puts first, nobody enters with hindsight, posted
facts are final and completable, and every stake ends up with the winner.

**escrow** (`tokens/escrow`: `anchor`, `native`, `pinocchio`). State: an `Offer` per
maker and id, a vault token account owned by the offer's address. Three
instructions: make, take, refund. The three versions differ in who pays rents,
which accounts may exist before, which token accounts may be passed and how the
offer's address is derived. Hard: several CPIs per instruction on accounts that may
be one and the same; balances set directly after CPIs that moved them; tokens and
lamports sent in from outside between any two instructions. Correct when an offer is an
atomic swap that the maker can always undo and any taker can take.

**Token programs** (`tokens/`). Five programs that keep the tokens of others:

* `token-swap`: an `Amm` fixes a fee, a pool holds two reserves, shares of it are tokens
  of a liquidity mint; `create_amm`, `create_pool`, `deposit_liquidity`,
  `withdraw_liquidity`, `swap_exact_tokens_for_tokens`. Hard: square roots, ratios and
  fees rounded down over any sequence of calls, pools that only gifts filled. Correct
  when shares stay backed by the reserves and no honest trade is refused.
* `token-fundraiser`: a target, a deadline, a record per contributor; `initialize`,
  `contribute`, `check_contributions`, `refund`. Hard: refund and payout both look at a
  vault that anybody can fill; days are truncated; the vault and the records outlive the
  fundraiser. Correct when tokens go to the maker or back, and never get stuck.
* `merkle-tree-token-claimer`: the root of a tree of allocations, a receipt per index;
  `initialize_airdrop_data`, `update_tree`, `claim_airdrop`, and the tool that builds the
  tree. Correct when each allocation is paid once, and can be paid whoever claims before.
* `external-delegate-token-master`: an authority, an Ethereum address and a nonce per
  user account; `initialize`, `set_ethereum_address`, `transfer_tokens`,
  `authority_transfer`. Correct when a signature moves tokens once.
* `token-2022/transfer-fee`: a mint whose transfers leave a fee in the recipient's account;
  `initialize`, `transfer`, `harvest`, `withdraw`, `update_fee`. The fees themselves are
  Token-2022's. Hard: a fee announced takes effect two epochs later and may be replaced
  before; fees wait in accounts, then in the mint. Correct when no token is lost on the
  way and nobody pays a fee that was not announced in time.

**Transfer hooks** (`tokens/token-2022/transfer-hook`): `block-list` (blocked wallets,
configs that count them, the accounts a mint's hook is given), `allow-block-list-token` (marks of wallets,
the meaning of the marks as text in the mint's metadata), `transfer-switch` (an admin and
a switch per wallet), and four small ones, `hello-world`, `counter`,
`account-data-as-seed`, `transfer-cost`. Token-2022 calls the hook inside each transfer
and undoes the transfer when it fails. Hard: what the hook looks at was fixed earlier
(the list of its accounts, the metadata), while wallets are blocked and token accounts
change owners. `block-list` accepts any config that `init` made, with the authority that
made it; all of them block and unblock wallets of one list, and the issuer may read the
count of any. Correct when tokens move only as the list, the issuer's last setup, the modes
and the switches have it, and no block is left that nobody can undo.

**NFTs**: the tree game of `tokens/token-2022/nft-meta-data-pointer` (energy that comes back
with time, trees, session keys), `compression/cnft-vault`, `cnft-burn` and `cutils` over
Bubblegum's trees (proofs that age while others change the tree), and the minting
programs `create-token`, `transfer-tokens`, `pda-mint-authority` and `nft-operations`
in all their versions (PDAs that sign for whoever calls, editions, collections).

**Basics** (`basics`): the seven introductory programs that move rents by hand:
`close-account`, `favorites`, `account-data`, `realloc`, `program-derived-addresses`,
`pda-rent-payer`, `transfer-sol`, each for Anchor, native and Pinocchio. State: accounts
with lamports, a size and an owner. Hard: addresses that hold lamports before they are
created, differences of unsigned numbers, accounts closed in part or handed to another
owner, addresses that a program does not compare with the one it derives. Correct when no
account is short of its rent or keeps more than it needs, and nobody is stuck with its
usual address.

### Not modelled

| component | why not |
|---|---|
| other Token-2022 demonstrations | each makes a mint or an account with one extension; no protocol of several steps |
| the rest of `basics` | one step each on one account (`counter`, the lever, ...), or a log line; repository-layout only logs |
| events and client libraries of the games | serialisation; no state depends on them |
| `cryptography`, `oracles/pyth` | one system call; a log of a price |
| scripts, workflows | tooling |

`PROJECT.json` lists every component with its sources, and every hazard with its
line and the properties that watch it.

## 2. How a Solana program is modelled

* **An instruction is one action.** The runtime executes an instruction atomically
  and undoes everything when a check or a CPI fails, so an error return is an action
  that is not enabled. All CPIs an instruction makes are part of its action.
* **Accounts are functions over their seeds.** A PDA is named by what it is derived
  from; "the account exists" is a field (`initialized`, `present`, `open`, a status) or,
  for token accounts, an amount other than `NoAccount`.
* **The accounts passed are quantified.** Where the program identifies an account by
  a comparison the action takes it as a parameter and has that comparison as a guard
  (`BelongsTo`, `IsVault`), so that dropping the guard lets another account through.
* **Lamports are counted.** Each module conserves them: rents, top-ups of addresses
  that hold lamports already, balances set directly. A transaction that does not
  balance is aborted by the runtime, so `LamportsConserved` also says that no
  instruction is stuck in that way.
* **The surroundings are actions too**: the clock, gifts to any address, token accounts
  created or closed by others, the registry.
* **History variables** never appear in a guard of an instruction: `surplus` and
  `withdrawn` (gacha), `entries` and `claimed` (world-cup), `made` (escrow), `founded`
  (token-swap), `given` (fundraiser), `listed` and `received` (claimer), `executed`
  (delegate), `asked` and `frozen` (block-list), `configured` and `meddled` (allow/block list),
  `peak` and `touched` (basics),
  `transferred` (small hooks), `notices`
  (transfer-fee).
* **Hashes and signatures are terms**: what is hashed or signed is compared, never bytes.
  A proof of a Merkle tree is the list of sibling hashes that the code recomputes the
  root from.
* **Slips.** Each module has a section of wrong forms of its definitions: a guard
  dropped, a bound off by one, a counter forgotten. No action uses them. For each
  property that a run checks, `PROJECT.json` ("mutants") names a slip that, put in
  place of the definition it distorts, makes TLC find that property violated. They
  show that no property holds for want of a way to break it.

## 3. Modules and the code they model

| module | models |
|---|---|
| `TierSelect` | `gacha.rs`: `select_tier`, and the shares of the total it should draw |
| `Gacha` | the gacha instructions, cc-vrf as seen from `settle_pull`, prizes |
| `PullEscrow` | what gacha promises about money (abstract) |
| `Tournament` | `tournament.rs`: tree, bracket and result validation, score; what can be played |
| `GameRules` | the rules of both games on their own: outputs drawn one after the other, and brackets one game away from a played one |
| `WorldCup` | the world-cup instructions |
| `Contest` | what world-cup promises its entrants (abstract) |
| `EscrowAccounts` | what the three escrows share: offers, token accounts, what others do |
| `EscrowAnchor`, `EscrowNative`, `EscrowPinocchio` | the instructions of one version each |
| `Escrow` | the versions together, and the properties stated of all |
| `AtomicSwap` | what an escrow promises (abstract) |
| `TokenSwap`, `Fundraiser`, `MerkleClaimer`, `DelegateMaster`, `TransferFee` | one token program each |
| `TokenPrograms` | the five together, and what is stated of all |
| `HookedMint` | Token-2022 as a hook sees it: a mint, its accounts, a transfer |
| `BlockList`, `AllowBlockList`, `TransferSwitch` | one hook each, composed with `HookedMint` |
| `HookExamples` | hello-world, counter, account-data-as-seed, transfer-cost |
| `TransferHooks` | the hooks together |
| `TreeGame`, `EnergyBucket` | the tree game, and what it promises of energy (abstract) |
| `Compression`, `AssetLedger` | cnft-vault, cnft-burn, cutils; what they promise (abstract) |
| `MintPrograms` | create-token, transfer-tokens, pda-mint-authority, nft-operations |
| `Nfts` | these together |
| `BasicAccounts` | seven programs of basics, in three versions each |
| `GachaProofs`, `WorldCupProofs`, `EscrowProofs`, `TokenProofs`, `HookProofs`, `NftProofs`, `BasicProofs` | theorems, of one family of programs each |
| `SumLemmas` | what they share: induction over finite sets, sums, recursive functions |
| `MC*` | instances for TLC |

The line ranges behind each definition are in `PROJECT.json` ("map").

**Gacha.** `pool[a]`, `vault[a]` are admin `a`'s accounts, `pull[k]` and
`pullLamports[k]` the account whose seeds are `k = [pool, buyer, index]`. Actions carry
the instructions' names. `registry` is the set of reveals committed in cc-vrf, whose
addresses are derived from authority and pull; `CommitOutside` is an operator calling
cc-vrf itself, for pulls sold or not, `RevokeAuthority` the loss of its record.
A VRF output is the number its first 16 bytes encode. Left out: the ECVRF proof (an
external program verifies it), `alpha` and the client seed (they only enter that
proof), `settled_slot` and events (nothing reads them), the payer's rents in
`claim_prize`.

**Tournament, WorldCup.** Games are numbered as in the code: leaves first, then each
round, the final, the third-place playoff last. The number of leaves is a parameter
(16 in the code), so that a small tree of the same shape can be explored completely.
`results`, `decided` (the bit mask), `tallied` (`tally_mask`) and the fields of `best`
are those of `Config` and `Oracle`. The score is written as a cardinality, without
recursion, so that it can be proved about. `winner` is a set with at most one wallet.

**Escrow.** `OfferKeys` are the seeds of an offer (maker, id, bump). A token account is
named by owner, mint and kind: the associated one, or another of the same owner and
mint. An instruction's CPIs are applied one after the other to a ledger (`Created`,
`Ensured`, `Sent`, `Closed`), because the accounts of a swap may coincide. `Credit` adds
what a CPI moves to the lamports of a wallet or an offer. The external programs are the
real ones; mints have no transfer fee, no freeze and no hook. Anchor refuses
some transactions that pass one mutable account twice; the model allows them, so it
has more behaviours, not fewer. `program` says which version is deployed.

**Token programs.** One pool is looked at by two traders; the AMM passed to a swap is a
parameter, since only the pool's seeds tie it to the pool. Products are exact, as in the
code, which computes them in 128 bits. A claimer's snapshot is what the tool reads, with
entries that it skips; trees of one, two and six allocations have one node, a padded
level and two of them. A claim passes any proof of any of these trees, any index and any
listed amount. A signature is a key and what it signs, and can be made long before it is
used. The Ethereum address can be replaced and put back at any time. In
`TransferFee` what Token-2022 does with fees is external (`FeeOf`, `Announced`); the rates
of the programs are scaled to parts of `FEE_WHOLE`. Its native and Pinocchio versions only
make the mint (`CreateFeeMint`).

**Hooks.** A transfer is one action: the checks of Token-2022, the accounts resolved for the
hook as the list of extra accounts has them, and the hook's own checks, or it does not
happen. Owners approve delegates, revoke them and give accounts away in between. Names
in the metadata are fields in the order they were first written; `DecodeMetadata` goes
through them as `tx_hook` does. `switch`, `counter` and the like keep the names of
their accounts. In `BlockList` the configs are at the derived address and at any address
with a key: `init` derives the address and leaves the comparison to the system program,
which only wants a signature. `block_wallet` and `unblock_wallet` take any of them as long
as its authority signs (`CanUnblock`), and `block_wallet` may likewise make its account
elsewhere than at the address derived from the wallet. `setup_extra_metas` reads a count
from any of the configs or from an account of another program (`ForeignCounts`). `asked`
is what that count and the issuer's argument told the last setup to check. There is one
list for all configs, as the hook is only given blocks at derived addresses.

**NFTs.** In `Compression` a leaf is what is hashed into it, a proof says how many changes its
tree had seen when it was taken, and the tree brings it up to date over the last
`BufferSize` changes, as the account compression program does. In `MintPrograms` a mint
is one record with its metadata and edition; `authority` says who may mint (a wallet, a
program's PDA, or the edition once there is one). In `TreeGame` names, levels and
experience are left out.

**Basics.** An account is what the runtime knows of it; `minimum_balance` is the rent of a
size. `CreateAccount` is the system program's, which refuses an address that holds
lamports; `InitAccount` is what Anchor makes of `init`, which tops it up. An action ends
in `Exempt` accounts only where the runtime, not the program, sees to it (gifts,
transfers, `ReallocateZeroInit`). The Pinocchio versions take bumps from their callers, so
that a user has an address per bump. Native and Pinocchio `create_user` and
`create_page_visits` do not compare the address of the new account with the one they
derive, so that any address whose key signs will do (`Signing`). `close_user` looks at the
canonical address only and assigns what is left there to whatever account it is passed
as the system program (`NewOwners`), the program itself included. What is stored is left
out, but for the kind of data that `realloc` parses; so is `increment_page_visits`.

A composition (`TokenPrograms`, `TransferHooks`, `Nfts`) runs one program per behaviour:
they share no account, so that nothing is lost, and their properties are stated of all.

**Abstract specifications.** Each is stated without accounts and checked as a property
of the detailed one:

* `PullEscrow` (of `Gacha`): a pull goes unsold, open, then revealed and delivered, or
  returned; fees become revenue at the reveal only; only revenue is drawn. The phase
  of a pull is read off the counter and the accounts, revenue is the vault less
  `Reserved`.
* `Contest` (of `WorldCup`): entries, then truth, then one award to the entry that ranks
  first among all. Folding is invisible: the refinement says that folding one by one,
  in any order, is a ranking of everything at once.
* `AtomicSwap` (of each escrow): open, take, refund, gifts. The purse of a party is the
  sum of its token accounts.
* `AssetLedger` (of `Compression`): an asset is issued once, given by its holder (the vault
  gives to anybody, at most two at once), and burnt for good, never by the vault.
* `EnergyBucket` (of `TreeGame`): energy fills with every second up to a capacity and each
  piece of wood costs one unit; the program works it out when a player next chops.

## 4. Runs

`tlc -config <cfg> <module>`; counts are distinct states.

| run | module, cfg | states | question |
|---|---|---|---|
| `algorithms` | `GameRules`, `MCGameRules.cfg` | 16,614 | are tiers drawn by their weights, brackets accepted and scored right? |
| `gacha_two_pools` | `MCGacha` | 18,380 | is the money of two pools kept apart, held and returned, whatever the operator does? |
| `gacha_one_pool` | `MCGacha`, `MCGachaPool.cfg` | 216,198 | do accounts, counters, registry, prizes and balances stay consistent? |
| `world_cup` | `MCWorldCup` | 548,362 | does the first-ranked entry win, and is the pot whole? |
| `world_cup_results` | `MCWorldCup`, `MCWorldCupResults.cfg` | 90,825 | are results playable, completable and final, entries blind to them, and is the winner paid? |
| `escrow` | `MCEscrow` | 83,803 | is each version an atomic swap that can be undone and taken? |
| `token_programs` | `MCTokenPrograms` | 262,823 | is what the programs owe held, and can everyone get it once? |
| `transfer_hooks` | `MCTransferHooks` | 178,284 | do tokens move only as lists, modes, switches and fees allow? |
| `nfts` | `MCNfts` | 107,201 | do counts, proofs, editions and energy hold, and are compressed NFTs a ledger? |
| `basics` | `BasicAccounts`, `MCBasicAccounts.cfg` | 680,357 | are rents kept to the lamport, and can everyone go on? |
| `escrow_native_create` | `MCEscrow`, `MCEscrowCreate.cfg` | violation | are missing recipients created? |
| `fundraiser_refund` | `MCTokenPrograms`, `MCFundraiserRefund.cfg` | violation | is what a refund pays the contributor's own? |

What they show, and why the bounds are enough:

* **algorithms**: all weights up to 4 for up to three tiers, two full rounds of the total,
  so every residue occurs twice and every boundary between two tiers is met;
  `SelectsByInterval` compares the loop with the tiers' shares of the total (`InShare`). The tree and weights of
  the code: fifteen tournaments, regular and irregular, and every bracket that differs
  from one of them in one game, impossible teams included. Validation is local to a game
  and the games it is fed by, so that one changed game meets each of its conditions.
  `AcceptsExactlyThePlayable` compares the loop with what a tournament can end in
  (`Playable`), `ScoreByReach` the score with how far each pick comes. All three are
  also proved for all inputs (section 6).
* **gacha_two_pools**: two pools of different fees; a2 is admin of one and
  buyer in both, a1 admin of one and operator of the other, so that every signer can
  appear in a role it should not have. One pull per pool and a clock of two ticks meet
  each deadline exactly, before and after. `VaultSolvent`, `OnlyRevenueWithdrawn`
  (the vault to the lamport), `ImplementsEscrow`, and with the fairness of section 5
  `ImplementsEscrowProgress`: every pull ends with a prize or the fee back. Purchases stop
  while the clock still has room for their deadline: otherwise the bound on the clock,
  not the program, would strand a pull.
* **gacha_one_pool**: two buyers and two pulls, so that a pull is refunded while another is
  pending and an index could be resold; lamports sent to vault and pull before and after
  they exist; commits around the program; a revocable operator; arguments that
  `init_pool` must refuse. `AccountsAddUp` (counters against accounts, lamports
  conserved), `RevealMatchesRegistry`, `OnePrizePerClaim`, `OverdueIsRefundable`,
  `PullNeverRegresses` (no pull goes back, no index is sold twice, a refund is whole).
* **world_cup**: three entrants (the admin may enter), five kinds of entries, invalid ones
  included, so that all ties, a bracket without a point and one as far off as a u16
  allows occur; results that mix right and wrong picks; gifts before and after accounts
  exist. `U16_MAX = 2` and `U32_MAX = 3` are the scaled widths of guesses and counts.
  `WinnerRanksFirst`, `TallyDecides` (the best key is that of the folded, and exactly one
  bracket matches it), `StakesKept`, `ImplementsContest`.
* **world_cup_results**: every pair of a game and a team is tried as a result, games and
  teams that do not exist included, in every order. Eight games on eight teams are the
  smallest tree with semifinals, final and playoff. `ResultsPlayable`, `OracleNeverStuck`,
  `FairPlay` (no entry with hindsight, what is posted is final, only the winner is paid),
  and under fairness `NeverStalls` (an entry leads to a winner, a winner to an empty pot).
* **escrow**: a maker that makes, refunds and remakes offers, a taker that gives tokens
  and lamports, payers of either kind. The native program with offers of a token for
  itself and a taker with two accounts of one mint; the Pinocchio program with two
  offers of one maker and id at two bumps, both open at once. Bounds on gifts:
  `MaxLamports`, `MaxTokens`, `Fresh`, `Prefunded`. Offers repeat until the lamports or
  tokens are used up.
* **token_programs**: `Solvent`: over every sequence of deposits, withdrawals, swaps and
  gifts the product of a pool's reserves is at least the square of its shares, the locked
  ones included; the fundraiser's vault covers every refund; the airdrop covers what is
  left and pays each listed allocation once; every token of the mint with fees is in an
  account or withheld. `FairTerms`: the check that ends a swap never fails one, a deposit
  takes no more than it was offered, and no fee is in force that was not known two epochs
  before. `SignedOnce`: the nonce counts the signed transfers, and no
  signature moves tokens twice, however addresses are replaced. `NobodyShutOut`: an open
  fundraiser takes tokens, pays, or gives everybody back what it gave; every unpaid
  allocation can be claimed: all that `refund` and `claim_airdrop` check holds
  (`CanRefund`, `CanClaim`). Reserves up to 7 with amounts 1 and 4 and fees of 0, a half
  and all meet each rounding; `U16 = 4` and days of two seconds make the count of days
  wrap within the run. Four epochs let a fee be replaced before it takes effect
  and another take its place after. The maker raises one mint here; `fundraiser_refund` shows
  what two do.
* **transfer_hooks**: three token accounts of three wallets, one not immutable and given
  away and back; a delegate and, for the block list, a permanent delegate; two authorities
  with configs at the derived address and at one with a key, and a foreign account that
  reads as a config; mints made by `init_mint` or with metadata written in any order.
  `MovesPermitted` (an action property): what a wallet owned while it was blocked, and the
  issuer's last setup had read a list that is not empty, never leaves but by the permanent
  delegate, whatever the configs count since, and nothing arrives there if the setup asked
  for both sides; a mint's mode is kept; nobody moves tokens without a switch that is on.
  `RecordsAgree` (records kept twice, and lamports and wrapped SOL): the counts of all
  block-list configs add up to the block accounts, so that some authority can always undo
  a block; `DecodesAsConfigured`.
* **nfts**: two players, one session key, two trees whose threshold of two is passed in a
  few chops, five seconds against a refill of two; two Bubblegum trees of two leaves, four
  changes and a change log of one, so that proofs run out of date; a mint, a PDA's mint
  and three collections that can name each other. `EnergyByTheSecond`,
  `ImplementsLedger`, `ProofsHold` (whoever `verify` accepts holds the asset; two assets of the vault
  can leave together), `OneOfEach`, `CountsAgree` (wood, trees and what an NFT shows of the
  wood of those who chopped with it; supplies; collections).
* **basics**: two users, two keypairs, a canonical bump and another, lengths of one to three
  over a rent of two, so that every growth and shrinkage happens and six lamports do not pay
  for everything. `RentsKept`: lamports are conserved, no account is short of its rent, and
  one that nobody sent lamports to holds the rent of its size (Anchor) or of the largest size
  it had (the others); the last does not speak of `pda-rent-payer` and `transfer-sol`, whose
  accounts hold lamports to pay them out. `NeverStuck`, for who has the lamports: the account
  of close-account, favorites and page-visits can be created at the canonical address, that
  of account-data and realloc at the key chosen for it, and a vault, always with Anchor, with
  the others unless lamports were sent there or it was closed before; what is at a user's
  canonical address can be closed, whatever owner an earlier close left it with; a message
  can be extended; a vault with two rents pays one; an account of transfer-sol can be
  emptied. It says nothing of accounts that native and Pinocchio make elsewhere than at the
  canonical address: those `close_user` refuses (section 7).

Deadlock is not checked in these runs: all of the programs may stop (bounded clock,
nobody acts, tokens used up). Where something must happen it is a liveness property, or
an invariant that says that every check of an instruction, those of its CPIs included,
passes (`OverdueIsRefundable`, `MakerCanRefund`, `OpenToTakers`, `NeverStuck`,
`OracleNeverStuck`, `NobodyShutOut`). The checks are an operator of their own (`CanRefund`,
`AnchorCanTake`, ...), the first conjunct of the action; the rest of it only assigns. That
says what `ENABLED` would, and can be proved.

## 5. Fairness

* `Gacha!FairSpec`: weak fairness of the clock, of each buyer's refund and of each claim.
  Slots advance whatever the program does; a buyer wants its money; a claim can
  be cranked by anyone and the instruction names the buyer as recipient. Nothing is
  assumed of the operator, which may never reveal.
* `WorldCup!FairSpec`: weak fairness of the clock, of the admin's `lock`, `post_result`,
  `post_goals` and `finalize`, of folding and closing, which anyone may crank, and of the
  winner's claim. The admin is trusted by design (the program has no way around it), so
  nothing lives without it. Nobody must open a tournament or enter. `claim` stays enabled
  for ever, which is why weak fairness is enough for the pot to be swept again after
  brackets were closed.

The other specifications have no fairness: what their users may do they need not do.

## 6. What is proved

All theorems hold for every value of the constants that satisfies the assumptions named
in the modules. Of those, the assumptions give what the types of the code give: finite
sets of wallets and accounts, natural numbers for fees, rents, amounts and deadlines.
More is assumed of a few: `LEAVES \in {4, 8, 16}` for the tournament's tree (the proofs
name its rounds), `MINIMUM_LIQUIDITY` and the rents paid for an account are not zero, a
block list's layout costs more the more accounts it resolves, durations fit a `u16` and
days have seconds, powers of ten are naturals. Bounds on gifts, clocks and counts are
constants too, so that a theorem covers runs of any length.

Each theorem is `Spec => [](...)` for an invariant, `Spec => [][...]_vars` for an action
property, or `Spec => Abstract!Spec` for a refinement. Behind each is an inductive
invariant; what follows says what the property itself lacks to be one. `PROJECT.json`
("theorems") lists them all.

**`GachaProofs`**

* `TypeCorrect`. `TypeInv == TypeOK /\ OperatorsValid`: that only operators reach the registry
  through `settle_pull` needs that a pool's recorded operator passed `init_pool`'s check.
* `VaultAlwaysSolvent`. `VaultSolvent` speaks of the accounts that are pending,
  `withdraw_fees` of the counter `pending_pulls`. `SolvencyInv` adds `PendingCounted`,
  which equates the counter with a cardinality (lemmas on how the set of pending pulls
  changes with one pull), `UnopenedIsEmpty`, which carries both through `init_pool`, and
  `ReservedCovered`, the solvency in terms of the counter.
* `PullsNeverRegress`, `ClaimsMintOnce`, `RevealsMatchRegistry`, `AccountsAlwaysAddUp`,
  `OnlyRevenueIsWithdrawn`. `LedgerInv` adds to `SolvencyInv` that every index is sold once and
  below the counter (`IndicesOnce`) and that nothing is drawn before a pool opens. Lamports
  are sums over wallets, vaults and pulls, of which an instruction changes two or three.
* `ProgramImplementsEscrow`: `PullEscrow`, step by step, from `EscrowInv`, which adds that an
  open pool's fee is more than nothing (`FeesPositive`): by that `PullEscrow` tells that it
  is open.
* `OverdueIsAlwaysRefundable`: past the deadline every check of `refund_pull` passes, by
  `EscrowInv`: the vault has the fee and the counter is not zero.
* `SelectsByShare`, `OddsAreTheWeights`: `select_tier` takes a tier for exactly the targets in
  its share, as many as its weight, for any weights, count and output. `DrawsByInterval`
  is the property of the run, of `GameRules` with any bounds: the shares are disjoint, and
  cover every output reduced by the total.

**`WorldCupProofs`**

* `TypeCorrect`, which includes that closeness and indices stay in their widths.
* `WinnerAlwaysRanksFirst`, by `RankInv`: until the winner is
  recorded the brackets are the entries, position by position (`EntriesRecorded`); the
  counters count brackets and folds (`FoldsCounted`), so that equal counts mean that all
  brackets are folded; nothing is folded before the oracle is complete
  (`FoldedIsFinal`), so that keys computed at different times are comparable; no folded
  bracket is better than the best key (`TallyIsBest`). The bracket that `finalize`
  accepts has the best key; distinct indices make every other entry rank strictly
  behind. Afterwards the entries and the truth no longer change while brackets close.
* `ResultsAlwaysPlayable`, `OracleIsNeverStuck`, by `ResultInv`: what is decided is posted, a game
  only after the games it is fed by, and its winner comes out of one of them; games fed
  by different games have different winners. An undecided game with the least number
  can then be posted.
* `PlayIsFair` from `FairInv`, which adds `PostedLate` (nothing posted before the lock).
* `TallyAlwaysDecides` from `TallyInv`, which adds `BestIsFolded`: the best key is of a bracket
  that was folded, not a leftover.
* `StakesAlwaysKept` from `StakesInv`: vault and claims together come to a stake per entry and
  the rent of each closed bracket; a claim takes all that is above the floor.
* `ProgramImplementsContest`: folding one by one, in any order, is a stutter, and the award
  the first of a ranking of all.
* `AcceptsThePlayable`: `validate_bracket` accepts exactly the brackets that can be played:
  every team wins its games up to one and none after, third is a loser of a semifinal.
  `AcceptsExactly` is the property of the run.
* `ScoresByReach`, for the code's tree and weights: a game's weight is half the number of teams
  that can reach it (the blocks of teams that do are intervals, counted one round at a
  time), and the points of the hits are a sum over them (`SumIsPoints`). That a
  played tournament has a team in every game, so that no game counts as undecided, takes
  the recursion of `Play` in closed form.

**`EscrowProofs`**. `AccountsAlwaysAddUp`: the ledger of an instruction's CPIs keeps types,
rents and the sum of lamports, CPI by CPI (`Created`, `Ensured`, `Sent`, `Closed`), even
when accounts coincide. `ProgramsImplementSwap`: `AtomicSwap`; the purses of the parties are
sums over their token accounts, in which a transfer moves an amount from one to the
other whatever accounts were passed. Both from `EscrowInv`, which says that the version
never changes and the accounts add up; that an open offer holds at least what
was deposited is among the latter, and makes the swap whole. `MakersCanAlwaysRefund` and
`OffersStayOpen`, from the same invariant: along each instruction's CPIs, what a transfer
needs exists and is there, and the vault is empty when it is closed, even if others sent to
it; for that the accounts of an open offer are told apart.

**`TokenProofs`**

* `TokensSolvent`, `TermsAreFair`, `NobodyIsShutOut`, `SignedOnlyOnce`, all from `TokensOK`, one
  part per program. `SwapOK` says of every pool, founded or not, that shares and locked
  liquidity squared are at most the product of the reserves, and that shares add up to
  the supply; the lemmas are inequalities on quotients rounded down. `FundOK`
  counts what the records add up to; it speaks of a maker's first fundraiser
  (`IsFirst`), since section 7 shows what a second one may do. `ClaimOK`: a receipt
  is of a listed claim at its index, and what was paid, by index and by wallet, is the
  sum over the receipts. That needs that a proof of any shape and any tree
  leads from the root to one listed leaf only, by induction over the levels. `DelegateOK`:
  an executed signature has a nonce the account has passed. `FeeOK`: of both fees of the
  mint some notice is old enough, the newer from its epoch on.

**`HookProofs`**. `RecordsAlwaysAgree`, `AlwaysDecodesAsConfigured`, `TokensMoveAsPermitted`
from `HookInv`: the counts of the block list's configs, however many there are, sum up to
the number of block accounts; a config without an authority counts nothing, so that where
there is a block there is a config that can give it up; the rents match the layout; the
layout is the one for the sides asked for, so that the hook is given a block for each of
them; what is frozen is blocked and asked for; a hooked mint has its list, and metadata
decodes to what was asked last unless somebody wrote past the program.

**`NftProofs`**. `TreesKeepLedger` (`AssetLedger`) and `ProofsAlwaysHold` from `ForestOK`: the leaf at an
index is of the tree and the nonce of that index, so that a proof of it proves who
holds it. `AlwaysOneOfEach` and `CountsAlwaysAgree` from `MintsOK` and `GameOK`. `WholeTrees` says that
what was cut down is a multiple of a tree; what an NFT shows some player has, since wood
only grows. `EnergyIsByTheSecond` (`EnergyBucket`): the energy
worked out when a player acts is what would have come back second by second, by
division with remainder.

**`BasicProofs`**. `RentsAreKept` from `BasicOK`: besides what it states, an address without an
account that nobody sent lamports to holds none (`Unfunded`), since Anchor's `init` keeps
what it finds there, and what is not the program's has no data (`Sound`). `NobodyIsStuck`,
which is about the instructions and addresses that `NeverStuck` names, adds `SizesOK`: how
long the data of an account can be, given which instruction made it, so that Anchor finds
data in a user that is to be closed, a vault has none, and a message that was not touched
since lacks rent when it is extended, rather than having too much.

**Induction.** The library's rules for induction take a predicate, which the provers here
cannot instantiate. `SumLemmas` states them with sets in place of predicates: a set of
subsets that holds the empty one and is closed under adding an element is the whole
power set (`SubsetInduction`); a set of naturals closed under successor, up to a
bound, is an interval (`Stepwise`); the least member of a set of naturals (`LeastMember`).
From these come sums over finite sets and the existence and uniqueness of functions
that are defined by recursion along an interval. Where a step needs more of a recursive
function than its neighbour, its closed form is stated first and chosen.

**Only model-checked.**

* `ImplementsEscrowProgress` and `NeverStalls`: liveness, out of the prover's reach.
* The two violations of section 7, which are about single traces.

## 7. Where the documentation and the code differ

Two are runs that TLC ends with a counterexample, and entries in `PROJECT.json`
("findings"):

* `CreatedIfNeeded` (escrow): the native `take_offer` creates recipients "if needed", but
  takes any address that holds lamports for a token account. An address that was sent
  lamports is not created, and the take fails until somebody creates the account.
* `RefundsAreOwn` (fundraiser): a payout closes the fundraiser but not the records of its
  contributors. The maker's next fundraiser has the same address, so that the old records
  can be refunded out of its vault, in its token.

Others need no run of their own; each can be seen by adding the named definition to the
invariants or properties of the run's cfg:

* `WorldCup!AlwaysAWinner`, a liveness property: the README of world-cup says that exactly
  one winner always exists. A tournament that nobody entered is locked and completed, but
  has no bracket to finalize with; it stays locked. A comment on `Finalized`
  (`state/common.rs:61`) speaks of a "tie routed to admin"; the submission index breaks
  every tie.
* `BlockList!CountIsList`: the readme of block-list has `init` make "the global `Config`"
  which "tracks the number of blocked wallets"; there may be several, a wallet is blocked
  through one and unblocked through another, and each counts what went through it.
* `HookExamples!CountsTransfers`: "Count how many times tokens have been transferred"; the
  counter hook adds one to the counter and stores nothing.
* `BasicAccounts!LamportsComeBack`: "Close an account and get the Lamports back"; `close_user`
  of the native and Pinocchio versions leaves the rent of an empty account at the address,
  where nothing can move it, and where the account cannot be created again.
* `BasicAccounts!EveryUserCloses`: "Close an account" is meant of what `create_user` made; the
  native and Pinocchio versions also make one at an address that is not the canonical one,
  and `close_user` only takes that of its caller.
* `AllowBlockList!UpToThreshold`: transfers "up until" the threshold are meant to be free;
  the code refuses one of exactly the threshold.
* `Compression!EveryoneCanWithdraw`: "everyone can withdraw any cNFT in the vault", but one
  whose leaf has another delegate does not hash to what the vault passes.
* Comments of the Pinocchio escrow call the offer's address canonical, but `make_offer`
  takes the bump from its caller; and its `take_offer` returns the offer's rent "to the
  payer that funded it", which is the payer of the taking transaction.

Behaviour that surprises and that the models have:

* token-swap: the pool's token accounts are created with it, so that anybody can prevent a
  pool by creating one of them first; a pool that gifts made one-sided takes no deposits;
  shares are minted by the square root whatever the supply is.
* fundraiser: `1_u64.pow(decimals)` is one, so that the smallest contribution is one unit.
* transfer-switch asks for the switch of whoever signs, so that a delegate that is on moves
  the tokens of a wallet that is off. The Anchor examples let only owners sign.
* account-data-as-seed: only a wallet that made a list has a counter, and only it can
  send; counter serves one mint.
* block-list: `setup_extra_metas` may be called before anybody is blocked and then enforces
  nothing until it is called again (its readme says so), or with a config that counts
  nothing while another does; an authority may unblock a wallet that another blocked, and
  gets its rent.
* tree game: a tree takes one chop more than its threshold; wood is written to whichever NFT
  is passed.
* minting: the PDAs of `pda-mint-authority` and `nft-operations` sign for whoever calls; the
  native `create` needs no `init`, the Pinocchio one does; an associated account whose
  address holds lamports is not created.

## 8. What is left out

Beyond section 1: event emission, account serialisation and discriminators, checks of
program ids, sysvars and account writability (an account of the wrong kind is refused and
changes nothing), transaction fees, compute limits. Rents are constants. u64 overflow
of lamports is out of reach (the total supply is below 2^60), and checked arithmetic on
it is not modelled; widths are kept where values reach them (guesses, counts of
brackets). Wallets are not kept above their own rent minimum. In gacha, the addresses of
pool accounts, and in world-cup those of config and oracle, do not receive lamports
before they are created. Token programs, hooks and NFTs count lamports only where a
program moves them itself (block-list's rents, transfer-cost's fee). Not modelled of
Token-2022: confidential transfers, frozen accounts, a delegate's remaining
amount (approvals are for any amount, except transfer-cost's). Of Metaplex: creators,
royalties, uses. The Anchor workspaces are built with overflow checks, so that an
overflow is an error.

## 9. Plan

1. `ScoresByReach` for any tree whose weights double from round to round.
2. `WorldCup` on a tree of any power of two: the proofs use the names of the rounds only for
   the semifinals, the final and the playoff.
