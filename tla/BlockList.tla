------------------------------ MODULE BlockList ------------------------------
(***************************************************************************)
(* tokens/token-2022/transfer-hook/block-list (Pinocchio): authorities     *)
(* block wallets; the issuer of a mint that names this program as its hook *)
(* chooses which accounts the hook is given.                               *)
(*                                                                         *)
(* There is one list: the block account at the address derived from a      *)
(* wallet is the only one a hook is given.  There may be several configs,  *)
(* since init derives the address of the config but does not compare it:   *)
(* CreateAccount wants the new account to sign, which the derived address  *)
(* does (invoke_signed) and an account with a key of its own may.  Each    *)
(* has the authority that made it and counts what is blocked through it.   *)
(* Likewise a block account may be made at an address with a key.          *)
(*                                                                         *)
(* That choice is kept in the mint's extra-metas account and is not        *)
(* revised when the list changes.  The wallet blocks a hook is given are   *)
(* resolved from the owner fields of the two token accounts at the time of *)
(* the transfer.                                                           *)
(***************************************************************************)
EXTENDS HookedMint

CONSTANTS
  ListAuthorities,      \* bound: wallets that call init and so become authorities
  Keypairs,             \* unused addresses whose keys somebody has
  ForeignCounts,        \* counts in accounts of other programs that read as a config
  TransferHookAuthority,\* of the mint: the issuer
  ConfigRent, WalletBlockRent, EmptyRent, SourceRent, BothRent, Purse

ASSUME BlockListAssumption ==
  /\ ListAuthorities \subseteq Wallets /\ TransferHookAuthority \in Wallets
  /\ IsFiniteSet(Keypairs) /\ Keypairs \cap Wallets = {} /\ ForeignCounts \subseteq Nat
  /\ {ConfigRent, WalletBlockRent} \subseteq Nat \ {0} /\ Purse \in Nat
  /\ {EmptyRent, SourceRent, BothRent} \subseteq Nat \ {0}
  /\ EmptyRent < SourceRent /\ SourceRent < BothRent

VARIABLES
  config,               \* by address: authority and blocked_wallets_count
  wallet_block,         \* addresses of block accounts; w is the one derived from wallet w
  extra_metas,          \* of the mint: layout of the account and its lamports
  purse,                \* lamports of the wallets
  asked,                \* history: which sides the issuer's last setup was to check
  frozen                \* history: what a wallet owned while blocked and asked for

listVars == <<config, wallet_block, extra_metas, purse, asked, frozen>>

ConfigPda == "config"
ConfigAddresses == Keypairs \cup {ConfigPda}
BlockAddresses == Wallets \cup Keypairs
NoConfig == [authority |-> Nobody, blocked_wallets_count |-> 0]

\* The three layouts, and no account yet.
Layouts == {"EMPTY_DEPENDENCIES", "SOURCE_DEPENDENCY", "BOTH_DEPENDENCIES"}
NoMetas == "uninitialized"
Enforcing == {"SOURCE_DEPENDENCY", "BOTH_DEPENDENCIES"}

MinimumBalance(layout) ==
  CASE layout = "EMPTY_DEPENDENCIES" -> EmptyRent
    [] layout = "SOURCE_DEPENDENCY" -> SourceRent
    [] layout = "BOTH_DEPENDENCIES" -> BothRent
    [] OTHER -> 0

\* Slips: a resize that keeps the surplus (LamportsFor), an unblocking that is not
\* counted (CountAfterUnblock), a check that forgets the extension (SourcePasses), a
\* layout for the second block only (LayoutFor).
KeepsSurplus(layout) ==
  IF extra_metas.lamports > MinimumBalance(layout) THEN extra_metas.lamports
  ELSE MinimumBalance(layout)
SameCount(count) == count
OwnerAlone(from, by) ==
  ~ (account[from].owner \in wallet_block /\ by \in {account[from].owner, account[from].delegate})
LayoutFromTwo(count, both) ==
  IF count <= 1 THEN "EMPTY_DEPENDENCIES"
  ELSE IF both THEN "BOTH_DEPENDENCIES"
  ELSE "SOURCE_DEPENDENCY"

-----------------------------------------------------------------------------

\* Tokens whose owner is blocked while the issuer's last setup read a list that is not
\* empty: kept for as long as both last, whoever comes to own the account.
FrozenNext ==
  frozen' = IF asked' = {} THEN {}
            ELSE {p \in frozen : p[2] \in wallet_block'} \cup
                 {p \in TokenAccounts \X (wallet_block' \cap Wallets) :
                    account'[p[1]].owner = p[2]}

BlockListInit ==
  /\ config = [c \in ConfigAddresses |-> NoConfig]
  /\ wallet_block = {}
  /\ extra_metas = [layout |-> NoMetas, lamports |-> 0]
  /\ purse = [w \in Wallets |-> Purse]
  /\ asked = {} /\ frozen = {}

\* CreateAccount fails on an address that is in use.
Free(place) ==
  /\ place \notin wallet_block
  /\ place \in ConfigAddresses => config[place].authority = Nobody

InitConfig(w, c) ==
  /\ Free(c)
  /\ purse[w] >= ConfigRent
  /\ purse' = [purse EXCEPT ![w] = @ - ConfigRent]
  /\ config' = [config EXCEPT ![c] = [authority |-> w, blocked_wallets_count |-> 0]]
  /\ UNCHANGED <<hookedVars, wallet_block, extra_metas, asked>>
  /\ FrozenNext

\* Any config of the program will do, with its own authority; it counts the block.
BlockWallet(a, c, place) ==
  /\ config[c].authority = a
  /\ Free(place)
  /\ purse[a] >= WalletBlockRent
  /\ purse' = [purse EXCEPT ![a] = @ - WalletBlockRent]
  /\ wallet_block' = wallet_block \cup {place}
  /\ config' = [config EXCEPT ![c].blocked_wallets_count = @ + 1]
  /\ UNCHANGED <<hookedVars, extra_metas, asked>>
  /\ FrozenNext

CountAfterUnblock(count) == count - 1

\* Any block account, whichever config it was counted in; the rent is the caller's.
CanUnblock(a, c, place) ==
  /\ config[c].authority = a
  /\ place \in wallet_block
  /\ config[c].blocked_wallets_count >= 1
UnblockWallet(a, c, place) ==
  /\ CanUnblock(a, c, place)
  /\ purse' = [purse EXCEPT ![a] = @ + WalletBlockRent]
  /\ wallet_block' = wallet_block \ {place}
  /\ config' = [config EXCEPT ![c].blocked_wallets_count = CountAfterUnblock(@)]
  /\ UNCHANGED <<hookedVars, extra_metas, asked>>
  /\ FrozenNext

LayoutFor(count, both) ==
  IF count = 0 THEN "EMPTY_DEPENDENCIES"
  ELSE IF both THEN "BOTH_DEPENDENCIES"
  ELSE "SOURCE_DEPENDENCY"

\* An account that is too poor for its new size is topped up, a surplus returned.
LamportsFor(layout) == MinimumBalance(layout)

\* Only the form of the config is looked at: whose account it is and where is not.
Configs == {c \in ConfigAddresses : config[c].authority # Nobody}
CountsRead == {config[c].blocked_wallets_count : c \in Configs} \cup ForeignCounts

SetupExtraMetas(a, count, both) ==
  LET layout == LayoutFor(count, both)
      lamports == LamportsFor(layout) IN
  /\ a = TransferHookAuthority
  /\ purse[a] + extra_metas.lamports >= lamports
  /\ purse' = [purse EXCEPT ![a] = @ + extra_metas.lamports - lamports]
  /\ extra_metas' = [layout |-> layout, lamports |-> lamports]
  /\ asked' = IF count = 0 THEN {}
              ELSE {"source"} \cup {side \in {"destination"} : both}
  /\ UNCHANGED <<hookedVars, config, wallet_block>>
  /\ FrozenNext

\* TxHook::process on the source: given its wallet block, the account must not be able
\* to change owner, and a blocked owner's tokens move only by someone who is neither
\* owner nor delegate, that is by the permanent delegate.
SourcePasses(from, by) ==
  /\ from \in ImmutableOwner
  /\ ~ (account[from].owner \in wallet_block
        /\ by \in {account[from].owner, account[from].delegate})

DestinationPasses(to) == to \in ImmutableOwner /\ account[to].owner \notin wallet_block

\* Which of the wallet blocks the hook is given, by the number of extra accounts.
TxHook(from, to, by) ==
  /\ extra_metas.layout \in Enforcing => SourcePasses(from, by)
  /\ extra_metas.layout = "BOTH_DEPENDENCIES" => DestinationPasses(to)

BlockListTransfer(from, to, by, n) ==
  /\ Transfer(from, to, by, n)
  /\ TxHook(from, to, by)
  /\ UNCHANGED <<config, wallet_block, extra_metas, purse, asked>>
  /\ FrozenNext

BlockListNext ==
  \/ \E w \in ListAuthorities, c \in ConfigAddresses : InitConfig(w, c)
  \/ \E a \in ListAuthorities, c \in ConfigAddresses, place \in BlockAddresses :
       BlockWallet(a, c, place) \/ UnblockWallet(a, c, place)
  \/ \E a \in Wallets, count \in CountsRead, both \in BOOLEAN :
       SetupExtraMetas(a, count, both)
  \/ \E from, to \in TokenAccounts, by \in Wallets, n \in TransferAmounts :
       BlockListTransfer(from, to, by, n)
  \/ /\ OwnerNext
     /\ UNCHANGED <<config, wallet_block, extra_metas, purse, asked>>
     /\ FrozenNext

-----------------------------------------------------------------------------

BlockListTypeOK ==
  /\ config \in [ConfigAddresses -> [authority: ListAuthorities \cup {Nobody},
                                      blocked_wallets_count: Nat]]
  /\ wallet_block \subseteq BlockAddresses
  /\ extra_metas \in [layout: Layouts \cup {NoMetas}, lamports: Nat]
  /\ purse \in [Wallets -> Nat]
  /\ asked \subseteq {"source", "destination"} /\ frozen \subseteq TokenAccounts \X Wallets

Counts == [c \in ConfigAddresses |-> config[c].blocked_wallets_count]

\* A block may be counted in one config and unblocked through another, but the counts of
\* all configs come to the number of block accounts (block_wallet, unblock_wallet).  So
\* nobody stays blocked because no count is left to take from: there is always an
\* authority whose unblock_wallet passes.
CountsAreBlocks ==
  /\ SumFunction(Counts) = Cardinality(wallet_block)
  /\ \A place \in wallet_block :
       \E c \in Configs : CanUnblock(config[c].authority, c, place)

\* "Tracks the number of blocked wallets" (readme.md:21 of block-list): each config's
\* count is the length of the list.  Not so with a second config, or a block account
\* elsewhere than at the derived address.
CountIsList ==
  \A c \in Configs : config[c].blocked_wallets_count = Cardinality(wallet_block \cap Wallets)

\* Rents come back: what the wallets paid is in the configs, the block accounts and the
\* metas, which are rent exempt for the layout they hold and hold no more.
BlockListRents ==
  /\ SumFunction(purse) + ConfigRent * Cardinality(Configs)
       + WalletBlockRent * Cardinality(wallet_block) + extra_metas.lamports
     = Purse * Cardinality(Wallets)
  /\ extra_metas.lamports = MinimumBalance(extra_metas.layout)

\* "TA owners could bypass wallet blocks by changing the owner to a different wallet":
\* what a wallet owned at a time when it was blocked, and the issuer's last setup had
\* read a list that is not empty, then leaves its account only by the permanent delegate,
\* whoever owns the account later and whatever the configs count later, and until
\* somebody unblocks the wallet or the issuer reads an empty list.  If the setup asked
\* for both sides, nothing arrives there either.
FrozenStays ==
  \A p \in frozen :
    /\ account'[p[1]].tokens < account[p[1]].tokens =>
         /\ permanent # Nobody
         /\ \E to \in TokenAccounts, n \in TransferAmounts :
              BlockListTransfer(p[1], to, permanent, n)
    /\ "destination" \in asked => account'[p[1]].tokens <= account[p[1]].tokens
=============================================================================
