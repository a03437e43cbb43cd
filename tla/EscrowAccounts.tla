--------------------------- MODULE EscrowAccounts ---------------------------
(***************************************************************************)
(* What the three implementations of tokens/escrow share: the offer        *)
(* accounts, the SPL token accounts and what the token, associated-token   *)
(* and system programs do to them, and what other transactions may do in   *)
(* between.  EscrowAnchor, EscrowNative and EscrowPinocchio add the        *)
(* instructions of one implementation each.                                *)
(*                                                                         *)
(* An instruction is one action.  Its CPIs are applied one after the other *)
(* to a ledger of the token accounts, because the same account may be      *)
(* passed in two places: a maker may take its own offer, and an offer may  *)
(* want the token it offers.                                               *)
(***************************************************************************)
EXTENDS Integers, FiniteSets, Functions

CONSTANTS
  Programs,         \* bound: the implementations looked at
  Wallets,          \* system accounts that can sign
  Makers,           \* bound: the wallets that try make_offer
  Ids,              \* bound: the ids they try
  Bumps,            \* bumps that give an address for the seeds of an offer
  CANONICAL,        \* the one find_program_address returns
  Mints,
  Terms,            \* bound: what is offered and wanted, of each program
  Fresh,            \* bound: token accounts others may create
  Prefunded,        \* bound: the addresses others may send lamports to
  Givers,           \* bound: the wallets that send tokens and lamports
  MaxLamports,      \* bound: an offer address with more is not sent any
  MaxTokens,        \* bound: a token account with more is not sent any
  Holding,          \* amounts of the token accounts at the start, of each
  Endowment,        \* lamports of each wallet at the start, of each program
  OfferRent,        \* rent minimum of an offer account
  TokenRent,        \* rent minimum of a token account
  RentFloor         \* rent minimum of an account without data

\* The seeds of the PDA of an offer; its address owns the offer's vault.
OfferKeys == [maker: Makers, id: Ids, bump: Bumps]
Holders == Wallets \cup OfferKeys

\* The address of the associated token account of an owner for a mint, and of
\* another token account of that owner for that mint.
TokenAccounts == [owner: Holders, mint: Mints, kind: {"ata", "other"}]
Ata(owner, mint) == [owner |-> owner, mint |-> mint, kind |-> "ata"]
AccountsOf(owner) == {x \in TokenAccounts : x.owner = owner}

NoAccount == -1     \* the address holds no token account

\* No wallet has the address of an offer: a PDA has no key to sign with.
ASSUME EscrowAssumption ==
  /\ IsFiniteSet(Wallets) /\ IsFiniteSet(Ids)
  /\ IsFiniteSet(Mints) /\ Mints # {}
  /\ Makers \subseteq Wallets /\ Givers \subseteq Wallets
  /\ Wallets \cap OfferKeys = {}
  /\ Bumps \subseteq 0 .. 255 /\ CANONICAL \in Bumps
  /\ \A p \in Programs :
       /\ Terms[p] \subseteq [mint_a: Mints, mint_b: Mints, offered: Nat,
                              wanted: Nat]
       /\ Holding[p] \in [TokenAccounts -> Nat \cup {NoAccount}]
       /\ Endowment[p] \in [Wallets -> Nat]
  /\ Fresh \subseteq TokenAccounts /\ Prefunded \subseteq TokenAccounts \cup OfferKeys
  /\ MaxLamports \in Nat /\ MaxTokens \in Nat
  /\ OfferRent \in Nat /\ TokenRent \in Nat
  /\ RentFloor \in Nat \ {0}
  /\ RentFloor <= TokenRent /\ RentFloor <= OfferRent

VARIABLES
  program,          \* the implementation deployed, the same throughout
  offer,            \* the data of each offer account
  lamports,         \* of wallets and offer addresses
  amount,           \* of tokens in each token account
  tokenLamports,    \* lamports at each token account address
  made              \* history: what each offer deposited, and who paid its rent

vars == <<program, offer, lamports, amount, tokenLamports, made>>

NoOffer == [open |-> FALSE, mint_a |-> CHOOSE m \in Mints : TRUE,
            mint_b |-> CHOOSE m \in Mints : TRUE, wanted |-> 0]
OfferOf(o) == [open |-> TRUE, mint_a |-> o.mint_a, mint_b |-> o.mint_b,
               wanted |-> o.wanted]
Vault(k) == Ata(k, offer[k].mint_a)

\* A slip (see below) of TopUp: an address that holds anything passes as paid.
TopUpIfEmpty(held, rent) == IF held = 0 THEN rent ELSE 0

\* What creating an account at an address costs beyond what the address holds.
TopUp(held, rent) == IF held < rent THEN rent - held ELSE 0

\* The balances when n is added at the address h, or taken if n < 0.
Credit(balances, h, n) == [balances EXCEPT ![h] = @ + n]

-----------------------------------------------------------------------------
(* The ledger: the token accounts while an instruction runs, and what its     *)
(* payer owes for those it created.                                           *)

Ledger == [amount |-> amount, lam |-> tokenLamports, due |-> 0]

Exists(s, x) == s.amount[x] # NoAccount

\* associated-token create: tops up what the address already holds.
Created(s, x) ==
  [amount |-> [s.amount EXCEPT ![x] = 0],
   lam |-> [s.lam EXCEPT ![x] = @ + TopUp(@, TokenRent)],
   due |-> s.due + TopUp(s.lam[x], TokenRent)]

\* associated-token create_idempotent, and Anchor's init_if_needed.
Ensured(s, x) == IF Exists(s, x) THEN s ELSE Created(s, x)

\* token transfer, which needs both accounts, of one mint, and the amount.
CanSend(s, from, to, n) ==
  Exists(s, from) /\ Exists(s, to) /\ from.mint = to.mint /\ s.amount[from] >= n
Sent(s, from, to, n) ==
  [s EXCEPT !.amount = Credit(Credit(@, from, -n), to, n)]

\* token close_account, which needs an empty account.
CanClose(s, x) == Exists(s, x) /\ s.amount[x] = 0
Closed(s, x) ==
  [amount |-> [s.amount EXCEPT ![x] = NoAccount],
   lam |-> [s.lam EXCEPT ![x] = 0],
   due |-> s.due]

Commit(s) == amount' = s.amount /\ tokenLamports' = s.lam

-----------------------------------------------------------------------------
(* Slips: wrong forms of the definitions named in the comments (README).      *)

\* IsVault: any token account of the offer's address passes.
IsOwnedByOffer(k, mint_a, v) == v.owner = k /\ v.mint = mint_a
\* VaultAmount: what was deposited, though more may have been sent in since.
DepositOnly(k, v) == made[k].offered
\* Price: the maker is paid what it offered.
OfferedAmount(k) == made[k].offered
\* OfferLamports: what the account holds above its rent is forgotten.
OfferRentOnly(k) == OfferRent

-----------------------------------------------------------------------------
(* What the instructions of the three implementations have in common.         *)

\* The account passed as the vault is the associated one of the offer.
IsVault(k, mint_a, v) == v = Ata(k, mint_a)

\* The vault's amount is read before anything is transferred.
VaultAmount(k, v) == amount[v]
Price(k) == offer[k].wanted
OfferLamports(k) == lamports[k]

\* make_offer: the deposit, into a vault that exists in ledger s.
Deposits(s, k, o, from, v) ==
  /\ CanSend(s, from, v, o.offered)
  /\ Commit(Sent(s, from, v, o.offered))
  /\ offer' = [offer EXCEPT ![k] = OfferOf(o)]

\* take_offer: from pays into maker_b, the vault v is emptied into taker_a and
\* closed, and so is the offer; s is the ledger when the recipients exist.
Released(s, k, from, maker_b, taker_a, v) ==
  Sent(Sent(s, from, maker_b, Price(k)), v, taker_a, VaultAmount(k, v))
CanSwap(s, k, from, maker_b, taker_a, v) ==
  /\ CanSend(s, from, maker_b, Price(k))
  /\ CanSend(Sent(s, from, maker_b, Price(k)), v, taker_a, VaultAmount(k, v))
  /\ CanClose(Released(s, k, from, maker_b, taker_a, v), v)
Swaps(s, k, from, maker_b, taker_a, v) ==
  /\ CanSwap(s, k, from, maker_b, taker_a, v)
  /\ Commit(Closed(Released(s, k, from, maker_b, taker_a, v), v))
  /\ offer' = [offer EXCEPT ![k] = NoOffer]

\* refund_offer: the vault v is emptied into maker_a and closed, and so is the
\* offer.
CanReturn(k, maker_a, v) ==
  /\ CanSend(Ledger, v, maker_a, VaultAmount(k, v))
  /\ CanClose(Sent(Ledger, v, maker_a, VaultAmount(k, v)), v)
Returns(k, maker_a, v) ==
  /\ CanReturn(k, maker_a, v)
  /\ Commit(Closed(Sent(Ledger, v, maker_a, VaultAmount(k, v)), v))
  /\ offer' = [offer EXCEPT ![k] = NoOffer]

\* The checks of refund_offer, which are those of all three.
CanRefund(w, k, v) ==
  /\ offer[k].open
  /\ w = k.maker
  /\ IsVault(k, offer[k].mint_a, v)
  /\ CanReturn(k, Ata(w, offer[k].mint_a), v)

-----------------------------------------------------------------------------

InitAccounts ==
  /\ program \in Programs
  /\ offer = [k \in OfferKeys |-> NoOffer]
  /\ lamports = [h \in Holders |-> IF h \in Wallets THEN Endowment[program][h] ELSE 0]
  /\ amount = Holding[program]
  /\ tokenLamports =
       [x \in TokenAccounts |-> IF Holding[program][x] = NoAccount THEN 0 ELSE TokenRent]
  /\ made = [k \in OfferKeys |-> [offered |-> 0, funder |-> k.maker]]

\* Anyone may create a token account for any owner, an offer address included,
\* before the offer is made or while it is open.
CreateToken(w, x) ==
  LET s == Created(Ledger, x)
  IN  /\ ~Exists(Ledger, x)
      /\ lamports[w] >= s.due
      /\ lamports' = Credit(lamports, w, -s.due)
      /\ Commit(s)
      /\ UNCHANGED <<program, offer, made>>

\* An owner closes an empty token account of its own.
CloseToken(w, x) ==
  /\ x.owner = w
  /\ CanClose(Ledger, x)
  /\ lamports' = Credit(lamports, w, tokenLamports[x])
  /\ Commit(Closed(Ledger, x))
  /\ UNCHANGED <<program, offer, made>>

\* Anyone may send tokens to any token account of an offer address.
GiveToken(w, x) ==
  LET from == Ata(w, x.mint)
  IN  /\ x.owner \in OfferKeys
      /\ amount[x] <= MaxTokens
      /\ CanSend(Ledger, from, x, 1)
      /\ Commit(Sent(Ledger, from, x, 1))
      /\ UNCHANGED <<program, offer, lamports, made>>

\* Anyone may send lamports to the address of a token account that does not
\* exist yet, or of an offer, open or not.
PrefundToken(w, x) ==
  /\ ~Exists(Ledger, x) /\ tokenLamports[x] = 0
  /\ lamports[w] >= RentFloor
  /\ lamports' = Credit(lamports, w, -RentFloor)
  /\ tokenLamports' = [tokenLamports EXCEPT ![x] = RentFloor]
  /\ UNCHANGED <<program, offer, amount, made>>

GiveOffer(w, k) ==
  /\ lamports[k] <= MaxLamports
  /\ lamports[w] >= RentFloor
  /\ lamports' = Credit(Credit(lamports, w, -RentFloor), k, RentFloor)
  /\ UNCHANGED <<program, offer, amount, tokenLamports, made>>

Others ==
  \/ \E w \in Givers, x \in Fresh : CreateToken(w, x)
  \/ \E w \in Wallets, x \in TokenAccounts : CloseToken(w, x)
  \/ \E w \in Givers, x \in TokenAccounts : GiveToken(w, x)
  \/ \E w \in Givers, x \in Prefunded \cap TokenAccounts : PrefundToken(w, x)
  \/ \E w \in Givers, k \in Prefunded \cap OfferKeys : GiveOffer(w, k)

-----------------------------------------------------------------------------

\* The wallet has what a taker of the open offer needs: the wanted tokens in its
\* associated account, and lamports for the accounts that may be created.
CanAfford(w, k) ==
  /\ offer[k].open
  /\ offer[k].mint_a # offer[k].mint_b
  /\ amount[Ata(w, offer[k].mint_b)] >= offer[k].wanted
  /\ lamports[w] >= 2 * TokenRent

\* Every variable holds a value of its type, and the accounts that exist hold
\* their rent minimum, however much their address held before.
TypeOK ==
  /\ offer \in [OfferKeys -> [open: BOOLEAN, mint_a: Mints, mint_b: Mints,
                              wanted: Nat]]
  /\ lamports \in [Holders -> Nat]
  /\ amount \in [TokenAccounts -> Nat \cup {NoAccount}]
  /\ tokenLamports \in [TokenAccounts -> Nat]
  /\ made \in [OfferKeys -> [offered: Nat, funder: Wallets]]
  /\ \A k \in OfferKeys : offer[k].open => lamports[k] >= OfferRent
  /\ \A x \in TokenAccounts : Exists(Ledger, x) => tokenLamports[x] >= TokenRent

\* An open offer is backed: its own vault, not another account of its address,
\* holds what the maker offered (test "Take Offer rejects a substitute vault
\* account").
OffersBacked ==
  \A k \in OfferKeys : offer[k].open =>
    amount[Vault(k)] >= made[k].offered

\* No instruction creates or destroys lamports, whoever is passed as maker,
\* taker and payer: the balances set directly when an offer account is closed
\* add up with those the system and token programs moved.
LamportsConserved ==
  SumFunction(lamports) + SumFunction(tokenLamports)
    = SumFunction(Endowment[program])
      + TokenRent * Cardinality({x \in TokenAccounts : Holding[program][x] # NoAccount})

\* Every variable holds a value of its type, offers are backed, and lamports conserved.
AccountsAddUp == TypeOK /\ OffersBacked /\ LamportsConserved

\* The promise of module AtomicSwap, read off the token accounts.
Held(x) == IF Exists(Ledger, x) THEN amount[x] ELSE 0
TokensOf(w, m) == Held(Ata(w, m)) + Held([Ata(w, m) EXCEPT !.kind = "other"])

Swap == INSTANCE AtomicSwap WITH
  Parties <- Wallets,
  Offers <- OfferKeys,
  Tokens <- Mints,
  terms <- [k \in OfferKeys |->
              IF ~offer[k].open THEN {}
              ELSE {[mint_a |-> offer[k].mint_a, mint_b |-> offer[k].mint_b,
                     wanted |-> offer[k].wanted]}],
  purse <- [w \in Wallets |-> [m \in Mints |-> TokensOf(w, m)]],
  pot <- [k \in OfferKeys |-> [m \in Mints |-> Held(Ata(k, m))]]

\* Every instruction is one step of the swap and every other transaction a gift
\* or no step at all: whatever accounts are passed, in whatever places, nobody
\* pays another price or gets another amount, and nothing is left in a vault.
ImplementsSwap == Swap!Spec
=============================================================================
