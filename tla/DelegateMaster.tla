--------------------------- MODULE DelegateMaster ---------------------------
(***************************************************************************)
(* tokens/external-delegate-token-master (Anchor): tokens of a user        *)
(* account's PDA are moved by the account's authority, alone or with an    *)
(* Ethereum signature over the transfer and the account's nonce.           *)
(*                                                                         *)
(* A signature is the key that made it and what it signs: Keccak-256 is    *)
(* taken as injective, and recovery of a key from a signature and another  *)
(* digest gives no key that anybody holds.                                 *)
(***************************************************************************)
EXTENDS Integers, FiniteSets, Functions

CONSTANTS
  UserAccounts,         \* addresses user accounts can be created at
  Authorities,          \* wallets
  EthKeys,              \* Ethereum addresses somebody holds the key of
  DelegateAccounts,     \* token accounts
  OwnerOf,              \* the user account whose PDA owns it, or another owner
  Deposited,            \* tokens in each at the start
  Signable,             \* bound: the signatures that may be made
  SignedAmounts,        \* bound: amounts transferred
  MaxNonce              \* bound of the nonce

NoKey == "0x0"            \* [0; 20], nobody's address
NoAuthority == "none"     \* the account does not exist

\* What transfer_digest binds: where the tokens move, how many, and the nonce.
Digests == [user: UserAccounts, from: DelegateAccounts, to: DelegateAccounts,
            amount: SignedAmounts, nonce: 0 .. MaxNonce]

ASSUME DelegateAssumption ==
  /\ Signable \subseteq [key: EthKeys, digest: Digests]
  /\ Deposited \in [DelegateAccounts -> Nat]
  /\ DOMAIN OwnerOf = DelegateAccounts
  /\ NoAuthority \notin Authorities
  /\ SignedAmounts \subseteq Nat /\ MaxNonce \in Nat

VARIABLES
  user,             \* the user accounts
  held,             \* tokens in each token account
  signatures,       \* made so far, and never forgotten: anyone may submit them
  executed          \* history: how often each was accepted

delegateVars == <<user, held, signatures, executed>>

Digest(u, from, to, amount, nonce) ==
  [user |-> u, from |-> from, to |-> to, amount |-> amount, nonce |-> nonce]

\* Slips: a nonce that stays (NextNonce), and one that a new address resets
\* (WithAddress).
SameNonce(nonce) == nonce
WithAddressReset(u, key) == [user[u] EXCEPT !.ethereum_address = key, !.nonce = 0]

NextNonce(nonce) == nonce + 1
WithAddress(u, key) == [user[u] EXCEPT !.ethereum_address = key]

-----------------------------------------------------------------------------

DelegateInit ==
  /\ user = [u \in UserAccounts |->
               [authority |-> NoAuthority, ethereum_address |-> NoKey, nonce |-> 0]]
  /\ held = Deposited
  /\ signatures = {}
  /\ executed = [sig \in {} |-> 0]

InitializeUser(a, u) ==
  /\ user[u].authority = NoAuthority
  /\ user' = [user EXCEPT ![u] = [authority |-> a, ethereum_address |-> NoKey,
                                  nonce |-> 0]]
  /\ UNCHANGED <<held, signatures, executed>>

SetEthereumAddress(a, u, key) ==
  /\ user[u].authority = a
  /\ user' = [user EXCEPT ![u] = WithAddress(u, key)]
  /\ UNCHANGED <<held, signatures, executed>>

\* A key holder signs a transfer, for this nonce or a later one.
SignTransfer(sig) ==
  /\ signatures' = signatures \cup {sig}
  /\ UNCHANGED <<user, held, executed>>

\* The token program: the PDA must own the source, and the source have the amount.
Moves(u, from, to, amount) ==
  /\ OwnerOf[from] = u
  /\ held[from] >= amount
  /\ held' = [[held EXCEPT ![from] = @ - amount] EXCEPT ![to] = @ + amount]

\* verify_ethereum_signature: the recovered address is the one on record.
Verifies(u, digest, sig) == sig.key = user[u].ethereum_address /\ sig.digest = digest

TransferTokens(a, u, from, to, amount, sig) ==
  /\ user[u].authority = a
  /\ Verifies(u, Digest(u, from, to, amount, user[u].nonce), sig)
  /\ user[u].nonce < MaxNonce
  /\ user' = [user EXCEPT ![u].nonce = NextNonce(@)]
  /\ Moves(u, from, to, amount)
  /\ executed' = [s \in DOMAIN executed \cup {sig} |->
                    (IF s \in DOMAIN executed THEN executed[s] ELSE 0)
                      + (IF s = sig THEN 1 ELSE 0)]
  /\ UNCHANGED signatures

AuthorityTransfer(a, u, from, to, amount) ==
  /\ user[u].authority = a
  /\ Moves(u, from, to, amount)
  /\ UNCHANGED <<user, signatures, executed>>

DelegateNext ==
  \/ \E a \in Authorities, u \in UserAccounts : InitializeUser(a, u)
  \/ \E a \in Authorities, u \in UserAccounts, key \in EthKeys :
       SetEthereumAddress(a, u, key)
  \/ \E sig \in Signable : SignTransfer(sig)
  \/ \E a \in Authorities, u \in UserAccounts, from, to \in DelegateAccounts,
        n \in SignedAmounts, sig \in signatures : TransferTokens(a, u, from, to, n, sig)
  \/ \E a \in Authorities, u \in UserAccounts, from, to \in DelegateAccounts,
        n \in SignedAmounts : AuthorityTransfer(a, u, from, to, n)

DelegateSpec == DelegateInit /\ [][DelegateNext]_delegateVars

-----------------------------------------------------------------------------

DelegateTypeOK ==
  /\ user \in [UserAccounts -> [authority: Authorities \cup {NoAuthority},
                                ethereum_address: EthKeys \cup {NoKey},
                                nonce: 0 .. MaxNonce]]
  /\ held \in [DelegateAccounts -> Nat]
  /\ signatures \subseteq Signable
  /\ DOMAIN executed \subseteq signatures
  /\ \A sig \in DOMAIN executed : executed[sig] \in Nat

\* The signatures that moved tokens of this account.
SignedFor(u) == {sig \in DOMAIN executed : sig.digest.user = u}

\* "A signature can't be replayed for a different transfer or reused after it's been
\* consumed": each is accepted at most once, however the keys on record change in
\* between, and the nonce of an account is the number of signed transfers it made, so
\* that no signature for a nonce that is used up can still be accepted.
SignedOnce ==
  /\ \A sig \in DOMAIN executed : executed[sig] <= 1
  /\ \A u \in UserAccounts :
       SumFunction([sig \in SignedFor(u) |-> executed[sig]]) = user[u].nonce
=============================================================================
