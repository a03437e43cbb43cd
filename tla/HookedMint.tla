----------------------------- MODULE HookedMint -----------------------------
(***************************************************************************)
(* The Token-2022 program as the transfer hooks of                         *)
(* tokens/token-2022/transfer-hook see it: the token accounts of one mint, *)
(* and a transfer, which calls the program named by the mint's             *)
(* transfer-hook extension after it has checked who may move the tokens.   *)
(* A hook that fails aborts the transfer.  The code of Token-2022 is not   *)
(* in the repository; what is modelled is what the hooks rely on.          *)
(***************************************************************************)
EXTENDS Integers, FiniteSets, Functions

CONSTANTS
  TokenAccounts,        \* token accounts of the mint
  Wallets,              \* who owns them and signs
  ImmutableOwner,       \* token accounts with the immutable-owner extension
  InitialOwner,         \* of each at the start
  InitialTokens,
  PermanentDelegates,   \* whom the mint may have as permanent delegate, or Nobody
  TransferAmounts,      \* bound: the amounts of a transfer
  Approvals, NewOwners  \* bounds: delegates and owners that accounts may be given

Nobody == "nobody"

ASSUME HookedAssumption ==
  /\ IsFiniteSet(TokenAccounts) /\ IsFiniteSet(Wallets) /\ Nobody \notin Wallets
  /\ ImmutableOwner \subseteq TokenAccounts
  /\ InitialOwner \in [TokenAccounts -> Wallets]
  /\ InitialTokens \in [TokenAccounts -> Nat]
  /\ PermanentDelegates \subseteq Wallets \cup {Nobody}
  /\ TransferAmounts \subseteq Nat
  /\ Approvals \cup NewOwners \subseteq TokenAccounts \X Wallets

VARIABLES
  permanent,            \* the mint's permanent delegate
  account               \* token accounts: owner, delegate, tokens

hookedVars == <<permanent, account>>

HookedInit ==
  /\ permanent \in PermanentDelegates
  /\ account = [a \in TokenAccounts |->
                  [owner |-> InitialOwner[a], delegate |-> Nobody, tokens |-> InitialTokens[a]]]

\* The owner approves a delegate, for any amount, or revokes it.
Approve(a, w) ==
  /\ account' = [account EXCEPT ![a].delegate = w]
  /\ UNCHANGED permanent

\* SetAuthority, which the immutable-owner extension rules out.
ChangeOwner(a, w) ==
  /\ a \notin ImmutableOwner
  /\ account' = [account EXCEPT ![a].owner = w, ![a].delegate = Nobody]
  /\ UNCHANGED permanent

MayMove(a, by) == by \in {account[a].owner, account[a].delegate, permanent} \ {Nobody}

\* Slip: the source is not debited.
Credited(from, to, n) == [account EXCEPT ![to].tokens = @ + n]

Moved(from, to, n) == [[account EXCEPT ![from].tokens = @ - n] EXCEPT ![to].tokens = @ + n]

\* The transfer up to the hook, which an action conjoins: both accounts are of the
\* mint and by is entitled.  (A transfer of an account to itself calls no hook.)
Transfer(from, to, by, n) ==
  /\ from # to
  /\ MayMove(from, by)
  /\ account[from].tokens >= n
  /\ account' = Moved(from, to, n)
  /\ UNCHANGED permanent

\* What owners do without a hook.
OwnerNext ==
  \/ \E p \in Approvals, revoke \in BOOLEAN :
       Approve(p[1], IF revoke THEN Nobody ELSE p[2])
  \/ \E p \in NewOwners : ChangeOwner(p[1], p[2])

-----------------------------------------------------------------------------

HookedTypeOK ==
  /\ permanent \in PermanentDelegates
  /\ account \in [TokenAccounts -> [owner: Wallets, delegate: Wallets \cup {Nobody},
                                    tokens: Nat]]

TokensIssued == SumFunction(InitialTokens)
TokensTotal == SumFunction([a \in TokenAccounts |-> account[a].tokens])
=============================================================================
