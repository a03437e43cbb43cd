---------------------------- MODULE HookExamples ----------------------------
(***************************************************************************)
(* Four small hooks of tokens/token-2022/transfer-hook (Anchor), one       *)
(* deployed at a time:                                                     *)
(*   hello-world           only looks whether a transfer is going on;      *)
(*   counter               reads one counter, of all mints;                *)
(*   account-data-as-seed  reads the counter of the source's owner;        *)
(*   transfer-cost         moves as much wrapped SOL as tokens, from the   *)
(*                         owner to the program, which the owner has       *)
(*                         approved as a delegate.                         *)
(* None of the counter accounts is mutable in the hook, so that what the   *)
(* hooks add to a counter is never written.                                *)
(***************************************************************************)
EXTENDS HookedMint

CONSTANTS
  ListMints,            \* mints a list may be made for; Hooked is the one that moves
  Hooked,
  ListPayers,           \* wallets that make the lists
  WrappedSol,           \* wrapped SOL of each wallet
  Allowances            \* bound: what an owner approves the program for

Examples == {"hello-world", "counter", "account-data-as-seed", "transfer-cost"}

ASSUME ExamplesAssumption ==
  /\ Hooked \in ListMints /\ ListPayers \subseteq Wallets
  /\ WrappedSol \in [Wallets -> Nat] /\ Allowances \subseteq Nat

VARIABLES
  example,              \* the hook deployed
  hook_lists,           \* mints with an extra-metas list
  counter_account,      \* counters by seed, of the accounts created
  wsol,                 \* each wallet's wrapped SOL, and what the program may take of it
  delegate_wsol,        \* the program's
  transferred           \* history: tokens moved, and by how many transfers

exampleVars == <<example, hook_lists, counter_account, wsol, delegate_wsol, transferred>>

Shared == "counter"     \* the seed of the one counter

\* Slips: a hook that runs outside a transfer, a fee that is a unit whatever the amount,
\* a list that is made without the counter.
Anytime(transferring) == TRUE
FlatFee(n) == 1
ListOnly(seed) == {}

CheckIsTransferring(transferring) == transferring

Fee(n) == n

\* The counter a list is created together with, and the one a transfer by w needs.
CounterMade(payer) ==
  CASE example \in {"counter", "transfer-cost"} -> {Shared}
    [] example = "account-data-as-seed" -> {payer}
    [] OTHER -> {}

CounterNeeded(w) == CounterMade(w)

ExamplesInit ==
  /\ example \in Examples
  /\ hook_lists = {}
  /\ counter_account = [seed \in {} |-> 0]
  /\ wsol = [w \in Wallets |-> [amount |-> WrappedSol[w], allowance |-> 0]]
  /\ delegate_wsol = 0
  /\ transferred = [tokens |-> 0, times |-> 0]

\* Both accounts are init: neither the list nor the counter may exist yet.
InitializeExtraAccountMetaList(payer, m) ==
  /\ m \notin hook_lists
  /\ CounterMade(payer) \cap DOMAIN counter_account = {}
  /\ hook_lists' = hook_lists \cup {m}
  /\ counter_account' = [seed \in DOMAIN counter_account \cup CounterMade(payer) |->
                           IF seed \in DOMAIN counter_account THEN counter_account[seed] ELSE 0]
  /\ UNCHANGED <<hookedVars, example, wsol, delegate_wsol, transferred>>

\* The owner approves the program's delegate on its wrapped SOL.
ApproveFee(w, n) ==
  /\ example = "transfer-cost"
  /\ wsol' = [wsol EXCEPT ![w].allowance = n]
  /\ UNCHANGED <<hookedVars, example, hook_lists, counter_account, delegate_wsol, transferred>>

\* transfer_checked by the delegate.
TakeFee(w, n) ==
  /\ wsol[w].amount >= Fee(n) /\ wsol[w].allowance >= Fee(n)
  /\ wsol' = [wsol EXCEPT ![w] = [amount |-> @.amount - Fee(n),
                                  allowance |-> @.allowance - Fee(n)]]
  /\ delegate_wsol' = delegate_wsol + Fee(n)

\* The hook itself, whose accounts are checked first: the source is owned by the wallet
\* that signs, so that a delegate's transfer fails, and the counter, if any, exists.
TransferHook(from, by, n, transferring) ==
  /\ account[from].owner = by
  /\ CounterNeeded(by) \subseteq DOMAIN counter_account
  /\ CheckIsTransferring(transferring)
  /\ IF example = "transfer-cost" THEN TakeFee(by, n)
     ELSE UNCHANGED <<wsol, delegate_wsol>>
  /\ UNCHANGED counter_account

\* Without its list a transfer lacks the accounts of the hook.  (Bound: the history
\* counts the tokens of the transfers that cost something, and none otherwise.)
ExamplesTransfer(from, to, by, n) ==
  /\ Hooked \in hook_lists
  /\ Transfer(from, to, by, n)
  /\ TransferHook(from, by, n, TRUE)
  /\ transferred' =
       IF example = "transfer-cost"
       THEN [tokens |-> transferred.tokens + n, times |-> transferred.times + 1]
       ELSE [transferred EXCEPT !.times = IF @ = 2 THEN @ ELSE @ + 1]
  /\ UNCHANGED <<example, hook_lists>>

\* The hook as an instruction of its own, which anyone may send: an account that is not
\* in a transfer fails it, and nothing changes.
HookAlone(from, by, n) ==
  /\ Hooked \in hook_lists
  /\ IF CheckIsTransferring(FALSE)
     THEN TransferHook(from, by, n, FALSE)
     ELSE UNCHANGED <<wsol, delegate_wsol, counter_account>>
  /\ UNCHANGED <<hookedVars, example, hook_lists, transferred>>

ExamplesNext ==
  \/ \E w \in ListPayers, m \in ListMints : InitializeExtraAccountMetaList(w, m)
  \/ \E w \in Wallets, n \in Allowances : ApproveFee(w, n)
  \/ \E from, to \in TokenAccounts, by \in Wallets, n \in TransferAmounts :
       ExamplesTransfer(from, to, by, n)
  \/ \E from \in TokenAccounts, by \in Wallets, n \in TransferAmounts :
       HookAlone(from, by, n)
  \/ OwnerNext /\ UNCHANGED exampleVars

-----------------------------------------------------------------------------

ExamplesTypeOK ==
  /\ example \in Examples
  /\ hook_lists \subseteq ListMints
  /\ DOMAIN counter_account \subseteq ListPayers \cup {Shared}
  /\ \A seed \in DOMAIN counter_account : counter_account[seed] \in Nat
  /\ wsol \in [Wallets -> [amount: Nat, allowance: Nat]]
  /\ delegate_wsol \in Nat
  /\ transferred \in [tokens: Nat, times: Nat]

\* "charges a SOL fee on token transfer": the program has collected a unit of wrapped SOL
\* for each token that was transferred, and nothing else, whatever was approved or
\* revoked in between.
FeesMatchTransfers ==
  /\ delegate_wsol = transferred.tokens
  /\ SumFunction([w \in Wallets |-> wsol[w].amount]) + delegate_wsol
       = SumFunction(WrappedSol)

\* Where a list comes with a counter there are as many of one as of the other: the
\* counter program serves one mint, and with a counter for each owner each wallet can
\* make the list of one mint only.
ListsHaveCounters ==
  example # "hello-world" => Cardinality(hook_lists) = Cardinality(DOMAIN counter_account)

\* "Count how many times tokens have been transferred using a transfer hook": the
\* counter is the number of transfers.  The code adds to it and stores nothing.
CountsTransfers ==
  example = "counter" /\ Shared \in DOMAIN counter_account =>
    counter_account[Shared] = transferred.times
=============================================================================
