--------------------------- MODULE TransferHooks ---------------------------
(***************************************************************************)
(* A mint of Token-2022 with each of the transfer hooks of                 *)
(* tokens/token-2022/transfer-hook.  A mint has one hook, so a behaviour   *)
(* is that of the mint and one of the programs.                            *)
(***************************************************************************)
EXTENDS BlockList, AllowBlockList, TransferSwitch, HookExamples

VARIABLE hook           \* the program in the mint's extension

hookVars == <<hookedVars, listVars, abVars, switchVars, exampleVars, hook>>

HookPrograms == {"block-list", "abl-token", "transfer-switch", "example"}

Init ==
  /\ hook \in HookPrograms
  /\ HookedInit
  /\ BlockListInit /\ AllowBlockInit /\ SwitchInit /\ ExamplesInit
  \* The choices of a program that is not looked at are fixed.
  /\ hook # "example" => example = "hello-world"
  /\ hook # "abl-token" => mint = "absent"
  /\ hook # "block-list" => permanent = Nobody

Next ==
  \/ /\ hook = "block-list"
     /\ BlockListNext
     /\ UNCHANGED <<abVars, switchVars, exampleVars, hook>>
  \/ /\ hook = "abl-token"
     /\ AllowBlockNext
     /\ UNCHANGED <<listVars, switchVars, exampleVars, hook>>
  \/ /\ hook = "transfer-switch"
     /\ SwitchNext
     /\ UNCHANGED <<listVars, abVars, exampleVars, hook>>
  \/ /\ hook = "example"
     /\ ExamplesNext
     /\ UNCHANGED <<listVars, abVars, switchVars, hook>>

Spec == Init /\ [][Next]_hookVars

-----------------------------------------------------------------------------

\* Every variable holds a value of its type, and no hook makes or loses a token.
TypeOK ==
  /\ HookedTypeOK /\ BlockListTypeOK /\ AllowBlockTypeOK /\ SwitchTypeOK /\ ExamplesTypeOK
  /\ TokensTotal = TokensIssued

\* The records that programs keep twice agree: the counts of all block-list configs with
\* the block accounts, lists with counters, a mint's hook with its list; lamports and
\* wrapped SOL with the accounts and the transfers that they were paid for.
RecordsAgree ==
  /\ TypeOK
  /\ CountsAreBlocks /\ ListsHaveCounters /\ HookedHasList
  /\ BlockListRents /\ FeesMatchTransfers

\* Tokens move only as the program in the mint has it: not those of a wallet that is
\* blocked and asked to be checked, only with the marks that the mode asks for, only by
\* a wallet that is switched on.
MovesPermitted ==
  [][ /\ FrozenStays
      /\ MovesAsConfigured
      /\ hook = "transfer-switch" => SwitchedMove ]_hookVars
=============================================================================
