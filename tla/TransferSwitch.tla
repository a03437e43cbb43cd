--------------------------- MODULE TransferSwitch ---------------------------
(***************************************************************************)
(* tokens/token-2022/transfer-hook/transfer-switch (Anchor): an admin      *)
(* turns transfers on and off, wallet by wallet.  The hook's extra account *)
(* is the switch of whoever signs the transfer, owner or delegate.         *)
(***************************************************************************)
EXTENDS HookedMint

CONSTANT FirstAdmins    \* wallets that may call configure_admin first

ASSUME SwitchAssumption == FirstAdmins \subseteq Wallets

VARIABLES
  admin_config,         \* is_initialised, and the admin
  wallet_switch,        \* TransferSwitch accounts: on, off, or none
  switch_list           \* the mint's extra-metas list exists

switchVars == <<admin_config, wallet_switch, switch_list>>

NoSwitch == "none"

\* Slip: a hook that takes a switch nobody set for on.
UnlessOff(by) == wallet_switch[by] # "off"

SwitchInit ==
  /\ admin_config = [is_initialised |-> FALSE, admin |-> Nobody]
  /\ wallet_switch = [w \in Wallets |-> NoSwitch]
  /\ switch_list = FALSE

\* Anyone once, then the admin, who cannot name itself.
IsAdmin(a, new) ==
  admin_config.is_initialised => a = admin_config.admin /\ a # new

ConfigureAdmin(a, new) ==
  /\ a \in FirstAdmins \cup {admin_config.admin}
  /\ IsAdmin(a, new)
  /\ admin_config' = [is_initialised |-> TRUE, admin |-> new]
  /\ UNCHANGED <<hookedVars, wallet_switch, switch_list>>

\* create_account fails if the list exists.
InitialiseExtraAccountMetasList ==
  /\ ~ switch_list
  /\ switch_list' = TRUE
  /\ UNCHANGED <<hookedVars, admin_config, wallet_switch>>

Switch(a, w, on) ==
  /\ admin_config.is_initialised
  /\ a = admin_config.admin
  /\ wallet_switch' = [wallet_switch EXCEPT ![w] = IF on THEN "on" ELSE "off"]
  /\ UNCHANGED <<hookedVars, admin_config, switch_list>>

\* A missing account fails the hook as a switch that is off does.
AssertSwitchIsOn(by) == wallet_switch[by] = "on"

SwitchTransfer(from, to, by, n) ==
  /\ switch_list
  /\ Transfer(from, to, by, n)
  /\ AssertSwitchIsOn(by)
  /\ UNCHANGED switchVars

SwitchNext ==
  \/ \E a, new \in Wallets : ConfigureAdmin(a, new)
  \/ InitialiseExtraAccountMetasList
  \/ \E a, w \in Wallets, on \in BOOLEAN : Switch(a, w, on)
  \/ \E from, to \in TokenAccounts, by \in Wallets, n \in TransferAmounts :
       SwitchTransfer(from, to, by, n)
  \/ OwnerNext /\ UNCHANGED switchVars

-----------------------------------------------------------------------------

SwitchTypeOK ==
  /\ admin_config \in [is_initialised: BOOLEAN, admin: Wallets \cup {Nobody}]
  /\ wallet_switch \in [Wallets -> {NoSwitch, "on", "off"}]
  /\ switch_list \in BOOLEAN

\* Tokens move only while somebody who may move them is switched on: it is no help to
\* a wallet that was switched off, or never on, that the account is its own, and no
\* hindrance to its delegate.
SwitchedMove ==
  (\E a \in TokenAccounts : account'[a].tokens < account[a].tokens) =>
    \E w \in Wallets :
      /\ wallet_switch[w] = "on"
      /\ \A a \in TokenAccounts :
           account'[a].tokens < account[a].tokens => MayMove(a, w)
=============================================================================
