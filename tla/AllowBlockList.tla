--------------------------- MODULE AllowBlockList ---------------------------
(***************************************************************************)
(* tokens/token-2022/transfer-hook/allow-block-list-token (Anchor): a list *)
(* authority marks wallets as allowed or blocked; an issuer chooses for    *)
(* its mint what the marks mean.  The choice is kept as text in the mint's *)
(* metadata, under the keys "AB" and "threshold", in the order the keys    *)
(* were first written, and every transfer decodes it anew.                 *)
(***************************************************************************)
EXTENDS HookedMint, SequencesExt

CONSTANTS
  ConfigPayers,         \* wallets that may call init_config: the first is the authority
  UpdateAuthority,      \* of the mint's metadata, and its hook authority
  Thresholds,           \* bound: the thresholds given
  Marked,               \* bound: the wallets that get a mark
  FirstMetadata         \* metadata a mint may have before it is attached

Modes == {"Allow", "Block", "Mixed"}
NoMode == "unset"
Fields == [key: {"AB"}, value: Modes] \cup [key: {"threshold"}, value: Nat]

ASSUME AllowBlockAssumption ==
  /\ ConfigPayers \subseteq Wallets /\ UpdateAuthority \in Wallets /\ Marked \subseteq Wallets
  /\ Thresholds \subseteq Nat /\ FirstMetadata \subseteq Seq(Fields)

VARIABLES
  list_authority,       \* the config account's
  ab_wallet,            \* mark of each wallet, or None without an account
  metadata,             \* of the mint: the fields, in their order
  mint,                 \* absent, plain, or hooked to this program
  meta_list,            \* wallet marks its extra-metas account resolves, NoList without
  configured,           \* history: mode and threshold last asked of this program
  meddled               \* history: fields written since without it

abVars == <<list_authority, ab_wallet, metadata, mint, meta_list, configured, meddled>>

None == "None"            \* DecodedWalletMode::None
NoList == -1
NUM_EXTRA_ACCOUNTS == 2   \* of source and destination; older mints have the latter only

Field(key, value) == [key |-> key, value |-> value]

\* token_metadata_update_field: replaces the value under a key, or appends the pair.
Updated(fields, key, value) ==
  IF \E i \in DOMAIN fields : fields[i].key = key
  THEN [i \in DOMAIN fields |-> IF fields[i].key = key THEN Field(key, value) ELSE fields[i]]
  ELSE Append(fields, Field(key, value))

\* Slips: a threshold that stays when the mode changes (Rewritten), an unlisted receiver
\* that passes whatever the mode (Decided), and a mint hooked before its list is made
\* (ListMade).
KeepsThreshold(fields, mode, threshold) ==
  IF mode = "Mixed" THEN Updated(Updated(fields, "AB", mode), "threshold", threshold)
  ELSE Updated(fields, "AB", mode)
DestinationOnly(decoded, source, destination, n) ==
  /\ destination # "Block"
  /\ decoded.mode = "Allow" => destination = "Allow"
  /\ decoded.mode = "Threshold" => destination = "Allow" \/ n < decoded.threshold
ListLater(size) == NoList

\* change_mode: the mode, and the threshold if it is one of Mixed or there is one to
\* take back, as a key that was once written can only be set to 0.
Rewritten(fields, mode, threshold) ==
  LET withMode == Updated(fields, "AB", mode) IN
  IF mode = "Mixed" THEN Updated(withMode, "threshold", threshold)
  ELSE IF \E i \in DOMAIN withMode : withMode[i].key = "threshold"
       THEN Updated(withMode, "threshold", 0)
       ELSE withMode

-----------------------------------------------------------------------------

Decoded(mode, threshold) == [mode |-> mode, threshold |-> threshold]

\* decode_metadata: one pass over the fields with early returns.
DecodeStep(acc, field) ==
  IF acc.returned THEN acc
  ELSE IF field.key = "AB"
       THEN [acc EXCEPT !.mode = field.value,
                        !.returned = field.value # "Mixed" \/ acc.threshold > 0]
       ELSE [acc EXCEPT !.threshold = field.value,
                        !.mode = IF field.value > 0 THEN "Mixed" ELSE @,
                        !.returned = field.value > 0]

DecodeMetadata(fields) ==
  LET acc == FoldLeft(DecodeStep, [mode |-> "Allow", threshold |-> 0, returned |-> FALSE],
                      fields)
  IN IF acc.mode = "Mixed" THEN Decoded("Threshold", acc.threshold)
     ELSE Decoded(acc.mode, 0)

\* decide: blocked parties never, then what the mint asks of the receiver.
Decided(decoded, source, destination, n) ==
  /\ "Block" \notin {source, destination}
  /\ decoded.mode = "Allow" => destination = "Allow"
  /\ decoded.mode = "Threshold" => destination = "Allow" \/ n < decoded.threshold

-----------------------------------------------------------------------------

\* No mint yet, or one that other tools left with metadata of its own, or one that an
\* older version of this program hooked, with a list that resolves one mark only.  (The
\* token accounts are those that are opened and minted to once there is a mint.)
AllowBlockInit ==
  /\ list_authority = Nobody
  /\ ab_wallet = [w \in Wallets |-> None]
  /\ configured = Decoded(NoMode, 0)
  /\ meddled = TRUE
  /\ \/ mint = "absent" /\ metadata = << >> /\ meta_list = NoList
     \/ mint = "plain" /\ metadata \in FirstMetadata /\ meta_list = NoList
     \/ mint = "hooked" /\ metadata \in FirstMetadata /\ meta_list = 1

ListMade(size) == size

\* The mint is made with the extension, the metadata and the list.

InitMint(mode, threshold) ==
  /\ mint = "absent"
  /\ metadata' = IF mode = "Mixed"
                 THEN Updated(Updated(<< >>, "AB", mode), "threshold", threshold)
                 ELSE Updated(<< >>, "AB", mode)
  /\ mint' = "hooked"
  /\ meta_list' = ListMade(NUM_EXTRA_ACCOUNTS)
  /\ configured' = Decoded(mode, IF mode = "Mixed" THEN threshold ELSE 0)
  /\ meddled' = FALSE
  /\ UNCHANGED <<hookedVars, list_authority, ab_wallet>>

AttachToMint(payer) ==
  /\ payer = UpdateAuthority
  /\ mint # "absent"
  /\ meta_list = NoList
  /\ mint' = "hooked"
  /\ meta_list' = ListMade(NUM_EXTRA_ACCOUNTS)
  /\ UNCHANGED <<hookedVars, list_authority, ab_wallet, metadata, configured, meddled>>

ChangeMode(a, mode, threshold) ==
  /\ a = UpdateAuthority
  /\ mint # "absent"
  /\ metadata' = Rewritten(metadata, mode, threshold)
  /\ configured' = Decoded(mode, IF mode = "Mixed" THEN threshold ELSE 0)
  /\ meddled' = FALSE
  /\ UNCHANGED <<hookedVars, list_authority, ab_wallet, mint, meta_list>>

\* Anyone, for a mint whose hook this is, and whose list exists.
ResizeMetaList ==
  /\ mint = "hooked" /\ meta_list # NoList
  /\ meta_list' = NUM_EXTRA_ACCOUNTS
  /\ UNCHANGED <<hookedVars, list_authority, ab_wallet, metadata, mint, configured, meddled>>

InitListConfig(payer) ==
  /\ list_authority = Nobody
  /\ list_authority' = payer
  /\ UNCHANGED <<hookedVars, ab_wallet, metadata, mint, meta_list, configured, meddled>>

InitWallet(a, w, allowed) ==
  /\ list_authority = a
  /\ ab_wallet[w] = None
  /\ ab_wallet' = [ab_wallet EXCEPT ![w] = IF allowed THEN "Allow" ELSE "Block"]
  /\ UNCHANGED <<hookedVars, list_authority, metadata, mint, meta_list, configured, meddled>>

RemoveWallet(a, w) ==
  /\ list_authority = a
  /\ ab_wallet[w] # None
  /\ ab_wallet' = [ab_wallet EXCEPT ![w] = None]
  /\ UNCHANGED <<hookedVars, list_authority, metadata, mint, meta_list, configured, meddled>>

\* The update authority writes a field with the token program and not with this one.
UpdateField(key, value) ==
  /\ mint # "absent"
  /\ metadata' = Updated(metadata, key, value)
  /\ meddled' = TRUE
  /\ UNCHANGED <<hookedVars, list_authority, ab_wallet, mint, meta_list, configured>>

\* tx_hook fails without both marks and, as Token-2022 has no metadata to return,
\* without fields: the modelled mints have the metadata extension.
HookAccepts(from, to, n) ==
  /\ meta_list = NUM_EXTRA_ACCOUNTS
  /\ Decided(DecodeMetadata(metadata), ab_wallet[account[from].owner],
             ab_wallet[account[to].owner], n)

AllowBlockTransfer(from, to, by, n) ==
  /\ mint # "absent"
  /\ Transfer(from, to, by, n)
  /\ mint = "hooked" => HookAccepts(from, to, n)
  /\ UNCHANGED abVars

AllowBlockNext ==
  \/ \E mode \in Modes, t \in Thresholds : InitMint(mode, t)
  \/ \E a \in Wallets : AttachToMint(a)
  \/ \E a \in Wallets, mode \in Modes, t \in Thresholds : ChangeMode(a, mode, t)
  \/ ResizeMetaList
  \/ \E a \in ConfigPayers : InitListConfig(a)
  \/ \E a \in ConfigPayers, w \in Marked, allowed \in BOOLEAN : InitWallet(a, w, allowed)
  \/ \E a \in ConfigPayers, w \in Marked : RemoveWallet(a, w)
  \/ \E mode \in Modes : UpdateField("AB", mode)
  \/ \E t \in Thresholds : UpdateField("threshold", t)
  \/ \E from, to \in TokenAccounts, by \in Wallets, n \in TransferAmounts :
       AllowBlockTransfer(from, to, by, n)
  \/ OwnerNext /\ UNCHANGED abVars

-----------------------------------------------------------------------------

AllowBlockTypeOK ==
  /\ list_authority \in ConfigPayers \cup {Nobody}
  /\ ab_wallet \in [Wallets -> {None, "Allow", "Block"}]
  /\ metadata \in Seq(Fields)
  /\ mint \in {"absent", "plain", "hooked"} /\ meddled \in BOOLEAN
  /\ meta_list \in {NoList, 1, NUM_EXTRA_ACCOUNTS}
  /\ configured \in [mode: Modes \cup {NoMode}, threshold: Nat]

\* What the issuer last asked for is what the hook decodes, whichever key was written
\* first and whatever modes came before, unless someone else wrote the fields.
DecodesAsConfigured ==
  ~ meddled =>
    DecodeMetadata(metadata) =
      Decoded(IF configured.mode = "Mixed" THEN "Threshold" ELSE configured.mode,
              configured.threshold)

\* The README's three configurations, of the mode asked for: nobody who is blocked
\* sends or receives, Allow needs an allowed receiver, and Mixed needs one from the
\* threshold on, as decide's comment has it.
MovesAsConfigured ==
  mint = "hooked" /\ ~ meddled =>
    \A from, to \in TokenAccounts :
      LET n == account[from].tokens - account'[from].tokens IN
      (n > 0 /\ account'[to].tokens > account[to].tokens) =>
        /\ ab_wallet[account[from].owner] # "Block"
        /\ ab_wallet[account[to].owner] # "Block"
        /\ configured.mode = "Allow" => ab_wallet[account[to].owner] = "Allow"
        /\ configured.mode = "Mixed" =>
             ab_wallet[account[to].owner] = "Allow" \/ n < configured.threshold

\* A mint with the hook is never stranded: its list exists, so that anybody can bring
\* one of the old size to the size that tx_hook needs (ResizeMetaList asks no more).
HookedHasList == mint = "hooked" => meta_list # NoList

\* README.md: "allows everyone to receive tokens unless explicitly blocked up until a
\* given transfer amount threshold.  Transfers larger than the threshold require
\* explicitly allow": one that is not larger passes.  The code refuses the threshold.
UpToThreshold ==
  ~ meddled /\ configured.mode = "Mixed" =>
    \A n \in TransferAmounts :
      n <= configured.threshold => Decided(DecodeMetadata(metadata), None, None, n)
=============================================================================
