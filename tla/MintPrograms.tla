---------------------------- MODULE MintPrograms ----------------------------
(***************************************************************************)
(* The programs of tokens/ that make mints and NFTs and move their tokens: *)
(* create-token, transfer-tokens and pda-mint-authority (native, Anchor,   *)
(* Pinocchio), nft-operations (Anchor, Pinocchio).  The token program, the *)
(* associated token program and Metaplex are external: a mint is one       *)
(* record, its metadata and edition included, and a wallet's associated    *)
(* account of a mint is a number of tokens.                                *)
(*                                                                         *)
(* An action's wallet signs and pays.  Names, symbols and links are left   *)
(* out: too long ones are refused.                                         *)
(***************************************************************************)
EXTENDS Integers, FiniteSets, Functions

CONSTANTS
  Holders,              \* wallets
  TokenMints,           \* addresses of mints of the first three programs
  PdaMint,              \* the mint at the Anchor token-minter's seed "mint"
  CollectionMints,      \* addresses of mints of nft-operations
  MintDecimals,         \* decimals a caller may ask for
  AnchorDecimals,       \* 9 in the code
  Scale,                \* 10^decimals; a smaller factor stands for it
  MintedAmounts,        \* bound: quantities asked for
  U64_MAX               \* the largest amount; also bounds a supply

\* The PDAs that sign for mints: of pda-mint-authority's programs, of nft-operations'.
MinterPDAs == {"native_authority", "pinocchio_authority"}
CollectionPDAs == {"anchor_nft_authority", "pinocchio_nft_authority"}

Mints == TokenMints \cup {PdaMint} \cup CollectionMints

\* NFTs have no decimals.  A wallet is none of the authorities that the programs name.
ASSUME MintAssumption ==
  /\ MintDecimals \cup {AnchorDecimals} \subseteq Nat /\ 0 \in MintDecimals
  /\ Scale \in [MintDecimals \cup {AnchorDecimals} -> Nat \ {0}]
  /\ MintedAmounts \subseteq Nat /\ U64_MAX \in Nat \ {0}
  /\ TokenMints \cap CollectionMints = {} /\ PdaMint \notin TokenMints \cup CollectionMints
  /\ IsFiniteSet(Holders) /\ IsFiniteSet(Mints)
  /\ Holders \cap (MinterPDAs \cup CollectionPDAs \cup {"none", "edition", "mint"}) = {}

VARIABLES
  minted,       \* the mints
  tokens,       \* tokens[m][w]: w's associated account of m
  minter        \* what pda-mint-authority keeps: PDAs made, the Anchor admin

mintVars == <<minted, tokens, minter>>

None == "none"
Edition == "edition"      \* a master edition, as a mint's authority
Absent == -2              \* no account
Prefunded == -1           \* lamports at the address, and no account

Unmade == [authority |-> "unmade", freeze |-> None, decimals |-> 0, supply |-> 0,
           update |-> None, collection |-> None, verified |-> FALSE, sized |-> FALSE,
           members |-> 0]

-----------------------------------------------------------------------------
(* Token program and Metaplex, on one mint *)

Initialized(authority, freeze, decimals) ==
  [Unmade EXCEPT !.authority = authority, !.freeze = freeze, !.decimals = decimals]

\* create_metadata_account_v3: the mint's authority signs and becomes update authority.
Described(mint) == [mint EXCEPT !.update = mint.authority]

\* create_master_edition_v3: exactly one token of a mint that has metadata and no
\* decimals; the edition takes the authorities there are.
Editioned(mint) ==
  [mint EXCEPT !.authority = Edition, !.freeze = IF @ = None THEN None ELSE Edition]
CanEdition(mint, signer) ==
  /\ mint.authority = signer /\ mint.freeze \in {signer, None}
  /\ mint.update = signer
  /\ mint.decimals = 0 /\ mint.supply = 1

\* The native programs make an associated account when its address has no lamports;
\* Anchor's init_if_needed and CreateIdempotent when there is no account.
IfEmpty(held) == IF held = Absent THEN 0 ELSE held
IfNeeded(held) == IF held < 0 THEN 0 ELSE held

\* MintTo: n tokens into an account that is there.
CanMint(m, signer, held, n) ==
  /\ minted[m].authority = signer
  /\ held >= 0
  /\ minted[m].supply + n <= U64_MAX
WithSupply(m, n) == [minted[m] EXCEPT !.supply = @ + n]

IssueTokens(m, signer, to, held, n) ==
  /\ CanMint(m, signer, held, n)
  /\ minted' = [minted EXCEPT ![m] = WithSupply(m, n)]
  /\ tokens' = [tokens EXCEPT ![m][to] = held + n]
  /\ UNCHANGED minter

\* Transfer: the owner signs.
Move(m, from, to, held, n) ==
  LET ready == [tokens[m] EXCEPT ![to] = held]
      debited == [ready EXCEPT ![from] = @ - n]
  IN /\ tokens[m][from] >= n /\ held >= 0
     /\ tokens' = [tokens EXCEPT ![m] = [debited EXCEPT ![to] = @ + n]]

Make(m, mint) ==
  /\ minted[m] = Unmade
  /\ minted' = [minted EXCEPT ![m] = mint]
  /\ UNCHANGED <<tokens, minter>>

-----------------------------------------------------------------------------
(* What the programs build on.  Slips: an edition left out, so that the authority   *)
(* stays, and a collection that counts itself.                                      *)
Unlimited(mint) == mint
CountsItself(pda) == [Described(Initialized(pda, pda, 0)) EXCEPT !.sized = TRUE,
                                                                 !.members = 1]

\* The edition ends minting.
LimitedEdition(mint) == Editioned(mint)

\* A collection starts with no members, a member unverified.
CollectionOf(pda) == [Described(Initialized(pda, pda, 0)) EXCEPT !.sized = TRUE]
MemberOf(pda, c) == [Described(Initialized(pda, pda, 0)) EXCEPT !.collection = c]

\* The only token of a mint, and its edition.
IssueNft(m, signer, to, held) ==
  /\ CanMint(m, signer, held, 1) /\ CanEdition(WithSupply(m, 1), signer)
  /\ minted' = [minted EXCEPT ![m] = LimitedEdition(WithSupply(m, 1))]
  /\ tokens' = [tokens EXCEPT ![m][to] = held + 1]
  /\ UNCHANGED minter

-----------------------------------------------------------------------------

MintInit ==
  /\ minted = [m \in Mints |-> Unmade]
  /\ tokens = [m \in Mints |-> [w \in Holders |-> Absent]]
  /\ minter = [native |-> FALSE, pinocchio |-> FALSE, admin |-> None]

\* Lamports can be sent to any address.
Prefund(m, w) ==
  /\ tokens[m][w] = Absent
  /\ tokens' = [tokens EXCEPT ![m][w] = Prefunded]
  /\ UNCHANGED <<minted, minter>>

(* create-token: a mint with metadata; Anchor's has no freeze authority. *)

CreateTokenNative(w, m, d) == Make(m, Described(Initialized(w, w, d)))
CreateTokenAnchor(w, m, d) == Make(m, Described(Initialized(w, None, d)))
CreateTokenPinocchio(w, m, d) == Make(m, Described(Initialized(w, w, d)))

(* transfer-tokens *)

CreateNative(w, m, d) == Make(m, Described(Initialized(w, w, d)))
CreateAnchor(w, m) == Make(m, Described(Initialized(w, w, AnchorDecimals)))
\* No metadata, and an authority that need not sign.
CreatePinocchio(authority, m, d) == Make(m, Initialized(authority, authority, d))

\* One token, and an edition.  The payer's account, or any that is there.
MintNftNative(w, m, payer, to) ==
  /\ to = payer \/ tokens[m][to] # Absent
  /\ IssueNft(m, w, to, IfEmpty(tokens[m][to]))

MintSpl(w, m, payer, to, n) ==
  /\ to = payer \/ tokens[m][to] # Absent
  /\ IssueTokens(m, w, to, IfEmpty(tokens[m][to]), n)

\* amount * 10^decimals, refused when it overflows.
MintTokenAnchor(w, m, to, n) ==
  IssueTokens(m, w, to, IfNeeded(tokens[m][to]), n * Scale[minted[m].decimals])

MintTokensPinocchio(w, m, to, n) == IssueTokens(m, w, to, IfNeeded(tokens[m][to]), n)

TransferNative(w, m, to, n) ==
  /\ Move(m, w, to, IfEmpty(tokens[m][to]), n)
  /\ UNCHANGED <<minted, minter>>

TransferAnchor(w, m, to, n) ==
  /\ minted[m] # Unmade
  /\ Move(m, w, to, IfNeeded(tokens[m][to]), n * Scale[minted[m].decimals])
  /\ UNCHANGED <<minted, minter>>

TransferPinocchio(w, m, to, n) ==
  /\ minted[m] # Unmade
  /\ Move(m, w, to, IfNeeded(tokens[m][to]), n)
  /\ UNCHANGED <<minted, minter>>

(* pda-mint-authority: the program's PDA signs for whoever calls. *)

InitNative ==
  /\ ~minter.native
  /\ minter' = [minter EXCEPT !.native = TRUE]
  /\ UNCHANGED <<minted, tokens>>

InitPinocchio ==
  /\ ~minter.pinocchio
  /\ minter' = [minter EXCEPT !.pinocchio = TRUE]
  /\ UNCHANGED <<minted, tokens>>

\* The native program derives the PDA; the other reads its bump from the account.
CreatePdaNative(m) ==
  LET pda == "native_authority" IN Make(m, Described(Initialized(pda, pda, 0)))
CreatePdaPinocchio(m) ==
  LET pda == "pinocchio_authority" IN
  minter.pinocchio /\ Make(m, Described(Initialized(pda, pda, 0)))

MintPdaNative(m, payer, to) ==
  /\ to = payer \/ tokens[m][to] # Absent
  /\ IssueNft(m, "native_authority", to, IfEmpty(tokens[m][to]))

MintPdaPinocchio(m, payer) ==
  /\ minter.pinocchio
  /\ IssueNft(m, "pinocchio_authority", payer, IfNeeded(tokens[m][payer]))

\* Anchor: one mint, whose first caller is the only one to mint of it.
CreateTokenPda(w) ==
  /\ minted[PdaMint] = Unmade /\ minter.admin = None
  /\ minted' = [minted EXCEPT
                  ![PdaMint] = Described(Initialized("mint", "mint", AnchorDecimals))]
  /\ minter' = [minter EXCEPT !.admin = w]
  /\ UNCHANGED tokens

MintTokenPda(w, n) ==
  /\ minter.admin = w
  /\ IssueTokens(PdaMint, "mint", w, IfNeeded(tokens[PdaMint][w]),
                 n * Scale[AnchorDecimals])

(* nft-operations: a collection, NFTs that name it, and their verification. *)

\* Mint, token, metadata and edition in one step, for the caller.
NewNft(w, m, mint) ==
  /\ minted[m] = Unmade
  /\ minted' = [minted EXCEPT ![m] = LimitedEdition([mint EXCEPT !.supply = 1])]
  /\ tokens' = [tokens EXCEPT ![m][w] = IfNeeded(@) + 1]
  /\ UNCHANGED minter

CreateCollectionAnchor(w, m) == NewNft(w, m, CollectionOf("anchor_nft_authority"))
CreateCollectionPinocchio(w, m) == NewNft(w, m, CollectionOf("pinocchio_nft_authority"))

\* The collection is any mint that exists.
MintNftAnchor(w, m, c) ==
  /\ c # m /\ minted[c] # Unmade
  /\ NewNft(w, m, MemberOf("anchor_nft_authority", c))
\* The Pinocchio program does not look at the collection: it may be the new mint itself.
MintNftPinocchio(w, m, c) == NewNft(w, m, MemberOf("pinocchio_nft_authority", c))

\* Metaplex: an NFT that names the collection, whose update authority signs.
Verify(pda, m, c) ==
  /\ minted[m].collection = c /\ ~minted[m].verified
  /\ minted[c].authority = Edition /\ minted[c].update = pda
  /\ LET checked == [minted EXCEPT ![m].verified = TRUE] IN
     minted' = [checked EXCEPT ![c].members = @ + IF minted[c].sized THEN 1 ELSE 0]
  /\ UNCHANGED <<tokens, minter>>

\* The PDA signs for anybody, and for NFTs of anybody.
VerifyCollectionAnchor(m, c) == Verify("anchor_nft_authority", m, c)
VerifyCollectionPinocchio(m, c) == Verify("pinocchio_nft_authority", m, c)

-----------------------------------------------------------------------------

TokensNext ==
  \/ \E m \in TokenMints, w \in Holders : Prefund(m, w)
  \/ \E w \in Holders, m \in TokenMints, d \in MintDecimals :
       \/ CreateTokenNative(w, m, d) \/ CreateTokenAnchor(w, m, d)
       \/ CreateTokenPinocchio(w, m, d) \/ CreateNative(w, m, d)
  \/ \E w \in Holders, m \in TokenMints : CreateAnchor(w, m)
  \/ \E a \in Holders \cup MinterPDAs, m \in TokenMints, d \in MintDecimals :
       CreatePinocchio(a, m, d)
  \/ \E w, payer, to \in Holders, m \in TokenMints : MintNftNative(w, m, payer, to)
  \/ \E w, to \in Holders, m \in TokenMints, n \in MintedAmounts :
       \/ \E payer \in Holders : MintSpl(w, m, payer, to, n)
       \/ MintTokenAnchor(w, m, to, n) \/ MintTokensPinocchio(w, m, to, n)
       \/ TransferNative(w, m, to, n) \/ TransferAnchor(w, m, to, n)
       \/ TransferPinocchio(w, m, to, n)
  \/ InitNative \/ InitPinocchio
  \/ \E m \in TokenMints : CreatePdaNative(m) \/ CreatePdaPinocchio(m)
  \/ \E m \in TokenMints, payer, to \in Holders : MintPdaNative(m, payer, to)
  \/ \E m \in TokenMints, payer \in Holders : MintPdaPinocchio(m, payer)
  \/ \E w \in Holders : CreateTokenPda(w)
  \/ \E w \in Holders, n \in MintedAmounts : MintTokenPda(w, n)

CollectionsNext ==
  \/ \E w \in Holders, m \in CollectionMints :
       CreateCollectionAnchor(w, m) \/ CreateCollectionPinocchio(w, m)
  \/ \E w \in Holders, m, c \in CollectionMints :
       MintNftAnchor(w, m, c) \/ MintNftPinocchio(w, m, c)
  \/ \E m, c \in CollectionMints :
       VerifyCollectionAnchor(m, c) \/ VerifyCollectionPinocchio(m, c)

-----------------------------------------------------------------------------

Held(held) == IF held < 0 THEN 0 ELSE held

\* Every variable holds a value of its type, and a mint's supply is what is held of it.
MintTypeOK ==
  /\ \A m \in Mints :
       /\ minted[m].authority \in Holders \cup MinterPDAs \cup {"unmade", "mint", Edition}
       /\ minted[m].supply \in 0 .. U64_MAX /\ minted[m].members \in Nat
       /\ minted[m].supply = SumFunction([w \in Holders |-> Held(tokens[m][w])])
  /\ tokens \in [Mints -> [Holders -> Absent .. U64_MAX]]
  /\ minter.admin \in Holders \cup {None}

\* A program's PDA signs for everybody, so what keeps an NFT single is that the token
\* and the edition come together: while a PDA is a mint's authority there is no token
\* of it, and once there is an edition there is exactly one.
OneOfEach ==
  \A m \in Mints :
    /\ minted[m].authority \in MinterPDAs \cup CollectionPDAs => minted[m].supply = 0
    /\ minted[m].authority = Edition => minted[m].supply = 1

\* A collection's size is the number of NFTs verified as its members, whichever of the
\* two programs minted them and whoever asked for the verification.
CollectionsCounted ==
  \A c \in Mints :
    minted[c].sized =>
      minted[c].members =
        Cardinality({m \in Mints : minted[m].verified /\ minted[m].collection = c})
=============================================================================
