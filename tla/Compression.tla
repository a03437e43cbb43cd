---------------------------- MODULE Compression ----------------------------
(***************************************************************************)
(* compression/: cnft-vault (a PDA that anybody may withdraw from),        *)
(* cnft-burn and cutils (mint, verify), over Bubblegum's trees.  Bubblegum *)
(* and the account compression program are not in the repository; they are *)
(* modelled from the instructions the programs build and from their tests. *)
(*                                                                         *)
(* Hashes are taken as injective, so a leaf is what is hashed.  A proof is *)
(* told by the number of changes to its tree before it was taken: the tree *)
(* brings a proof up to date over the last BufferSize changes.  The lists  *)
(* of proof nodes, and where withdraw_two_cnfts splits them, are left out: *)
(* a proof with other nodes is no proof.  The tree's delegate and the      *)
(* collection's authority sign every mint.                                 *)
(***************************************************************************)
EXTENDS Integers

CONSTANTS
  Trees, Wallets,
  Vault,            \* the PDA of seed "cNFT-vault"
  Metadata,         \* hashes of data and creators
  Capacity,         \* leaves of a tree
  BufferSize,       \* changes a proof survives
  MaxChanges        \* bound of the changes to a tree

ASSUME CompressionAssumption ==
  /\ Capacity \in Nat \ {0} /\ BufferSize \in Nat \ {0} /\ MaxChanges \in Nat
  /\ Vault \notin Wallets

VARIABLE tree       \* external: leaves, num_minted, changes

Owners == Wallets \cup {Vault}
Indices == 0 .. Capacity - 1
NoLeaf == [id |-> "empty"]

\* What a caller hands over: the root and proof, and what the leaf is hashed from.
Args == [taken: 0 .. MaxChanges, data: Metadata, nonce: Indices, index: Indices]

-----------------------------------------------------------------------------
(* The leaf that is proved, and Bubblegum's instructions over a forest.  Slips: a   *)
(* pair whose second half goes to the first one's tree, a burn nobody need sign     *)
(* for, and a leaf with owner and delegate in each other's place.                   *)
FirstTree(t1, t2) == t1
AnySigner(signer, leaf) == leaf.owner \in Owners
SwappedLeaf(signer, delegate, t, a) ==
  [id |-> <<t, a.nonce>>, owner |-> delegate, delegate |-> signer, nonce |-> a.nonce,
   data |-> a.data]

\* get_asset_id: a leaf's asset is its tree and nonce.
get_asset_id(t, nonce) == <<t, nonce>>

\* leaf_schema_v1_hash, injective in its arguments.
LeafSchema(t, owner, delegate, nonce, data) ==
  [id |-> get_asset_id(t, nonce), owner |-> owner, delegate |-> delegate,
   nonce |-> nonce, data |-> data]

\* verify_leaf: the leaf is where the proof puts it, and the proof not too old.
Proves(forest, t, leaf, a) ==
  /\ a.taken <= forest[t].changes
  /\ forest[t].changes - a.taken <= BufferSize
  /\ a.index < forest[t].num_minted
  /\ forest[t].leaves[a.index] = leaf

ReplaceLeaf(forest, t, index, leaf) ==
  [forest EXCEPT ![t] = [leaves |-> [@.leaves EXCEPT ![index] = leaf],
                         num_minted |-> @.num_minted, changes |-> @.changes + 1]]

\* Transfer of an owner's leaf that has no other delegate.
CanTransfer(forest, t, owner, a) ==
  Proves(forest, t, LeafSchema(t, owner, owner, a.nonce, a.data), a)
Transferred(forest, t, to, a) ==
  ReplaceLeaf(forest, t, a.index, LeafSchema(t, to, to, a.nonce, a.data))

-----------------------------------------------------------------------------

CompressionInit ==
  tree = [t \in Trees |-> [leaves |-> [i \in Indices |-> NoLeaf], num_minted |-> 0,
                           changes |-> 0]]

Changeable(t, n) == tree[t].changes + n <= MaxChanges

\* cutils mint: a leaf with any owner and any delegate, at the next index.
MintCnft(t, owner, delegate, data) ==
  LET i == tree[t].num_minted IN
  /\ tree[t].num_minted < Capacity /\ Changeable(t, 1)
  /\ tree' = [ReplaceLeaf(tree, t, i, LeafSchema(t, owner, delegate, i, data))
                EXCEPT ![t].num_minted = @ + 1]

\* withdraw_cnft: the vault signs for anybody, to anybody.
WithdrawCnft(t, to, a) ==
  /\ Changeable(t, 1)
  /\ CanTransfer(tree, t, Vault, a)
  /\ tree' = Transferred(tree, t, to, a)

\* withdraw_two_cnfts: the second transfer sees the first one's tree, and undoes the
\* first one if it fails.
SecondTree(t1, t2) == t2

WithdrawTwoCnfts(t1, to1, a1) ==
  LET after == Transferred(tree, t1, to1, a1) IN
  /\ Changeable(t1, 2)
  /\ CanTransfer(tree, t1, Vault, a1)
  /\ \E t2 \in Trees, to2 \in Owners, a2 \in Args :
       LET second == SecondTree(t1, t2) IN
       /\ Changeable(t2, 2)
       /\ CanTransfer(after, second, Vault, a2)
       /\ tree' = Transferred(after, second, to2, a2)

\* burn_cnft: the owner signs, and must be its own delegate.
IsOwner(signer, leaf) == leaf.owner = signer

BurnCnft(signer, t, owner, a) ==
  LET leaf == LeafSchema(t, owner, owner, a.nonce, a.data) IN
  /\ Changeable(t, 1)
  /\ IsOwner(signer, leaf)
  /\ Proves(tree, t, leaf, a)
  /\ tree' = ReplaceLeaf(tree, t, a.index, NoLeaf)

\* Bubblegum, called by a holder: a transfer, by which cNFTs also come to the vault,
\* and a delegate.
HolderTransfers(t, owner, to, a) ==
  /\ Changeable(t, 1)
  /\ CanTransfer(tree, t, owner, a)
  /\ tree' = Transferred(tree, t, to, a)

HolderDelegates(t, owner, delegate, a) ==
  /\ Changeable(t, 1)
  /\ CanTransfer(tree, t, owner, a)
  /\ tree' = ReplaceLeaf(tree, t, a.index,
                         LeafSchema(t, owner, delegate, a.nonce, a.data))

CompressionNext ==
  \/ \E t \in Trees, o, d \in Owners, m \in Metadata : MintCnft(t, o, d, m)
  \/ \E t \in Trees, to \in Owners, a \in Args : WithdrawCnft(t, to, a)
  \/ \E t \in Trees, to \in Owners, a \in Args : WithdrawTwoCnfts(t, to, a)
  \/ \E s \in Wallets, t \in Trees, o \in Owners, a \in Args : BurnCnft(s, t, o, a)
  \/ \E t \in Trees, o \in Wallets, to \in Owners, a \in Args : HolderTransfers(t, o, to, a)
  \/ \E t \in Trees, o, d \in Wallets, a \in Args : HolderDelegates(t, o, d, a)

CompressionSpec == CompressionInit /\ [][CompressionNext]_tree

-----------------------------------------------------------------------------

CompressionTypeOK ==
  \A t \in Trees :
    /\ tree[t].num_minted \in 0 .. Capacity /\ tree[t].changes \in 0 .. MaxChanges
    /\ \A i \in Indices :
         \/ tree[t].leaves[i] = NoLeaf
         \/ /\ i < tree[t].num_minted
            /\ \E o, d \in Owners, m \in Metadata :
                 tree[t].leaves[i] = LeafSchema(t, o, d, i, m)

\* Who holds an asset: what the leaf at its place says.
HolderOf(asset) ==
  LET leaf == tree[asset[1]].leaves[asset[2]] IN
  IF asset[2] >= tree[asset[1]].num_minted THEN "unissued"
  ELSE IF leaf = NoLeaf THEN "burnt" ELSE leaf.owner

Ledger == INSTANCE AssetLedger WITH
  Assets <- Trees \X Indices, Parties <- Owners,
  holder <- [asset \in Trees \X Indices |-> HolderOf(asset)]

\* Compressed NFTs are held like entries of a ledger: issued once, given by their
\* holders, never back after a burn, and those of the vault never burnt.
ImplementsLedger == Ledger!LedgerSpec

\* cutils verify: the leaf is hashed with the account that signed.
VerifiedLeaf(signer, delegate, t, a) ==
  LeafSchema(t, signer, delegate, a.nonce, a.data)

\* "verifies that the owner of the cNFT did in fact actuate the instruction": whoever
\* verify accepts holds the asset now, whatever proof they bring and whoever held it
\* when the proof was taken.
VerifiedHolds ==
  \A signer, delegate \in Owners, t \in Trees, a \in Args :
    Proves(tree, t, VerifiedLeaf(signer, delegate, t, a), a) =>
      HolderOf(get_asset_id(t, a.nonce)) = signer

\* Two assets of the vault can leave together, be they in one tree or two, with proofs
\* taken before either left: the first does not spoil the second's proof.
PairsCanLeave ==
  \A t1 \in Trees, a1 \in Args :
    (a1.taken = tree[t1].changes /\ CanTransfer(tree, t1, Vault, a1)) =>
      LET after == Transferred(tree, t1, CHOOSE w \in Wallets : TRUE, a1) IN
      \A t2 \in Trees, a2 \in Args :
        (/\ a2.taken = tree[t2].changes /\ CanTransfer(tree, t2, Vault, a2)
         /\ <<t2, a2.index>> # <<t1, a1.index>>)
          => CanTransfer(after, SecondTree(t1, t2), Vault, a2)

\* "everyone can withdraw any cNFT in the vault".
EveryoneCanWithdraw ==
  \A t \in Trees, i \in Indices :
    (tree[t].leaves[i] # NoLeaf /\ tree[t].leaves[i].owner = Vault) =>
      \E a \in Args : CanTransfer(tree, t, Vault, a)
=============================================================================
