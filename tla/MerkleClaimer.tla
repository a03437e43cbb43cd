--------------------------- MODULE MerkleClaimer ---------------------------
(***************************************************************************)
(* tokens/merkle-tree-token-claimer (Anchor): an airdrop fixed by the root *)
(* of a Merkle tree over <<wallet, amount>> leaves, and the tool that      *)
(* builds the tree (examples/generate_merkle_tree.rs).                     *)
(*                                                                         *)
(* A hash is the term it was computed from: SHA-256 is taken as injective. *)
(* Leaves (40 bytes) and pairs (64 bytes) cannot be confused.              *)
(***************************************************************************)
EXTENDS Integers, Sequences, FiniteSets, Functions

CONSTANTS
  Claimers,         \* wallets that can sign
  Snapshots,        \* bound: lists of entries given to the tool
  AirdropAmounts,   \* bound: amounts minted when an airdrop is set up
  MaxIndex          \* bound: indices tried in a claim

\* An entry the tool cannot parse has NoWallet as its address, or NoNumber.
NoWallet == "invalid address"
NoNumber == -1
NoClaimer == "default"    \* of an index that nobody claimed with

ASSUME ClaimAssumption ==
  /\ IsFiniteSet(Claimers) /\ NoClaimer \notin Claimers
  /\ \A snap \in Snapshots :
       /\ snap \in Seq(Range(snap)) /\ Len(snap) <= MaxIndex + 1
       /\ \A i \in DOMAIN snap : snap[i].amount \in Nat \cup {NoNumber}
  /\ AirdropAmounts \subseteq Nat /\ MaxIndex \in Nat

VARIABLES
  airdrop,          \* the AirdropState account
  claimVault,       \* tokens in its vault
  receipt,          \* the ClaimReceipt account of each index: who claimed
  received,         \* tokens each wallet claimed
  listed            \* history: the claims in the tree of the root

claimVars == <<airdrop, claimVault, receipt, received, listed>>

-----------------------------------------------------------------------------
(* Hashes and trees.  A level is a sequence; indices count from 0.            *)

ZERO_HASH == <<"zero">>
HashLeaf(wallet, amount) == <<"leaf", wallet, amount>>
HashPair(left, right) == <<"pair", left, right>>

\* Slips: the last node of an odd level paired with itself, both in the tree and
\* in the proofs; an index whose bits beyond the proof are ignored (see At and
\* Authentic).
AtDuplicated(level, i) == IF i < Len(level) THEN level[i + 1] ELSE level[Len(level)]
AnyHighBits(climbed) == TRUE
\* The snapshot may be replaced while nothing is left to claim (NoClaimsYet).
NoneLeft == airdrop.amount_claimed \in {0, airdrop.airdrop_amount}

At(level, i) == IF i < Len(level) THEN level[i + 1] ELSE ZERO_HASH

\* The tool skips entries it cannot parse; what is left are the claims.
Parses(entry) == entry.wallet # NoWallet /\ entry.amount # NoNumber
Claims(snapshot) ==
  LET kept[i \in 0 .. Len(snapshot)] ==
        IF i = 0 THEN <<>>
        ELSE IF Parses(snapshot[i]) THEN Append(kept[i - 1], snapshot[i]) ELSE kept[i - 1]
  IN  kept[Len(snapshot)]
TotalAmount(claims) == SumFunction([i \in DOMAIN claims |-> claims[i].amount])

Leaves(claims) == [i \in DOMAIN claims |-> HashLeaf(claims[i].wallet, claims[i].amount)]
Parent(level) ==
  [j \in 1 .. (Len(level) + 1) \div 2 |->
     HashPair(At(level, 2 * j - 2), At(level, 2 * j - 1))]

\* MerkleTree::new: levels from the leaves to the one node that is the root.
Levels(claims) ==
  LET level[d \in 0 .. Len(claims)] ==
        IF d = 0 THEN Leaves(claims) ELSE Parent(level[d - 1])
  IN  level
Depth(claims) ==
  CHOOSE d \in 0 .. Len(claims) :
    Len(Levels(claims)[d]) = 1 /\ \A e \in 0 .. d - 1 : Len(Levels(claims)[e]) # 1

Root(claims) == Levels(claims)[Depth(claims)][1]

\* The sibling at each level below the root: the index with its last bit flipped.
Sibling(i) == IF i % 2 = 0 THEN i + 1 ELSE i - 1
Proof(claims, index) ==
  LET at[d \in 0 .. Depth(claims)] == IF d = 0 THEN index ELSE at[d - 1] \div 2
  IN  [d \in 1 .. Depth(claims) |-> At(Levels(claims)[d - 1], Sibling(at[d - 1]))]

\* compute_merkle_root: the path from the leaf up; no bit of the index may be left.
Up(at, sibling) ==
  [hash |-> IF at.index % 2 = 0 THEN HashPair(at.hash, sibling)
            ELSE HashPair(sibling, at.hash),
   index |-> at.index \div 2]
ComputedRoot(leaf, hashes, index) ==
  LET at[k \in 0 .. Len(hashes)] ==
        IF k = 0 THEN [hash |-> leaf, index |-> index] ELSE Up(at[k - 1], hashes[k])
  IN  at[Len(hashes)]
Authentic(climbed) == climbed.index = 0

-----------------------------------------------------------------------------

NoAirdrop == [open |-> FALSE, merkle_root |-> ZERO_HASH, airdrop_amount |-> 0,
              amount_claimed |-> 0]

ClaimInit ==
  /\ airdrop = NoAirdrop
  /\ claimVault = 0
  /\ receipt = [i \in 0 .. MaxIndex |-> NoClaimer]
  /\ received = [w \in Claimers |-> 0]
  /\ listed = <<>>

\* initialize_airdrop_data, with the root of a tree the tool built.  The mint is
\* created here and its authority removed, so this is all there will ever be.
InitializeAirdropData(claims, amount) ==
  /\ ~airdrop.open
  /\ amount > 0
  /\ airdrop' = [open |-> TRUE, merkle_root |-> Root(claims),
                 airdrop_amount |-> amount, amount_claimed |-> 0]
  /\ claimVault' = amount
  /\ listed' = claims
  /\ UNCHANGED <<receipt, received>>

\* update_tree, by the authority.
NoClaimsYet == airdrop.amount_claimed = 0
UpdateTree(claims) ==
  /\ airdrop.open
  /\ NoClaimsYet
  /\ airdrop' = [airdrop EXCEPT !.merkle_root = Root(claims)]
  /\ listed' = claims
  /\ UNCHANGED <<claimVault, receipt, received>>

\* claim_airdrop.
CanClaim(w, amount, hashes, index) ==
  LET climbed == ComputedRoot(HashLeaf(w, amount), hashes, index)
  IN  /\ airdrop.open
      /\ amount > 0
      /\ receipt[index] = NoClaimer
      /\ Authentic(climbed)
      /\ climbed.hash = airdrop.merkle_root
      /\ airdrop.amount_claimed + amount <= airdrop.airdrop_amount
      /\ amount <= claimVault

ClaimAirdrop(w, amount, hashes, index) ==
  /\ CanClaim(w, amount, hashes, index)
  /\ claimVault' = claimVault - amount
  /\ received' = [received EXCEPT ![w] = @ + amount]
  /\ receipt' = [receipt EXCEPT ![index] = w]
  /\ airdrop' = [airdrop EXCEPT !.amount_claimed = @ + amount]
  /\ UNCHANGED listed

\* What can be tried: proofs the tool made for any index of any snapshot.
Trees == {Claims(snap) : snap \in Snapshots} \ {<<>>}
Proofs == UNION {{Proof(t, i) : i \in 0 .. Len(t) - 1} : t \in Trees}
ListedAmounts == UNION {{t[i].amount : i \in DOMAIN t} : t \in Trees}

ClaimNext ==
  \/ \E t \in Trees, n \in AirdropAmounts : InitializeAirdropData(t, n)
  \/ \E t \in Trees : UpdateTree(t)
  \/ \E w \in Claimers, n \in ListedAmounts, hashes \in Proofs, i \in 0 .. MaxIndex :
       ClaimAirdrop(w, n, hashes, i)

ClaimSpec == ClaimInit /\ [][ClaimNext]_claimVars

-----------------------------------------------------------------------------

Roots == {Root(t) : t \in Trees} \cup {ZERO_HASH}
ClaimTypeOK ==
  /\ airdrop \in [open: BOOLEAN, merkle_root: Roots, airdrop_amount: Nat,
                  amount_claimed: Nat]
  /\ claimVault \in Nat
  /\ receipt \in [0 .. MaxIndex -> Claimers \cup {NoClaimer}]
  /\ received \in [Claimers -> Nat]

\* What the claims that list wallet w add up to.
ListedFor(w) ==
  SumFunction([i \in DOMAIN listed |-> IF listed[i].wallet = w THEN listed[i].amount ELSE 0])

\* "The same allocation can never be claimed twice": nobody receives more than the
\* tree lists for it, whatever amounts, proofs and indices are passed, in trees of
\* every shape, and although the tree may have been replaced before.
PaidAsListed == \A w \in Claimers : received[w] <= ListedFor(w)

\* "One user claiming does not invalidate any other user's proof": if the airdrop
\* was funded for the tree, each claim listed and not yet paid can be claimed with
\* the proof the tool gave out for it.
ListedCanClaim ==
  airdrop.open /\ TotalAmount(listed) <= airdrop.airdrop_amount =>
    \A i \in DOMAIN listed :
      LET c == listed[i]
      IN  c.amount > 0 /\ receipt[i - 1] = NoClaimer
            => CanClaim(c.wallet, c.amount, Proof(listed, i - 1), i - 1)

\* The vault covers what is left to claim.
ClaimsCovered ==
  /\ claimVault >= airdrop.airdrop_amount - airdrop.amount_claimed
  /\ SumFunction(received) = airdrop.amount_claimed
=============================================================================
