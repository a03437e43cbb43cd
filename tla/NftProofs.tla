------------------------------- MODULE NftProofs -------------------------------
(***************************************************************************)
(* Proofs about the programs that make and keep NFTs, for any number of    *)
(* trees, mints, players and levels.  Each program keeps an invariant of   *)
(* its own; a behaviour is that of one program, and the others' variables  *)
(* stay as they began.                                                     *)
(***************************************************************************)
EXTENDS Nfts, SumLemmas

-----------------------------------------------------------------------------
(* Compressed NFTs: leaves and forests *)

LeafSet ==
  {NoLeaf} \cup {LeafSchema(t, o, d, i, m) :
                   t \in Trees, o \in Owners, d \in Owners, i \in Indices, m \in Metadata}

Forests ==
  [Trees -> [leaves: [Indices -> LeafSet], num_minted: 0 .. Capacity,
             changes: 0 .. MaxChanges]]

\* A leaf that is there was minted, and is hashed from where it is.
Placed(f, t, i) ==
  \/ f[t].leaves[i] = NoLeaf
  \/ /\ i < f[t].num_minted
     /\ \E o, d \in Owners, m \in Metadata : f[t].leaves[i] = LeafSchema(t, o, d, i, m)

ForestOK(f) == f \in Forests /\ \A t \in Trees, i \in Indices : Placed(f, t, i)

\* Who holds the asset at index i of tree t, in forest f.
HolderIn(f, t, i) ==
  IF i >= f[t].num_minted THEN "unissued"
  ELSE IF f[t].leaves[i] = NoLeaf THEN "burnt" ELSE f[t].leaves[i].owner

LEMMA LeafFields ==
  ASSUME NEW t, NEW o, NEW d, NEW i, NEW m
  PROVE  /\ LeafSchema(t, o, d, i, m) # NoLeaf
         /\ LeafSchema(t, o, d, i, m).owner = o
         /\ LeafSchema(t, o, d, i, m).delegate = d
         /\ LeafSchema(t, o, d, i, m).nonce = i
         /\ LeafSchema(t, o, d, i, m).data = m
<1>1. DOMAIN LeafSchema(t, o, d, i, m) = {"id", "owner", "delegate", "nonce", "data"}
  BY DEF LeafSchema
<1>2. DOMAIN NoLeaf = {"id"}
  BY DEF NoLeaf
<1>3. "owner" \notin {"id"}
  OBVIOUS
<1>4. LeafSchema(t, o, d, i, m) # NoLeaf
  BY <1>1, <1>2, <1>3
<1> QED BY <1>4 DEF LeafSchema

LEMMA IndexFacts ==
  /\ Indices \subseteq Nat
  /\ \A i \in Indices : i < Capacity
  /\ \A i \in 0 .. Capacity : i < Capacity => i \in Indices
BY CompressionAssumption DEF Indices

\* What replacing a leaf does, place by place.
LEMMA Replaced ==
  ASSUME NEW f, f \in Forests, NEW t \in Trees, NEW i \in Indices, NEW leaf,
         NEW g, g = ReplaceLeaf(f, t, i, leaf)
  PROVE  /\ g[t].leaves[i] = leaf
         /\ \A j \in Indices \ {i} : g[t].leaves[j] = f[t].leaves[j]
         /\ g[t].num_minted = f[t].num_minted
         /\ g[t].changes = f[t].changes + 1
         /\ \A u \in Trees \ {t} : g[u] = f[u]
         /\ leaf \in LeafSet /\ f[t].changes < MaxChanges => g \in Forests
<1> DEFINE r == [leaves |-> [f[t].leaves EXCEPT ![i] = leaf],
                 num_minted |-> f[t].num_minted, changes |-> f[t].changes + 1]
<1>1. g = [f EXCEPT ![t] = r]
  BY DEF ReplaceLeaf
<1>2. f[t] \in [leaves: [Indices -> LeafSet], num_minted: 0 .. Capacity,
                changes: 0 .. MaxChanges]
  BY DEF Forests
<1>3. r.leaves[i] = leaf /\ \A j \in Indices \ {i} : r.leaves[j] = f[t].leaves[j]
  BY <1>2
<1>4. leaf \in LeafSet /\ f[t].changes < MaxChanges =>
        r \in [leaves: [Indices -> LeafSet], num_minted: 0 .. Capacity,
               changes: 0 .. MaxChanges]
  BY <1>2, CompressionAssumption
<1>5. r.num_minted = f[t].num_minted /\ r.changes = f[t].changes + 1
  OBVIOUS
<1> HIDE DEF r
<1>6. g[t] = r /\ \A u \in Trees \ {t} : g[u] = f[u]
  BY <1>1 DEF Forests
<1>7. leaf \in LeafSet /\ f[t].changes < MaxChanges => g \in Forests
  BY <1>1, <1>4 DEF Forests
<1> QED BY <1>3, <1>5, <1>6, <1>7

\* A leaf put where a proof found one is placed, whoever it names.
LEMMA ReplacedOK ==
  ASSUME NEW f, ForestOK(f), NEW t \in Trees, NEW i \in Indices, i < f[t].num_minted,
         f[t].changes < MaxChanges, NEW leaf,
         \/ leaf = NoLeaf
         \/ \E o, d \in Owners, m \in Metadata : leaf = LeafSchema(t, o, d, i, m),
         NEW g, g = ReplaceLeaf(f, t, i, leaf)
  PROVE  ForestOK(g)
<1>1. leaf \in LeafSet
  BY DEF LeafSet
<1>2. f \in Forests
  BY DEF ForestOK
<1>3. /\ g[t].leaves[i] = leaf
      /\ \A j \in Indices \ {i} : g[t].leaves[j] = f[t].leaves[j]
      /\ g[t].num_minted = f[t].num_minted
      /\ \A u \in Trees \ {t} : g[u] = f[u]
      /\ g \in Forests
  BY <1>1, <1>2, Replaced
<1>4. ASSUME NEW u \in Trees, NEW j \in Indices PROVE Placed(g, u, j)
  <2>1. CASE u = t /\ j = i
    BY <2>1, <1>3 DEF Placed
  <2>2. CASE ~(u = t /\ j = i)
    <3>1. Placed(f, u, j)
      BY DEF ForestOK
    <3>2. g[u].leaves[j] = f[u].leaves[j] /\ g[u].num_minted = f[u].num_minted
      BY <2>2, <1>3
    <3> QED BY <3>1, <3>2 DEF Placed
  <2> QED BY <2>1, <2>2
<1> QED BY <1>3, <1>4 DEF ForestOK

\* What is proved is there, at the index that the leaf is hashed from.
LEMMA ProvedIsThere ==
  ASSUME NEW f, ForestOK(f), NEW t \in Trees, NEW o, NEW d, NEW a \in Args,
         Proves(f, t, LeafSchema(t, o, d, a.nonce, a.data), a)
  PROVE  /\ a.index \in Indices /\ a.index = a.nonce /\ a.data \in Metadata
         /\ a.index < f[t].num_minted
         /\ f[t].leaves[a.index] = LeafSchema(t, o, d, a.index, a.data)
         /\ f[t].leaves[a.index] # NoLeaf
         /\ HolderIn(f, t, a.index) = o
<1>1. a.index \in Indices /\ a.data \in Metadata /\ a.nonce \in Indices
  BY DEF Args
<1>2. /\ a.index < f[t].num_minted
      /\ f[t].leaves[a.index] = LeafSchema(t, o, d, a.nonce, a.data)
  BY DEF Proves
<1>3. f[t].leaves[a.index] # NoLeaf /\ f[t].leaves[a.index].owner = o
      /\ f[t].leaves[a.index].nonce = a.nonce
  BY <1>2, LeafFields
<1>4. PICK p, q \in Owners, m \in Metadata :
        f[t].leaves[a.index] = LeafSchema(t, p, q, a.index, m)
  BY <1>1, <1>3 DEF ForestOK, Placed
<1>5. f[t].leaves[a.index].nonce = a.index
  BY <1>4, LeafFields
<1>6. f[t].num_minted \in Nat
  BY CompressionAssumption DEF ForestOK, Forests
<1>7. a.index \in Nat
  BY <1>1, IndexFacts
<1>8. ~(a.index >= f[t].num_minted)
  BY <1>2, <1>6, <1>7
<1>9. HolderIn(f, t, a.index) = o
  BY <1>3, <1>8 DEF HolderIn
<1> QED BY <1>1, <1>2, <1>3, <1>5, <1>9

\* A transfer gives the asset that was proved, and no other.
LEMMA TransferEffect ==
  ASSUME NEW f, ForestOK(f), NEW t \in Trees, NEW o, NEW to \in Owners, NEW a \in Args,
         CanTransfer(f, t, o, a), f[t].changes < MaxChanges,
         NEW g, g = Transferred(f, t, to, a)
  PROVE  /\ ForestOK(g)
         /\ a.index \in Indices
         /\ HolderIn(f, t, a.index) = o /\ HolderIn(g, t, a.index) = to
         /\ \A u \in Trees, j \in Indices :
              <<u, j>> # <<t, a.index>> => HolderIn(g, u, j) = HolderIn(f, u, j)
<1> DEFINE leaf == LeafSchema(t, to, to, a.index, a.data)
<1>1. Proves(f, t, LeafSchema(t, o, o, a.nonce, a.data), a)
  BY DEF CanTransfer
<1>2. /\ a.index \in Indices /\ a.index = a.nonce /\ a.data \in Metadata
      /\ a.index < f[t].num_minted
      /\ HolderIn(f, t, a.index) = o
  BY <1>1, ProvedIsThere
<1>3. g = ReplaceLeaf(f, t, a.index, leaf)
  BY <1>2 DEF Transferred
<1>4. leaf # NoLeaf /\ leaf.owner = to
  BY LeafFields
<1>5. \E p, q \in Owners, m \in Metadata : leaf = LeafSchema(t, p, q, a.index, m)
  BY <1>2
<1> HIDE DEF leaf
<1>6. ForestOK(g)
  BY <1>2, <1>3, <1>5, ReplacedOK
<1>7. f \in Forests
  BY DEF ForestOK
<1>8. /\ g[t].leaves[a.index] = leaf
      /\ \A j \in Indices \ {a.index} : g[t].leaves[j] = f[t].leaves[j]
      /\ g[t].num_minted = f[t].num_minted
      /\ \A u \in Trees \ {t} : g[u] = f[u]
  BY <1>2, <1>3, <1>7, Replaced
<1>9. ~(a.index >= g[t].num_minted)
  <2>1. f[t].num_minted \in Nat
    BY <1>7, CompressionAssumption DEF Forests
  <2>2. a.index \in Nat
    BY <1>2, IndexFacts
  <2> QED BY <2>1, <2>2, <1>2, <1>8
<1>10. HolderIn(g, t, a.index) = to
  BY <1>4, <1>8, <1>9 DEF HolderIn
<1>11. ASSUME NEW u \in Trees, NEW j \in Indices, <<u, j>> # <<t, a.index>>
       PROVE  HolderIn(g, u, j) = HolderIn(f, u, j)
  <2>1. g[u].leaves[j] = f[u].leaves[j] /\ g[u].num_minted = f[u].num_minted
    BY <1>8, <1>11
  <2> QED BY <2>1 DEF HolderIn
<1> QED BY <1>2, <1>6, <1>10, <1>11

\* What holders do with their own leaves: a delegate changes nobody's asset.
LEMMA DelegateEffect ==
  ASSUME NEW f, ForestOK(f), NEW t \in Trees, NEW o \in Owners, NEW d \in Owners,
         NEW a \in Args, CanTransfer(f, t, o, a), f[t].changes < MaxChanges,
         NEW g, g = ReplaceLeaf(f, t, a.index, LeafSchema(t, o, d, a.nonce, a.data))
  PROVE  /\ ForestOK(g)
         /\ \A u \in Trees, j \in Indices : HolderIn(g, u, j) = HolderIn(f, u, j)
<1> DEFINE leaf == LeafSchema(t, o, d, a.index, a.data)
<1>1. Proves(f, t, LeafSchema(t, o, o, a.nonce, a.data), a)
  BY DEF CanTransfer
<1>2. /\ a.index \in Indices /\ a.index = a.nonce /\ a.data \in Metadata
      /\ a.index < f[t].num_minted
      /\ f[t].leaves[a.index] = LeafSchema(t, o, o, a.index, a.data)
  BY <1>1, ProvedIsThere
<1>3. g = ReplaceLeaf(f, t, a.index, leaf)
  BY <1>2
<1>4. /\ leaf # NoLeaf /\ leaf.owner = o
      /\ f[t].leaves[a.index] # NoLeaf /\ f[t].leaves[a.index].owner = o
  BY <1>2, LeafFields
<1>5. \E p, q \in Owners, m \in Metadata : leaf = LeafSchema(t, p, q, a.index, m)
  BY <1>2
<1> HIDE DEF leaf
<1>6. ForestOK(g)
  BY <1>2, <1>3, <1>5, ReplacedOK
<1>7. f \in Forests
  BY DEF ForestOK
<1>8. /\ g[t].leaves[a.index] = leaf
      /\ \A j \in Indices \ {a.index} : g[t].leaves[j] = f[t].leaves[j]
      /\ g[t].num_minted = f[t].num_minted
      /\ \A u \in Trees \ {t} : g[u] = f[u]
  BY <1>2, <1>3, <1>7, Replaced
<1>9. ASSUME NEW u \in Trees, NEW j \in Indices
      PROVE  HolderIn(g, u, j) = HolderIn(f, u, j)
  <2>1. CASE u = t /\ j = a.index
    BY <2>1, <1>4, <1>8 DEF HolderIn
  <2>2. CASE ~(u = t /\ j = a.index)
    <3>1. g[u].leaves[j] = f[u].leaves[j] /\ g[u].num_minted = f[u].num_minted
      BY <1>8, <2>2
    <3> QED BY <3>1 DEF HolderIn
  <2> QED BY <2>1, <2>2
<1> QED BY <1>6, <1>9

\* A burn takes the asset that was proved, and no other, for good.
LEMMA BurnEffect ==
  ASSUME NEW f, ForestOK(f), NEW t \in Trees, NEW o \in Owners, NEW a \in Args,
         Proves(f, t, LeafSchema(t, o, o, a.nonce, a.data), a),
         f[t].changes < MaxChanges, NEW g, g = ReplaceLeaf(f, t, a.index, NoLeaf)
  PROVE  /\ ForestOK(g)
         /\ a.index \in Indices
         /\ HolderIn(f, t, a.index) = o /\ HolderIn(g, t, a.index) = "burnt"
         /\ \A u \in Trees, j \in Indices :
              <<u, j>> # <<t, a.index>> => HolderIn(g, u, j) = HolderIn(f, u, j)
<1>1. /\ a.index \in Indices /\ a.index < f[t].num_minted
      /\ HolderIn(f, t, a.index) = o
  BY ProvedIsThere
<1>2. ForestOK(g)
  BY <1>1, ReplacedOK
<1>3. f \in Forests
  BY DEF ForestOK
<1>4. /\ g[t].leaves[a.index] = NoLeaf
      /\ \A j \in Indices \ {a.index} : g[t].leaves[j] = f[t].leaves[j]
      /\ g[t].num_minted = f[t].num_minted
      /\ \A u \in Trees \ {t} : g[u] = f[u]
  BY <1>1, <1>3, Replaced
<1>5. ~(a.index >= g[t].num_minted)
  <2>1. f[t].num_minted \in Nat
    BY <1>3, CompressionAssumption DEF Forests
  <2>2. a.index \in Nat
    BY <1>1, IndexFacts
  <2> QED BY <2>1, <2>2, <1>1, <1>4
<1>6. HolderIn(g, t, a.index) = "burnt"
  BY <1>4, <1>5 DEF HolderIn
<1>7. ASSUME NEW u \in Trees, NEW j \in Indices, <<u, j>> # <<t, a.index>>
      PROVE  HolderIn(g, u, j) = HolderIn(f, u, j)
  <2>1. g[u].leaves[j] = f[u].leaves[j] /\ g[u].num_minted = f[u].num_minted
    BY <1>4, <1>7
  <2> QED BY <2>1 DEF HolderIn
<1> QED BY <1>1, <1>2, <1>6, <1>7

\* Minting issues the next asset.
LEMMA MintEffect ==
  ASSUME ForestOK(tree), NEW t \in Trees, NEW o \in Owners, NEW d \in Owners,
         NEW m \in Metadata, MintCnft(t, o, d, m)
  PROVE  /\ ForestOK(tree')
         /\ \E i \in Indices :
              /\ HolderIn(tree, t, i) = "unissued" /\ HolderIn(tree', t, i) = o
              /\ \A u \in Trees, j \in Indices :
                   <<u, j>> # <<t, i>> => HolderIn(tree', u, j) = HolderIn(tree, u, j)
<1> DEFINE i == tree[t].num_minted
           leaf == LeafSchema(t, o, d, i, m)
           g == ReplaceLeaf(tree, t, i, leaf)
<1>1. /\ i < Capacity /\ tree[t].changes + 1 <= MaxChanges
      /\ tree' = [g EXCEPT ![t].num_minted = @ + 1]
  BY DEF MintCnft, Changeable
<1>2. tree \in Forests
  BY DEF ForestOK
<1>3. i \in 0 .. Capacity /\ tree[t].changes \in 0 .. MaxChanges
  BY <1>2 DEF Forests
<1>4. i \in Nat /\ i \in Indices
  BY <1>1, <1>3, CompressionAssumption DEF Indices
<1>5. tree[t].changes < MaxChanges
  BY <1>1, <1>3, CompressionAssumption
<1>6. leaf # NoLeaf /\ leaf.owner = o
  BY LeafFields
<1>7. leaf \in LeafSet
  BY <1>4 DEF LeafSet
<1>8. leaf = LeafSchema(t, o, d, i, m)
  OBVIOUS
<1> HIDE DEF leaf
<1>9. g = ReplaceLeaf(tree, t, i, leaf)
  OBVIOUS
<1> HIDE DEF i, g
<1>10. /\ g[t].leaves[i] = leaf
       /\ \A j \in Indices \ {i} : g[t].leaves[j] = tree[t].leaves[j]
       /\ g[t].num_minted = tree[t].num_minted
       /\ \A u \in Trees \ {t} : g[u] = tree[u]
       /\ g \in Forests
  BY <1>2, <1>4, <1>5, <1>7, <1>9, Replaced
<1>11. tree' \in Forests
  BY <1>1, <1>3, <1>10, CompressionAssumption DEF Forests, i
<1>12. /\ tree'[t].leaves = g[t].leaves /\ tree'[t].num_minted = i + 1
       /\ \A u \in Trees \ {t} : tree'[u] = tree[u]
  BY <1>1, <1>10 DEF Forests, i
<1>13. ASSUME NEW u \in Trees, NEW j \in Indices PROVE Placed(tree', u, j)
  <2>1. Placed(tree, u, j)
    BY DEF ForestOK
  <2>2. CASE u # t
    BY <2>1, <2>2, <1>12 DEF Placed
  <2>3. CASE u = t /\ j = i
    <3>1. j < tree'[u].num_minted
      BY <2>3, <1>4, <1>12
    <3>2. tree'[u].leaves[j] = LeafSchema(u, o, d, j, m)
      BY <2>3, <1>8, <1>10, <1>12
    <3> QED BY <3>1, <3>2 DEF Placed
  <2>4. CASE u = t /\ j # i
    <3>1. tree'[u].leaves[j] = tree[u].leaves[j]
      BY <2>4, <1>10, <1>12
    <3>2. j < tree[u].num_minted => j < tree'[u].num_minted
      <4>1. j \in Nat
        BY IndexFacts
      <4> QED BY <4>1, <2>4, <1>4, <1>12 DEF i
    <3> QED BY <2>1, <3>1, <3>2 DEF Placed
  <2> QED BY <2>2, <2>3, <2>4
<1>14. HolderIn(tree, t, i) = "unissued"
  BY <1>4 DEF HolderIn, i
<1>15. HolderIn(tree', t, i) = o
  <2>1. ~(i >= tree'[t].num_minted)
    BY <1>4, <1>12
  <2> QED BY <2>1, <1>6, <1>10, <1>12 DEF HolderIn
<1>16. ASSUME NEW u \in Trees, NEW j \in Indices, <<u, j>> # <<t, i>>
       PROVE  HolderIn(tree', u, j) = HolderIn(tree, u, j)
  <2>1. CASE u # t
    BY <2>1, <1>12 DEF HolderIn
  <2>2. CASE u = t /\ j # i
    <3>1. tree'[u].leaves[j] = tree[u].leaves[j]
      BY <2>2, <1>10, <1>12
    <3>2. j >= tree'[u].num_minted <=> j >= tree[u].num_minted
      <4>1. j \in Nat
        BY IndexFacts
      <4> QED BY <4>1, <2>2, <1>4, <1>12 DEF i
    <3> QED BY <3>1, <3>2 DEF HolderIn
  <2> QED BY <1>16, <2>1, <2>2
<1>17. ForestOK(tree')
  BY <1>11, <1>13 DEF ForestOK
<1> QED BY <1>4, <1>14, <1>15, <1>16, <1>17

-----------------------------------------------------------------------------
(* The ledger that the trees keep *)

\* The abstract variable, as the instance substitutes it.
LeafHolders == [asset \in Trees \X Indices |-> HolderOf(asset)]

LEMMA HoldersPoint ==
  /\ \A t \in Trees, i \in Indices : LeafHolders[<<t, i>>] = HolderIn(tree, t, i)
  /\ \A t \in Trees, i \in Indices : LeafHolders'[<<t, i>>] = HolderIn(tree', t, i)
BY DEF LeafHolders, HolderOf, HolderIn

\* A step that changes the holders at some assets only.
LEMMA HoldersStep ==
  ASSUME NEW given \in SUBSET (Trees \X Indices),
         \A t \in Trees, i \in Indices :
           <<t, i>> \notin given => HolderIn(tree', t, i) = HolderIn(tree, t, i)
  PROVE  LeafHolders' = [a \in Trees \X Indices |->
                        IF a \in given THEN LeafHolders'[a] ELSE LeafHolders[a]]
<1>1. \A a \in Trees \X Indices : a \notin given => LeafHolders'[a] = LeafHolders[a]
  <2>1. \A t \in Trees, i \in Indices :
          <<t, i>> \notin given => LeafHolders'[<<t, i>>] = LeafHolders[<<t, i>>]
    BY HoldersPoint
  <2> QED BY <2>1
<1>2. LeafHolders' = [a \in Trees \X Indices |-> LeafHolders'[a]]
  BY DEF LeafHolders
<1> QED BY <1>1, <1>2

LEMMA LedgerIssue ==
  ASSUME NEW a \in Trees \X Indices, NEW p \in Owners,
         LeafHolders[a] = "unissued", LeafHolders' = [LeafHolders EXCEPT ![a] = p]
  PROVE  Ledger!LedgerNext
BY DEF Ledger!LedgerNext, Ledger!Issue, Ledger!Unissued, LeafHolders

LEMMA LedgerGive ==
  ASSUME NEW from \in Owners, NEW given \in SUBSET (Trees \X Indices), given # {},
         Cardinality(given) <= IF from = Vault THEN 2 ELSE 1,
         \A a \in given : LeafHolders[a] = from,
         NEW to \in [given -> Owners],
         LeafHolders' = [a \in Trees \X Indices |-> IF a \in given THEN to[a] ELSE LeafHolders[a]]
  PROVE  Ledger!LedgerNext
<1>1. Ledger!Cardinality(given) = Cardinality(given)
  BY DEF Ledger!Cardinality, Cardinality
<1>2. Ledger!GiveAway(from, given)
  BY <1>1 DEF Ledger!GiveAway, LeafHolders
<1> QED BY <1>2 DEF Ledger!LedgerNext

LEMMA LedgerBurn ==
  ASSUME NEW a \in Trees \X Indices, LeafHolders[a] \in Owners \ {Vault},
         LeafHolders' = [LeafHolders EXCEPT ![a] = "burnt"]
  PROVE  Ledger!LedgerNext
BY DEF Ledger!LedgerNext, Ledger!Burn, Ledger!Burnt, LeafHolders

\* Assets of one holder that change hands together.
LEMMA GivenAway ==
  ASSUME NEW from \in Owners, NEW given \in SUBSET (Trees \X Indices), given # {},
         Cardinality(given) <= IF from = Vault THEN 2 ELSE 1,
         \A t \in Trees, i \in Indices :
           /\ <<t, i>> \in given =>
                HolderIn(tree, t, i) = from /\ HolderIn(tree', t, i) \in Owners
           /\ <<t, i>> \notin given => HolderIn(tree', t, i) = HolderIn(tree, t, i)
  PROVE  Ledger!LedgerNext
<1> DEFINE to == [a \in given |-> LeafHolders'[a]]
<1>1. \A t \in Trees, i \in Indices :
        <<t, i>> \in given => LeafHolders[<<t, i>>] = from /\ LeafHolders'[<<t, i>>] \in Owners
  BY HoldersPoint
<1>2. \A a \in given : LeafHolders[a] = from /\ LeafHolders'[a] \in Owners
  BY <1>1
<1>3. to \in [given -> Owners]
  BY <1>2
<1>4. LeafHolders' = [a \in Trees \X Indices |->
                    IF a \in given THEN LeafHolders'[a] ELSE LeafHolders[a]]
  BY HoldersStep
<1>5. \A a \in Trees \X Indices :
        (IF a \in given THEN to[a] ELSE LeafHolders[a])
          = IF a \in given THEN LeafHolders'[a] ELSE LeafHolders[a]
  OBVIOUS
<1>6. LeafHolders' = [a \in Trees \X Indices |-> IF a \in given THEN to[a] ELSE LeafHolders[a]]
  BY <1>4, <1>5
<1> HIDE DEF to
<1> QED BY <1>2, <1>3, <1>6, LedgerGive

\* A transfer of one leaf by its owner.
LEMMA OneGiven ==
  ASSUME ForestOK(tree), NEW t \in Trees, NEW o \in Owners, NEW to \in Owners,
         NEW a \in Args, Changeable(t, 1), CanTransfer(tree, t, o, a),
         tree' = Transferred(tree, t, to, a)
  PROVE  ForestOK(tree') /\ Ledger!LedgerNext
<1> DEFINE given == {<<t, a.index>>}
<1>1. tree[t].changes < MaxChanges
  <2>1. tree[t].changes \in 0 .. MaxChanges
    BY DEF ForestOK, Forests
  <2> QED BY <2>1, CompressionAssumption DEF Changeable
<1>2. /\ ForestOK(tree') /\ a.index \in Indices
      /\ HolderIn(tree, t, a.index) = o /\ HolderIn(tree', t, a.index) = to
      /\ \A u \in Trees, j \in Indices :
           <<u, j>> # <<t, a.index>> => HolderIn(tree', u, j) = HolderIn(tree, u, j)
  BY <1>1, TransferEffect
<1>3. given \in SUBSET (Trees \X Indices) /\ given # {}
  BY <1>2
<1>4. Cardinality(given) = 1
  BY FS_Singleton
<1>5. Cardinality(given) <= IF o = Vault THEN 2 ELSE 1
  BY <1>4
<1>6. \A u \in Trees, j \in Indices : <<u, j>> \in given <=> u = t /\ j = a.index
  OBVIOUS
<1> HIDE DEF given
<1>7. \A u \in Trees, j \in Indices :
        /\ <<u, j>> \in given =>
             HolderIn(tree, u, j) = o /\ HolderIn(tree', u, j) \in Owners
        /\ <<u, j>> \notin given => HolderIn(tree', u, j) = HolderIn(tree, u, j)
  BY <1>2, <1>6
<1>8. Ledger!LedgerNext
  BY <1>3, <1>5, <1>7, GivenAway
<1> QED BY <1>2, <1>8

\* Two withdrawals of the vault, the second from what the first left.
LEMMA TwoGiven ==
  ASSUME ForestOK(tree), NEW t1 \in Trees, NEW to1 \in Owners, NEW a1 \in Args,
         WithdrawTwoCnfts(t1, to1, a1)
  PROVE  ForestOK(tree') /\ Ledger!LedgerNext
<1> DEFINE after == Transferred(tree, t1, to1, a1)
<1>1. Changeable(t1, 2) /\ CanTransfer(tree, t1, Vault, a1)
  BY DEF WithdrawTwoCnfts
<1>2. PICK t2 \in Trees, to2 \in Owners, a2 \in Args :
        /\ Changeable(t2, 2) /\ CanTransfer(after, t2, Vault, a2)
        /\ tree' = Transferred(after, t2, to2, a2)
  BY DEF WithdrawTwoCnfts, SecondTree
<1>3. after = Transferred(tree, t1, to1, a1)
  OBVIOUS
<1> HIDE DEF after
<1>4. Vault \in Owners
  BY DEF Owners
<1>5. \A t \in Trees : tree[t].changes \in 0 .. MaxChanges
  BY DEF ForestOK, Forests
<1>6. tree[t1].changes < MaxChanges /\ tree[t2].changes + 1 < MaxChanges
  BY <1>1, <1>2, <1>5, CompressionAssumption DEF Changeable
<1>7. /\ ForestOK(after) /\ a1.index \in Indices
      /\ HolderIn(tree, t1, a1.index) = Vault /\ HolderIn(after, t1, a1.index) = to1
      /\ \A u \in Trees, j \in Indices :
           <<u, j>> # <<t1, a1.index>> => HolderIn(after, u, j) = HolderIn(tree, u, j)
  BY <1>1, <1>3, <1>4, <1>6, TransferEffect
<1>8. after[t2].changes < MaxChanges
  <2>1. after = ReplaceLeaf(tree, t1, a1.index,
                            LeafSchema(t1, to1, to1, a1.nonce, a1.data))
    BY <1>3 DEF Transferred
  <2>2. tree \in Forests
    BY DEF ForestOK
  <2>3. /\ after[t1].changes = tree[t1].changes + 1
        /\ \A u \in Trees \ {t1} : after[u] = tree[u]
    BY <2>1, <2>2, <1>7, Replaced
  <2> QED BY <2>3, <1>5, <1>6, CompressionAssumption
<1>9. /\ ForestOK(tree') /\ a2.index \in Indices
      /\ HolderIn(after, t2, a2.index) = Vault /\ HolderIn(tree', t2, a2.index) = to2
      /\ \A u \in Trees, j \in Indices :
           <<u, j>> # <<t2, a2.index>> => HolderIn(tree', u, j) = HolderIn(after, u, j)
  BY <1>2, <1>7, <1>8, TransferEffect
<1> DEFINE first == <<t1, a1.index>>
           second == <<t2, a2.index>>
           given == {first, second}
<1>10. given \in SUBSET (Trees \X Indices) /\ given # {}
  BY <1>7, <1>9
<1>11. Cardinality(given) <= IF Vault = Vault THEN 2 ELSE 1
  <2> HIDE DEF first, second
  <2>1. IsFiniteSet({first}) /\ Cardinality({first}) = 1
    BY FS_Singleton
  <2>2. Cardinality({first} \cup {second}) \in {1, 2}
    BY <2>1, FS_AddElement
  <2>3. given = {first} \cup {second}
    OBVIOUS
  <2> QED BY <2>2, <2>3
<1>12. \A u \in Trees, j \in Indices :
         <<u, j>> \in given <=> (u = t1 /\ j = a1.index) \/ (u = t2 /\ j = a2.index)
  OBVIOUS
<1> HIDE DEF given
<1>13. ASSUME NEW u \in Trees, NEW j \in Indices
       PROVE  /\ <<u, j>> \in given =>
                   HolderIn(tree, u, j) = Vault /\ HolderIn(tree', u, j) \in Owners
              /\ <<u, j>> \notin given => HolderIn(tree', u, j) = HolderIn(tree, u, j)
  <2>1. CASE u = t2 /\ j = a2.index
    <3>1. HolderIn(tree', u, j) = to2
      BY <2>1, <1>9
    <3>2. HolderIn(tree, u, j) = Vault
      <4>1. CASE u = t1 /\ j = a1.index
        BY <4>1, <1>7
      <4>2. CASE ~(u = t1 /\ j = a1.index)
        BY <4>2, <2>1, <1>7, <1>9
      <4> QED BY <4>1, <4>2
    <3> QED BY <2>1, <3>1, <3>2, <1>12
  <2>2. CASE ~(u = t2 /\ j = a2.index)
    <3>1. HolderIn(tree', u, j) = HolderIn(after, u, j)
      BY <2>2, <1>9
    <3>2. CASE u = t1 /\ j = a1.index
      BY <2>2, <3>1, <3>2, <1>7, <1>12
    <3>3. CASE ~(u = t1 /\ j = a1.index)
      <4>1. HolderIn(after, u, j) = HolderIn(tree, u, j)
        BY <3>3, <1>7
      <4> QED BY <2>2, <3>1, <3>3, <4>1, <1>12
    <3> QED BY <3>2, <3>3
  <2> QED BY <2>1, <2>2
<1>14. Ledger!LedgerNext
  BY <1>4, <1>10, <1>11, <1>13, GivenAway
<1> QED BY <1>9, <1>14

\* Each instruction keeps the trees in order and moves the ledger by one entry's rules.
LEMMA CompressionStep ==
  ASSUME ForestOK(tree), CompressionNext
  PROVE  ForestOK(tree') /\ (Ledger!LedgerNext \/ LeafHolders' = LeafHolders)
<1>0. \A t \in Trees : tree[t].changes \in 0 .. MaxChanges
  BY DEF ForestOK, Forests
<1>1. \A t \in Trees : Changeable(t, 1) => tree[t].changes < MaxChanges
  BY <1>0, CompressionAssumption DEF Changeable
<1>2. Vault \in Owners /\ Wallets \subseteq Owners
  BY DEF Owners
<1>3. ASSUME NEW t \in Trees, NEW o \in Owners, NEW d \in Owners, NEW m \in Metadata,
             MintCnft(t, o, d, m)
      PROVE  ForestOK(tree') /\ Ledger!LedgerNext
  <2>1. PICK i \in Indices :
          /\ HolderIn(tree, t, i) = "unissued" /\ HolderIn(tree', t, i) = o
          /\ \A u \in Trees, j \in Indices :
               <<u, j>> # <<t, i>> => HolderIn(tree', u, j) = HolderIn(tree, u, j)
    BY <1>3, MintEffect
  <2>2. ForestOK(tree')
    BY <1>3, MintEffect
  <2> DEFINE a == <<t, i>>
             given == {a}
  <2>3. a \in Trees \X Indices /\ given \in SUBSET (Trees \X Indices)
    OBVIOUS
  <2>4. LeafHolders[a] = "unissued" /\ LeafHolders'[a] = o
    BY <2>1, HoldersPoint
  <2>5. \A u \in Trees, j \in Indices :
          <<u, j>> \notin given => HolderIn(tree', u, j) = HolderIn(tree, u, j)
    BY <2>1
  <2> HIDE DEF given
  <2>6. LeafHolders' = [b \in Trees \X Indices |->
                          IF b \in given THEN LeafHolders'[b] ELSE LeafHolders[b]]
    BY <2>3, <2>5, HoldersStep
  <2>7. LeafHolders' = [LeafHolders EXCEPT ![a] = o]
    BY <2>3, <2>4, <2>6 DEF given, LeafHolders
  <2>8. Ledger!LedgerNext
    BY <2>3, <2>4, <2>7, LedgerIssue
  <2> QED BY <2>2, <2>8
<1>4. ASSUME NEW t \in Trees, NEW to \in Owners, NEW a \in Args, WithdrawCnft(t, to, a)
      PROVE  ForestOK(tree') /\ Ledger!LedgerNext
  <2>1. /\ Changeable(t, 1) /\ CanTransfer(tree, t, Vault, a)
        /\ tree' = Transferred(tree, t, to, a)
    BY <1>4 DEF WithdrawCnft
  <2> QED BY <2>1, <1>2, OneGiven
<1>5. ASSUME NEW t \in Trees, NEW to \in Owners, NEW a \in Args,
             WithdrawTwoCnfts(t, to, a)
      PROVE  ForestOK(tree') /\ Ledger!LedgerNext
  BY <1>5, TwoGiven
<1>6. ASSUME NEW s \in Wallets, NEW t \in Trees, NEW o \in Owners, NEW a \in Args,
             BurnCnft(s, t, o, a)
      PROVE  ForestOK(tree') /\ Ledger!LedgerNext
  <2>1. /\ Changeable(t, 1)
        /\ IsOwner(s, LeafSchema(t, o, o, a.nonce, a.data))
        /\ Proves(tree, t, LeafSchema(t, o, o, a.nonce, a.data), a)
        /\ tree' = ReplaceLeaf(tree, t, a.index, NoLeaf)
    BY <1>6 DEF BurnCnft
  <2>2. o = s
    <3>1. LeafSchema(t, o, o, a.nonce, a.data).owner = o
      BY LeafFields
    <3> QED BY <2>1, <3>1 DEF IsOwner
  <2>3. o \in Owners \ {Vault}
    BY <2>2, <1>2, CompressionAssumption
  <2>4. /\ ForestOK(tree') /\ a.index \in Indices
        /\ HolderIn(tree, t, a.index) = o /\ HolderIn(tree', t, a.index) = "burnt"
        /\ \A u \in Trees, j \in Indices :
             <<u, j>> # <<t, a.index>> => HolderIn(tree', u, j) = HolderIn(tree, u, j)
    BY <1>1, <2>1, BurnEffect
  <2> DEFINE b == <<t, a.index>>
             given == {b}
  <2>5. b \in Trees \X Indices /\ given \in SUBSET (Trees \X Indices)
    BY <2>4
  <2>6. LeafHolders[b] = o /\ LeafHolders'[b] = "burnt"
    BY <2>4, HoldersPoint
  <2>7. \A u \in Trees, j \in Indices :
          <<u, j>> \notin given => HolderIn(tree', u, j) = HolderIn(tree, u, j)
    BY <2>4
  <2> HIDE DEF given
  <2>8. LeafHolders' = [c \in Trees \X Indices |->
                          IF c \in given THEN LeafHolders'[c] ELSE LeafHolders[c]]
    BY <2>5, <2>7, HoldersStep
  <2>9. LeafHolders' = [LeafHolders EXCEPT ![b] = "burnt"]
    BY <2>5, <2>6, <2>8 DEF given, LeafHolders
  <2>10. Ledger!LedgerNext
    BY <2>3, <2>5, <2>6, <2>9, LedgerBurn
  <2> QED BY <2>4, <2>10
<1>7. ASSUME NEW t \in Trees, NEW o \in Wallets, NEW to \in Owners, NEW a \in Args,
             HolderTransfers(t, o, to, a)
      PROVE  ForestOK(tree') /\ Ledger!LedgerNext
  <2>1. /\ Changeable(t, 1) /\ CanTransfer(tree, t, o, a)
        /\ tree' = Transferred(tree, t, to, a)
    BY <1>7 DEF HolderTransfers
  <2> QED BY <2>1, <1>2, OneGiven
<1>8. ASSUME NEW t \in Trees, NEW o \in Wallets, NEW d \in Wallets, NEW a \in Args,
             HolderDelegates(t, o, d, a)
      PROVE  ForestOK(tree') /\ LeafHolders' = LeafHolders
  <2>1. /\ Changeable(t, 1) /\ CanTransfer(tree, t, o, a)
        /\ tree' = ReplaceLeaf(tree, t, a.index, LeafSchema(t, o, d, a.nonce, a.data))
    BY <1>8 DEF HolderDelegates
  <2>2. /\ ForestOK(tree')
        /\ \A u \in Trees, j \in Indices : HolderIn(tree', u, j) = HolderIn(tree, u, j)
    BY <1>1, <1>2, <2>1, DelegateEffect
  <2>3. \A u \in Trees, j \in Indices : LeafHolders'[<<u, j>>] = LeafHolders[<<u, j>>]
    BY <2>2, HoldersPoint
  <2>4. \A b \in Trees \X Indices : LeafHolders'[b] = LeafHolders[b]
    BY <2>3
  <2> QED BY <2>2, <2>4 DEF LeafHolders
<1> QED BY <1>3, <1>4, <1>5, <1>6, <1>7, <1>8 DEF CompressionNext

LEMMA CompressionStart == CompressionInit => ForestOK(tree) /\ Ledger!LedgerInit
<1> SUFFICES ASSUME CompressionInit PROVE ForestOK(tree) /\ Ledger!LedgerInit
  OBVIOUS
<1>1. \A t \in Trees : /\ tree[t].num_minted = 0
                       /\ \A i \in Indices : tree[t].leaves[i] = NoLeaf
  BY DEF CompressionInit
<1>2. tree \in Forests
  BY CompressionAssumption DEF CompressionInit, Forests, LeafSet
<1>3. \A t \in Trees, i \in Indices : HolderIn(tree, t, i) = "unissued"
  BY <1>1, IndexFacts DEF HolderIn
<1>4. \A t \in Trees, i \in Indices : LeafHolders[<<t, i>>] = "unissued"
  BY <1>3, HoldersPoint
<1>5. \A asset \in Trees \X Indices : LeafHolders[asset] = "unissued"
  BY <1>4
<1>6. LeafHolders = [asset \in Trees \X Indices |-> "unissued"]
  BY <1>5 DEF LeafHolders
<1>7. Ledger!LedgerInit
  BY <1>6 DEF Ledger!LedgerInit, Ledger!Unissued, LeafHolders
<1> QED BY <1>1, <1>2, <1>7 DEF ForestOK, Placed

LEMMA TreesKept == ForestOK(tree) /\ [Next]_nftVars => ForestOK(tree)'
<1> SUFFICES ASSUME ForestOK(tree), [Next]_nftVars PROVE ForestOK(tree')
  OBVIOUS
<1>1. CompressionNext \/ UNCHANGED tree
  BY DEF Next, nftVars
<1>2. CASE CompressionNext
  BY <1>2, CompressionStep
<1>3. CASE UNCHANGED tree
  BY <1>3
<1> QED BY <1>1, <1>2, <1>3

\* Compressed NFTs are held like entries of a ledger, whatever the trees, the proofs
\* and the order of mints, withdrawals, burns, transfers and delegations: issued once,
\* given by their holders, two at most by the vault (withdraw_two_cnfts), never back
\* after a burn (cnft-burn), and none of the vault's burnt.
THEOREM TreesKeepLedger == Spec => ImplementsLedger
<1>1. Init => ForestOK(tree) /\ Ledger!LedgerInit
  BY CompressionStart DEF Init
<1>2. ForestOK(tree) /\ [Next]_nftVars => [Ledger!LedgerNext]_LeafHolders
  <2> SUFFICES ASSUME ForestOK(tree), [Next]_nftVars
               PROVE  Ledger!LedgerNext \/ LeafHolders' = LeafHolders
    OBVIOUS
  <2>1. CompressionNext \/ UNCHANGED tree
    BY DEF Next, nftVars
  <2>2. CASE CompressionNext
    BY <2>2, CompressionStep
  <2>3. CASE UNCHANGED tree
    BY <2>3 DEF LeafHolders, HolderOf
  <2> QED BY <2>1, <2>2, <2>3
<1>3. LeafHolders = [asset \in Trees \X Indices |-> HolderOf(asset)]
  BY DEF LeafHolders
<1> QED BY <1>1, <1>2, TreesKept, PTL
        DEF Spec, ImplementsLedger, Ledger!LedgerSpec, LeafHolders

\* A proof accepted speaks of the present: whoever cutils' verify accepts holds the
\* asset now, and a withdrawal from the vault leaves the proof of another withdrawal
\* good (withdraw_two_cnfts).
THEOREM ProofsAlwaysHold == Spec => []ProofsHold
<1>1. Init => ForestOK(tree)
  BY CompressionStart DEF Init
<1>2. ForestOK(tree) => VerifiedHolds
  <2> SUFFICES ASSUME ForestOK(tree), NEW signer \in Owners, NEW delegate \in Owners,
                      NEW t \in Trees, NEW a \in Args,
                      Proves(tree, t, VerifiedLeaf(signer, delegate, t, a), a)
               PROVE  HolderOf(get_asset_id(t, a.nonce)) = signer
    BY DEF VerifiedHolds
  <2>1. a.index \in Indices /\ a.index = a.nonce /\ HolderIn(tree, t, a.index) = signer
    BY ProvedIsThere DEF VerifiedLeaf
  <2> QED BY <2>1 DEF HolderIn, HolderOf, get_asset_id
<1>3. ForestOK(tree) => PairsCanLeave
  <2> DEFINE anyone == CHOOSE w \in Wallets : TRUE
             After(t, a) == Transferred(tree, t, anyone, a)
  <2> SUFFICES ASSUME ForestOK(tree), NEW t1 \in Trees, NEW a1 \in Args,
                      a1.taken = tree[t1].changes, CanTransfer(tree, t1, Vault, a1),
                      NEW t2 \in Trees, NEW a2 \in Args,
                      a2.taken = tree[t2].changes, CanTransfer(tree, t2, Vault, a2),
                      <<t2, a2.index>> # <<t1, a1.index>>
               PROVE  CanTransfer(After(t1, a1), t2, Vault, a2)
    BY DEF PairsCanLeave, SecondTree
  <2> DEFINE after == After(t1, a1)
             leaf == LeafSchema(t1, anyone, anyone, a1.nonce, a1.data)
  <2>1. after = ReplaceLeaf(tree, t1, a1.index, leaf)
    BY DEF Transferred
  <2>2. tree \in Forests /\ a1.index \in Indices /\ a2.index \in Indices
    BY DEF ForestOK, Args
  <2> HIDE DEF after, leaf
  <2>3. /\ \A j \in Indices \ {a1.index} : after[t1].leaves[j] = tree[t1].leaves[j]
        /\ after[t1].num_minted = tree[t1].num_minted
        /\ after[t1].changes = tree[t1].changes + 1
        /\ \A u \in Trees \ {t1} : after[u] = tree[u]
    BY <2>1, <2>2, Replaced
  <2>4. tree[t1].changes \in Nat /\ tree[t2].changes \in Nat
    BY <2>2, CompressionAssumption DEF Forests
  <2>5. /\ a2.taken <= after[t2].changes /\ after[t2].changes - a2.taken <= BufferSize
        /\ after[t2].num_minted = tree[t2].num_minted
    <3>1. after[t2].changes \in {tree[t2].changes, tree[t2].changes + 1}
      BY <2>3
    <3> QED BY <3>1, <2>3, <2>4, CompressionAssumption
  <2>6. after[t2].leaves[a2.index] = tree[t2].leaves[a2.index]
    BY <2>2, <2>3
  <2>7. CanTransfer(after, t2, Vault, a2)
    BY <2>5, <2>6 DEF CanTransfer, Proves
  <2> QED BY <2>7 DEF after
<1> QED BY <1>1, <1>2, <1>3, TreesKept, PTL DEF Spec, ProofsHold

-----------------------------------------------------------------------------
(* Mints: the associated accounts of one mint, and what they hold together *)

RowHeld(row) == SumFunction([w \in Holders |-> Held(row[w])])

LEMMA HeldIs ==
  /\ \A n \in Int : Held(n) \in Nat
  /\ \A n \in Nat : Held(n) = n
  /\ \A n \in Int : IfEmpty(n) >= 0 => IfEmpty(n) = Held(n)
  /\ \A n \in Int : IfNeeded(n) = Held(n)
BY DEF Held, IfEmpty, IfNeeded, Absent

LEMMA RowTotal ==
  ASSUME NEW row \in [Holders -> Int]
  PROVE  RowHeld(row) \in Nat /\ \A w \in Holders : row[w] <= RowHeld(row)
<1> DEFINE f == [w \in Holders |-> Held(row[w])]
<1>1. \A w \in Holders : f[w] \in Nat
  BY HeldIs
<1>2. IsFiniteSet(Holders)
  BY MintAssumption
<1>3. f \in [Holders -> Int] /\ RowHeld(row) = SumFunction(f)
  BY <1>1 DEF RowHeld
<1>4. \A w \in Holders : row[w] <= f[w]
  BY DEF Held
<1> HIDE DEF f
<1>5. SumFunction(f) = SumFunctionOnSet(f, Holders)
  BY <1>2, <1>3, SumOfFunction
<1>6. SumFunctionOnSet(f, Holders) \in Nat
  BY <1>1, <1>2, SumNat
<1>7. ASSUME NEW w \in Holders PROVE row[w] <= RowHeld(row)
  <2>1. f[w] <= SumFunctionOnSet(f, Holders)
    BY <1>1, <1>2, SumBounds
  <2> QED BY <2>1, <1>1, <1>3, <1>4, <1>5, <1>6
<1> QED BY <1>3, <1>5, <1>6, <1>7

LEMMA RowSet ==
  ASSUME NEW row \in [Holders -> Int], NEW w \in Holders, NEW v \in Nat,
         NEW new, new = [row EXCEPT ![w] = v]
  PROVE  new \in [Holders -> Int] /\ RowHeld(new) = RowHeld(row) + (v - Held(row[w]))
<1> DEFINE f == [x \in Holders |-> Held(row[x])]
           g == [x \in Holders |-> Held(new[x])]
<1>1. new \in [Holders -> Int] /\ new[w] = v /\ \A x \in Holders \ {w} : new[x] = row[x]
  OBVIOUS
<1>2. f \in [Holders -> Int] /\ g \in [Holders -> Int]
      /\ v - Held(row[w]) \in Int
  BY <1>1, HeldIs
<1>3. g[w] = f[w] + (v - Held(row[w])) /\ \A x \in Holders \ {w} : g[x] = f[x]
  BY <1>1, HeldIs
<1>4. RowHeld(row) = SumFunction(f) /\ RowHeld(new) = SumFunction(g)
  BY DEF RowHeld
<1>5. IsFiniteSet(Holders)
  BY MintAssumption
<1> HIDE DEF f, g
<1>6. SumFunction(g) = SumFunction(f) + (v - Held(row[w]))
  <2>1. \A x \in Holders : f[x] \in Int /\ g[x] \in Int
    BY <1>2
  <2>2. SumFunctionOnSet(g, Holders) = SumFunctionOnSet(f, Holders) - f[w] + g[w]
    BY <2>1, <1>3, <1>5, SumChange
  <2>3. SumFunction(f) = SumFunctionOnSet(f, Holders) /\ SumFunction(f) \in Int
    BY <1>2, <1>5, SumOfFunction
  <2>4. SumFunction(g) = SumFunctionOnSet(g, Holders)
    BY <1>2, <1>5, SumOfFunction
  <2> QED BY <2>1, <2>2, <2>3, <2>4, <1>2, <1>3
<1> QED BY <1>1, <1>4, <1>6

LEMMA RowStart == RowHeld([w \in Holders |-> Absent]) = 0
<1> DEFINE f == [w \in Holders |-> Held([x \in Holders |-> Absent][w])]
<1>1. f = [w \in Holders |-> 0]
  BY DEF Held, Absent
<1>2. IsFiniteSet(Holders)
  BY MintAssumption
<1> HIDE DEF f
<1>3. SumFunction(f) = 0
  BY <1>1, <1>2, SumOfZeros
<1> QED BY <1>3 DEF RowHeld, f

-----------------------------------------------------------------------------
(* The invariant of the mints *)

\* Who may mint of a mint between two instructions.
Settled == Holders \cup MinterPDAs \cup {"unmade", "mint", Edition}
Signers == Settled \cup CollectionPDAs \cup {None}
RecsWith(authorities) ==
  [authority: authorities, freeze: Signers, decimals: MintDecimals \cup {AnchorDecimals},
   supply: 0 .. U64_MAX, update: Signers, collection: Mints \cup {None},
   verified: BOOLEAN, sized: BOOLEAN, members: Nat]
MintRecs == RecsWith(Settled)
Rows == [Holders -> Absent .. U64_MAX]

\* Members verified of collection c.
VerifiedOf(c) == {m \in Mints : minted[m].verified /\ minted[m].collection = c}

Backed == \A m \in Mints : minted[m].supply = RowHeld(tokens[m])

\* A verified member names an NFT, whose mint is closed.
MembersNamed ==
  \A m \in Mints :
    minted[m].verified =>
      /\ minted[m].collection \in Mints
      /\ minted[minted[m].collection].authority = Edition

MintsOK ==
  /\ minted \in [Mints -> MintRecs] /\ tokens \in [Mints -> Rows]
  /\ Backed /\ OneOfEach /\ MembersNamed /\ CollectionsCounted

MinterOK == minter \in [native: BOOLEAN, pinocchio: BOOLEAN, admin: Holders \cup {None}]

\* What the invariant says of one mint, apart from its members.
MintOK(r, row) ==
  /\ r \in MintRecs /\ row \in Rows
  /\ r.supply = RowHeld(row)
  /\ r.authority \in MinterPDAs \cup CollectionPDAs => r.supply = 0
  /\ r.authority = Edition => r.supply = 1

LEMMA MintsOKIs ==
  ASSUME minted \in [Mints -> MintRecs], tokens \in [Mints -> Rows]
  PROVE  MintsOK <=> /\ \A m \in Mints : MintOK(minted[m], tokens[m])
                     /\ MembersNamed /\ CollectionsCounted
BY DEF MintsOK, MintOK, Backed, OneOfEach

\* Names that differ: what is made with one authority is not made with another.
LEMMA NamesApart ==
  /\ Edition \notin Holders /\ Edition \notin MinterPDAs \cup CollectionPDAs
  /\ None \notin Holders
  /\ \A w \in Holders : w \notin MinterPDAs \cup CollectionPDAs
  /\ "mint" \notin MinterPDAs \cup CollectionPDAs /\ "mint" # Edition
  /\ "unmade" # Edition /\ "unmade" \notin MinterPDAs \cup CollectionPDAs
BY MintAssumption DEF Edition, None, MinterPDAs, CollectionPDAs

LEMMA UnmadeFields ==
  /\ Unmade.authority = "unmade" /\ Unmade.supply = 0 /\ Unmade.members = 0
  /\ Unmade.verified = FALSE /\ Unmade.sized = FALSE /\ Unmade.collection = None
  /\ Unmade \in MintRecs
BY MintAssumption DEF Unmade, MintRecs, RecsWith, Settled, Signers

\* A mint changed, with its accounts: the others are as they were.
LEMMA OneMintChanges ==
  ASSUME MintsOK, NEW m \in Mints, NEW r, NEW row, MintOK(r, row),
         minted' = [minted EXCEPT ![m] = r], tokens' = [tokens EXCEPT ![m] = row],
         MembersNamed', CollectionsCounted'
  PROVE  MintsOK'
<1>1. minted' \in [Mints -> MintRecs] /\ tokens' \in [Mints -> Rows]
  BY DEF MintsOK, MintOK
<1>2. \A k \in Mints : MintOK(minted[k], tokens[k])
  BY DEF MintsOK, MintOK, Backed, OneOfEach
<1>3. \A k \in Mints : MintOK(minted'[k], tokens'[k])
  <2> SUFFICES ASSUME NEW k \in Mints PROVE MintOK(minted'[k], tokens'[k])
    OBVIOUS
  <2>1. CASE k = m
    <3>1. minted'[k] = r /\ tokens'[k] = row
      BY <2>1 DEF MintsOK
    <3> QED BY <3>1
  <2>2. CASE k # m
    <3>1. minted'[k] = minted[k] /\ tokens'[k] = tokens[k]
      BY <2>2 DEF MintsOK
    <3> QED BY <3>1, <1>2
  <2> QED BY <2>1, <2>2
<1>4. Backed' /\ OneOfEach'
  BY <1>3 DEF Backed, OneOfEach, MintOK
<1> QED BY <1>1, <1>4 DEF MintsOK

\* A mint that was not there joins no collection and has no members yet.
LEMMA NewMintMembers ==
  ASSUME MintsOK, NEW m \in Mints, minted[m] = Unmade, NEW r \in MintRecs,
         r.verified = FALSE, r.members = 0, minted' = [minted EXCEPT ![m] = r]
  PROVE  MembersNamed' /\ CollectionsCounted'
<1>1. minted'[m] = r /\ \A k \in Mints \ {m} : minted'[k] = minted[k]
  BY DEF MintsOK
<1>2. ~minted[m].verified /\ minted[m].authority # Edition
  BY UnmadeFields, NamesApart
<1>3. ASSUME NEW k \in Mints, minted'[k].verified
      PROVE  /\ k # m /\ minted[k].verified /\ minted[k].collection \in Mints
             /\ minted[k].collection # m
             /\ minted'[k].collection = minted[k].collection
             /\ minted'[minted[k].collection].authority = Edition
  <2>1. k # m /\ minted'[k] = minted[k]
    BY <1>1, <1>3
  <2>2. minted[k].collection \in Mints /\ minted[minted[k].collection].authority = Edition
    BY <1>3, <2>1 DEF MintsOK, MembersNamed
  <2> QED BY <1>1, <1>2, <1>3, <2>1, <2>2
<1>4. MembersNamed'
  BY <1>3 DEF MembersNamed
<1>5. ASSUME NEW c \in Mints PROVE VerifiedOf(c)' = VerifiedOf(c)
  BY <1>1, <1>2, <1>3 DEF VerifiedOf
<1>6. VerifiedOf(m)' = {}
  BY <1>3 DEF VerifiedOf
<1>7. \A c \in Mints : minted[c].sized => minted[c].members = Cardinality(VerifiedOf(c))
  BY DEF MintsOK, CollectionsCounted, VerifiedOf
<1>8. ASSUME NEW c \in Mints, minted'[c].sized
      PROVE  minted'[c].members = Cardinality(VerifiedOf(c)')
  <2>1. CASE c = m
    BY <2>1, <1>1, <1>6, FS_EmptySet
  <2>2. CASE c # m
    BY <2>2, <1>1, <1>5, <1>7, <1>8
  <2> QED BY <2>1, <2>2
<1>9. CollectionsCounted'
  BY <1>8 DEF CollectionsCounted, VerifiedOf
<1> QED BY <1>4, <1>9

\* Issuing tokens concerns nobody's membership.
LEMMA IssueMembers ==
  ASSUME MintsOK, NEW m \in Mints, NEW r \in MintRecs,
         r.verified = minted[m].verified, r.collection = minted[m].collection,
         r.sized = minted[m].sized, r.members = minted[m].members,
         minted[m].authority = Edition => r.authority = Edition,
         minted' = [minted EXCEPT ![m] = r]
  PROVE  MembersNamed' /\ CollectionsCounted'
<1>1. minted'[m] = r /\ \A k \in Mints \ {m} : minted'[k] = minted[k]
  BY DEF MintsOK
<1>2. \A k \in Mints : /\ minted'[k].verified = minted[k].verified
                       /\ minted'[k].collection = minted[k].collection
                       /\ minted'[k].sized = minted[k].sized
                       /\ minted'[k].members = minted[k].members
                       /\ minted[k].authority = Edition => minted'[k].authority = Edition
  BY <1>1
<1>3. MembersNamed'
  BY <1>2 DEF MintsOK, MembersNamed
<1>4. \A c \in Mints : VerifiedOf(c)' = VerifiedOf(c)
  BY <1>2 DEF VerifiedOf
<1>5. \A c \in Mints : minted[c].sized => minted[c].members = Cardinality(VerifiedOf(c))
  BY DEF MintsOK, CollectionsCounted, VerifiedOf
<1>6. \A c \in Mints : minted'[c].sized => minted'[c].members = Cardinality(VerifiedOf(c)')
  BY <1>2, <1>4, <1>5
<1>7. CollectionsCounted'
  BY <1>6 DEF CollectionsCounted, VerifiedOf
<1> QED BY <1>3, <1>7

-----------------------------------------------------------------------------
(* Each instruction keeps the mints in order *)

\* What the programs initialise and describe: a mint of nothing, in no collection.
LEMMA InitializedIs ==
  ASSUME NEW a \in Settled \cup CollectionPDAs, NEW f \in Signers,
         NEW d \in MintDecimals \cup {AnchorDecimals}
  PROVE  /\ Initialized(a, f, d) \in RecsWith({a})
         /\ Initialized(a, f, d).supply = 0 /\ Initialized(a, f, d).members = 0
         /\ Initialized(a, f, d).verified = FALSE
BY UnmadeFields, MintAssumption DEF Initialized, MintRecs, RecsWith

LEMMA DescribedIs ==
  ASSUME NEW a \in Settled \cup CollectionPDAs, NEW r \in RecsWith({a})
  PROVE  /\ Described(r) \in RecsWith({a})
         /\ Described(r).supply = r.supply /\ Described(r).members = r.members
         /\ Described(r).verified = r.verified
<1>1. a \in Signers
  BY DEF Signers
<1> QED BY <1>1 DEF Described, RecsWith

LEMMA MadeOK ==
  ASSUME MintsOK, NEW m \in Mints, minted[m] = Unmade,
         NEW r \in MintRecs, r.supply = 0, r.verified = FALSE, r.members = 0,
         r.authority # Edition,
         minted' = [minted EXCEPT ![m] = r], UNCHANGED tokens
  PROVE  MintsOK'
<1>1. MembersNamed' /\ CollectionsCounted'
  BY NewMintMembers
<1>2. tokens' = [tokens EXCEPT ![m] = tokens[m]]
  BY DEF MintsOK
<1>3. MintOK(r, tokens[m])
  <2>1. RowHeld(tokens[m]) = 0
    BY UnmadeFields DEF MintsOK, Backed
  <2> QED BY <2>1 DEF MintOK, MintsOK
<1> QED BY <1>1, <1>2, <1>3, OneMintChanges

\* A mint with a wallet, or one of the minters' PDAs, as its authority.
LEMMA MadeFor ==
  ASSUME MintsOK, NEW m \in Mints, minted[m] = Unmade, UNCHANGED tokens,
         NEW a \in Holders \cup MinterPDAs \cup {"mint"}, NEW f \in {a, None},
         NEW d \in MintDecimals \cup {AnchorDecimals}, NEW r,
         \/ r = Initialized(a, f, d)
         \/ r = Described(Initialized(a, f, d)),
         minted' = [minted EXCEPT ![m] = r]
  PROVE  MintsOK'
<1>1. a \in Settled /\ a # Edition /\ f \in Signers
  BY NamesApart DEF Settled, Signers
<1>2. /\ r \in MintRecs /\ r.supply = 0 /\ r.verified = FALSE /\ r.members = 0
      /\ r.authority = a
  <2> DEFINE s == Initialized(a, f, d)
  <2>1. s \in RecsWith({a}) /\ s.supply = 0 /\ s.verified = FALSE /\ s.members = 0
    BY <1>1, InitializedIs
  <2>2. r = s \/ r = Described(s)
    OBVIOUS
  <2> HIDE DEF s
  <2>3. r \in RecsWith({a}) /\ r.supply = 0 /\ r.verified = FALSE /\ r.members = 0
    BY <1>1, <2>1, <2>2, DescribedIs
  <2> QED BY <1>1, <2>3 DEF MintRecs, RecsWith
<1> QED BY <1>1, <1>2, MadeOK

\* Tokens into one account: the supply grows by as much.
LEMMA IssuedOK ==
  ASSUME MintsOK, NEW m \in Mints, NEW to \in Holders, NEW n \in Nat, NEW held,
         held \in {IfEmpty(tokens[m][to]), IfNeeded(tokens[m][to])}, held >= 0,
         NEW r \in MintRecs, r.supply = minted[m].supply + n,
         r.verified = minted[m].verified, r.collection = minted[m].collection,
         r.sized = minted[m].sized, r.members = minted[m].members,
         minted[m].authority # Edition,
         r.authority \in MinterPDAs \cup CollectionPDAs => r.supply = 0,
         r.authority = Edition => r.supply = 1,
         minted' = [minted EXCEPT ![m] = r],
         tokens' = [tokens EXCEPT ![m][to] = held + n]
  PROVE  MintsOK'
<1> DEFINE row == tokens[m]
           new == [row EXCEPT ![to] = held + n]
<1>1. row \in Rows /\ row \in [Holders -> Int] /\ row[to] \in Int
  BY MintAssumption DEF MintsOK, Rows, Absent
<1>2. held = Held(row[to]) /\ held \in Nat
  BY <1>1, HeldIs
<1>3. new \in [Holders -> Int] /\ RowHeld(new) = RowHeld(row) + ((held + n) - held)
  <2>1. held + n \in Nat
    BY <1>2
  <2> HIDE DEF row
  <2>2. \A v \in Nat : \A g : g = [row EXCEPT ![to] = v] =>
          g \in [Holders -> Int] /\ RowHeld(g) = RowHeld(row) + (v - Held(row[to]))
    BY <1>1, RowSet
  <2> QED BY <2>1, <2>2, <1>2
<1>4. RowHeld(row) = minted[m].supply
  BY DEF MintsOK, Backed
<1>5. r.supply \in 0 .. U64_MAX /\ minted[m].supply \in Nat
  BY MintAssumption DEF MintRecs, RecsWith, MintsOK
<1>6. RowHeld(new) = r.supply
  BY <1>2, <1>3, <1>4, <1>5
<1>7. new \in Rows
  <2>1. \A w \in Holders : new[w] <= r.supply
    BY <1>3, <1>6, RowTotal
  <2>2. \A w \in Holders : new[w] \in Int /\ Absent <= new[w]
    BY <1>1, <1>2 DEF Rows, Absent
  <2>3. \A w \in Holders : new[w] \in Absent .. U64_MAX
    BY <2>1, <2>2, <1>5, MintAssumption DEF Absent
  <2> QED BY <2>3, <1>3 DEF Rows
<1>8. tokens' = [tokens EXCEPT ![m] = new]
  BY DEF MintsOK
<1> HIDE DEF new
<1>9. MintOK(r, new)
  BY <1>6, <1>7 DEF MintOK
<1>10. MembersNamed' /\ CollectionsCounted'
  BY IssueMembers
<1> QED BY <1>8, <1>9, <1>10, OneMintChanges

\* MintTo by a wallet, or by the Anchor minter's mint itself.
LEMMA IssueTokensOK ==
  ASSUME MintsOK, NEW m \in Mints, NEW signer \in Holders \cup {"mint"},
         NEW to \in Holders, NEW n \in Nat, NEW held,
         held \in {IfEmpty(tokens[m][to]), IfNeeded(tokens[m][to])},
         IssueTokens(m, signer, to, held, n)
  PROVE  MintsOK'
<1> DEFINE r == [minted[m] EXCEPT !.supply = @ + n]
<1>1. /\ minted[m].authority = signer /\ held >= 0 /\ minted[m].supply + n <= U64_MAX
      /\ minted' = [minted EXCEPT ![m] = r]
      /\ tokens' = [tokens EXCEPT ![m][to] = held + n]
  BY DEF IssueTokens, CanMint, WithSupply
<1>2. minted[m] \in MintRecs
  BY DEF MintsOK
<1>3. /\ r \in MintRecs /\ r.supply = minted[m].supply + n
      /\ r.verified = minted[m].verified /\ r.collection = minted[m].collection
      /\ r.sized = minted[m].sized /\ r.members = minted[m].members
      /\ r.authority = minted[m].authority
  BY <1>1, <1>2, MintAssumption DEF MintRecs, RecsWith
<1>4. signer # Edition /\ signer \notin MinterPDAs \cup CollectionPDAs
  BY NamesApart
<1> HIDE DEF r
<1>5. /\ r.authority \in MinterPDAs \cup CollectionPDAs => r.supply = 0
      /\ r.authority = Edition => r.supply = 1
      /\ minted[m].authority # Edition
  BY <1>1, <1>3, <1>4
<1> QED BY <1>1, <1>3, <1>5, IssuedOK

\* The only token of a mint, and the edition with it.
LEMMA IssueNftOK ==
  ASSUME MintsOK, NEW m \in Mints, NEW signer \in Holders \cup MinterPDAs,
         NEW to \in Holders, NEW held,
         held \in {IfEmpty(tokens[m][to]), IfNeeded(tokens[m][to])},
         IssueNft(m, signer, to, held)
  PROVE  MintsOK'
<1> DEFINE s == [minted[m] EXCEPT !.supply = @ + 1]
           r == Editioned(s)
<1>1. /\ minted[m].authority = signer /\ held >= 0 /\ minted[m].supply + 1 <= U64_MAX
      /\ s.supply = 1
      /\ minted' = [minted EXCEPT ![m] = r]
      /\ tokens' = [tokens EXCEPT ![m][to] = held + 1]
  BY DEF IssueNft, CanMint, WithSupply, CanEdition, LimitedEdition
<1>2. minted[m] \in MintRecs
  BY DEF MintsOK
<1>3. /\ s \in MintRecs /\ s.supply = minted[m].supply + 1
      /\ s.verified = minted[m].verified /\ s.collection = minted[m].collection
      /\ s.sized = minted[m].sized /\ s.members = minted[m].members
  BY <1>1, <1>2, MintAssumption DEF MintRecs, RecsWith
<1> HIDE DEF s
<1>4. /\ r \in MintRecs /\ r.supply = s.supply /\ r.authority = Edition
      /\ r.verified = s.verified /\ r.collection = s.collection
      /\ r.sized = s.sized /\ r.members = s.members
  <2> DEFINE f == IF s.freeze = None THEN None ELSE Edition
  <2>1. r = [s EXCEPT !.authority = Edition, !.freeze = f]
    BY DEF Editioned
  <2>2. Edition \in Signers /\ Edition \in Settled /\ None \in Signers
    BY DEF Settled, Signers
  <2>3. f \in Signers
    BY <2>2
  <2> HIDE DEF r, f
  <2> QED BY <1>3, <2>1, <2>2, <2>3 DEF MintRecs, RecsWith
<1>5. signer # Edition /\ Edition \notin MinterPDAs \cup CollectionPDAs
  BY NamesApart
<1> HIDE DEF r
<1>6. /\ r \in MintRecs /\ r.supply = minted[m].supply + 1
      /\ r.verified = minted[m].verified /\ r.collection = minted[m].collection
      /\ r.sized = minted[m].sized /\ r.members = minted[m].members
      /\ r.authority \in MinterPDAs \cup CollectionPDAs => r.supply = 0
      /\ r.authority = Edition => r.supply = 1
      /\ minted[m].authority # Edition
  BY <1>1, <1>3, <1>4, <1>5
<1>7. ASSUME NEW n \in Nat, n = 1 PROVE MintsOK'
  <2>1. /\ held >= 0
        /\ r \in MintRecs /\ r.supply = minted[m].supply + n
        /\ r.verified = minted[m].verified /\ r.collection = minted[m].collection
        /\ r.sized = minted[m].sized /\ r.members = minted[m].members
        /\ r.authority \in MinterPDAs \cup CollectionPDAs => r.supply = 0
        /\ r.authority = Edition => r.supply = 1
        /\ minted[m].authority # Edition
        /\ minted' = [minted EXCEPT ![m] = r]
        /\ tokens' = [tokens EXCEPT ![m][to] = held + n]
    BY <1>1, <1>6, <1>7
  <2> QED BY <2>1, IssuedOK
<1> QED BY <1>7

\* A transfer moves what is held and adds nothing.
LEMMA MoveOK ==
  ASSUME MintsOK, NEW m \in Mints, NEW from \in Holders, NEW to \in Holders, NEW n \in Nat,
         NEW held, held \in {IfEmpty(tokens[m][to]), IfNeeded(tokens[m][to])},
         Move(m, from, to, held, n), UNCHANGED minted
  PROVE  MintsOK'
<1> DEFINE row == tokens[m]
           ready == [row EXCEPT ![to] = held]
           debited == [ready EXCEPT ![from] = @ - n]
           final == [debited EXCEPT ![to] = @ + n]
<1>1. row[from] >= n /\ held >= 0 /\ tokens' = [tokens EXCEPT ![m] = final]
  BY DEF Move
<1>2. row \in Rows /\ row \in [Holders -> Int] /\ row[to] \in Int /\ row[from] \in Int
  BY MintAssumption DEF MintsOK, Rows, Absent
<1>3. held = Held(row[to]) /\ held \in Nat
  BY <1>1, <1>2, HeldIs
<1>4. row[from] \in Nat
  BY <1>1, <1>2
<1>5. ready \in [Holders -> Int] /\ RowHeld(ready) = RowHeld(row) + (held - Held(row[to]))
  <2> HIDE DEF row
  <2>1. \A v \in Nat : \A g : g = [row EXCEPT ![to] = v] =>
          g \in [Holders -> Int] /\ RowHeld(g) = RowHeld(row) + (v - Held(row[to]))
    BY <1>2, RowSet
  <2> QED BY <2>1, <1>3
<1>6. ready[from] = row[from] /\ ready[from] \in Nat /\ ready[from] - n \in Nat
  <2>1. CASE from = to
    <3>1. Held(row[to]) = row[from]
      BY <2>1, <1>4, HeldIs
    <3> QED BY <2>1, <3>1, <1>1, <1>2, <1>3
  <2>2. CASE from # to
    BY <2>2, <1>1, <1>2, <1>4
  <2> QED BY <2>1, <2>2
<1>7. debited \in [Holders -> Int] /\ RowHeld(debited) = RowHeld(ready) + (-n)
  <2> HIDE DEF ready
  <2>1. \A v \in Nat : \A g : g = [ready EXCEPT ![from] = v] =>
          g \in [Holders -> Int] /\ RowHeld(g) = RowHeld(ready) + (v - Held(ready[from]))
    BY <1>5, RowSet
  <2>2. Held(ready[from]) = ready[from]
    BY <1>6, HeldIs
  <2>3. debited = [ready EXCEPT ![from] = ready[from] - n]
    OBVIOUS
  <2>4. debited \in [Holders -> Int]
        /\ RowHeld(debited) = RowHeld(ready) + ((ready[from] - n) - ready[from])
    BY <2>1, <2>2, <2>3, <1>6
  <2> QED BY <2>4, <1>6
<1>8. debited[to] \in Nat
  <2>1. CASE from = to
    BY <2>1, <1>5, <1>6
  <2>2. CASE from # to
    BY <2>2, <1>2, <1>3, <1>5
  <2> QED BY <2>1, <2>2
<1>9. final \in [Holders -> Int] /\ RowHeld(final) = RowHeld(debited) + n
  <2> HIDE DEF debited
  <2>1. \A v \in Nat : \A g : g = [debited EXCEPT ![to] = v] =>
          g \in [Holders -> Int] /\ RowHeld(g) = RowHeld(debited) + (v - Held(debited[to]))
    BY <1>7, RowSet
  <2>2. Held(debited[to]) = debited[to]
    BY <1>8, HeldIs
  <2>3. final = [debited EXCEPT ![to] = debited[to] + n]
    OBVIOUS
  <2>4. debited[to] + n \in Nat
    BY <1>8
  <2>5. final \in [Holders -> Int]
        /\ RowHeld(final) = RowHeld(debited) + ((debited[to] + n) - debited[to])
    BY <2>1, <2>2, <2>3, <2>4
  <2> QED BY <2>5, <1>8
<1>10. RowHeld(row) \in Nat
  BY <1>2, RowTotal
<1>11. RowHeld(final) = RowHeld(row)
  <2>1. RowHeld(ready) = RowHeld(row)
    BY <1>3, <1>5, <1>10
  <2> HIDE DEF final, debited, ready
  <2> QED BY <2>1, <1>7, <1>9, <1>10
<1>12. RowHeld(row) = minted[m].supply /\ minted[m].supply \in 0 .. U64_MAX
  BY DEF MintsOK, Backed, MintRecs, RecsWith
<1>13. final \in Rows
  <2>1. \A w \in Holders : final[w] <= minted[m].supply
    <3> HIDE DEF final, row
    <3> QED BY <1>9, <1>11, <1>12, RowTotal
  <2>2. \A w \in Holders : final[w] \in Int /\ Absent <= final[w]
    <3> SUFFICES ASSUME NEW w \in Holders PROVE final[w] \in Int /\ Absent <= final[w]
      OBVIOUS
    <3>1. CASE w = to
      BY <3>1, <1>7, <1>8 DEF Absent
    <3>2. CASE w # to /\ w = from
      BY <3>2, <1>5, <1>6, <1>7 DEF Absent
    <3>3. CASE w # to /\ w # from
      <4>1. final[w] = row[w]
        BY <3>3, <1>2, <1>5, <1>7
      <4> HIDE DEF final
      <4>2. row[w] \in Int /\ Absent <= row[w]
        BY <1>2, MintAssumption DEF Rows, Absent
      <4> QED BY <4>1, <4>2
    <3> QED BY <3>1, <3>2, <3>3
  <2> HIDE DEF final
  <2>3. \A w \in Holders : final[w] \in Absent .. U64_MAX
    BY <2>1, <2>2, <1>12, MintAssumption DEF Absent
  <2> QED BY <2>3, <1>9 DEF Rows
<1>14. MintOK(minted[m], row)
  BY DEF MintsOK, MintOK, Backed, OneOfEach
<1> HIDE DEF row, final
<1>15. MintOK(minted[m], final)
  BY <1>11, <1>13, <1>14 DEF MintOK
<1>16. minted' = [minted EXCEPT ![m] = minted[m]]
  BY DEF MintsOK
<1>17. MembersNamed' /\ CollectionsCounted'
  BY DEF MintsOK, MembersNamed, CollectionsCounted
<1> QED BY <1>1, <1>15, <1>16, <1>17, OneMintChanges

LEMMA NftStart ==
  ASSUME NEW pda \in CollectionPDAs
  PROVE  LET s == Described(Initialized(pda, pda, 0)) IN
         s \in RecsWith({pda}) /\ s.verified = FALSE /\ s.members = 0
<1> DEFINE s == Initialized(pda, pda, 0)
<1>1. /\ pda \in Settled \cup CollectionPDAs /\ pda \in Signers
      /\ 0 \in MintDecimals \cup {AnchorDecimals}
  BY MintAssumption DEF Signers
<1>2. s \in RecsWith({pda}) /\ s.members = 0 /\ s.verified = FALSE
  BY <1>1, InitializedIs
<1> HIDE DEF s
<1>3. Described(s) \in RecsWith({pda}) /\ Described(s).members = 0
      /\ Described(s).verified = FALSE
  BY <1>1, <1>2, DescribedIs
<1> QED BY <1>3 DEF s

\* A collection, or an NFT that names one: mint, token and edition in one step.
LEMMA NewNftOK ==
  ASSUME MintsOK, NEW m \in Mints, NEW w \in Holders, NEW pda \in CollectionPDAs,
         NEW c \in Mints, NEW mint, mint \in {CollectionOf(pda), MemberOf(pda, c)},
         NewNft(w, m, mint)
  PROVE  MintsOK'
<1> DEFINE start == Described(Initialized(pda, pda, 0))
           one == [mint EXCEPT !.supply = 1]
           r == Editioned(one)
           row == tokens[m]
           v == IfNeeded(row[w]) + 1
           new == [row EXCEPT ![w] = v]
<1>1. /\ minted[m] = Unmade
      /\ minted' = [minted EXCEPT ![m] = r]
      /\ tokens' = [tokens EXCEPT ![m][w] = v]
  BY DEF NewNft, LimitedEdition, MintsOK, Rows
<1>2. start \in RecsWith({pda}) /\ start.verified = FALSE /\ start.members = 0
  BY NftStart
<1>3. mint \in {[start EXCEPT !.sized = TRUE], [start EXCEPT !.collection = c]}
  BY DEF CollectionOf, MemberOf
<1> HIDE DEF start
<1>4. mint \in RecsWith({pda}) /\ mint.verified = FALSE /\ mint.members = 0
  BY <1>2, <1>3 DEF RecsWith
<1>5. /\ one \in RecsWith({pda}) /\ one.supply = 1 /\ one.verified = FALSE
      /\ one.members = 0
  BY <1>4, MintAssumption DEF RecsWith
<1> HIDE DEF one
<1>6. /\ r \in MintRecs /\ r.supply = 1 /\ r.verified = FALSE /\ r.members = 0
      /\ r.authority = Edition
  BY <1>5 DEF Editioned, MintRecs, RecsWith, Settled, Signers
<1> HIDE DEF r
<1>7. row \in Rows /\ row \in [Holders -> Int] /\ row[w] \in Int
  BY MintAssumption DEF MintsOK, Rows, Absent
<1>8. RowHeld(row) = 0
  BY <1>1, UnmadeFields DEF MintsOK, Backed
<1>9. IfNeeded(row[w]) = Held(row[w]) /\ Held(row[w]) \in Nat /\ v \in Nat
  BY <1>7, HeldIs
<1>10. new \in [Holders -> Int] /\ RowHeld(new) = 1
  <2> HIDE DEF row, v
  <2>1. \A n \in Nat : \A g : g = [row EXCEPT ![w] = n] =>
          g \in [Holders -> Int] /\ RowHeld(g) = RowHeld(row) + (n - Held(row[w]))
    BY <1>7, RowSet
  <2>2. new \in [Holders -> Int] /\ RowHeld(new) = RowHeld(row) + (v - Held(row[w]))
    BY <2>1, <1>9
  <2> QED BY <2>2, <1>8, <1>9 DEF v
<1>11. new \in Rows
  <2>1. \A x \in Holders : new[x] <= 1
    <3> HIDE DEF new
    <3> QED BY <1>10, RowTotal
  <2>2. \A x \in Holders : new[x] \in Int /\ Absent <= new[x]
    <3> HIDE DEF v
    <3> QED BY <1>7, <1>9, MintAssumption DEF Rows, Absent
  <2> HIDE DEF new
  <2>3. \A x \in Holders : new[x] \in Absent .. U64_MAX
    BY <2>1, <2>2, MintAssumption DEF Absent
  <2> QED BY <2>3, <1>10 DEF Rows
<1>12. tokens' = [tokens EXCEPT ![m] = new]
  BY <1>1 DEF MintsOK
<1>13. Edition \notin MinterPDAs \cup CollectionPDAs
  BY NamesApart
<1> HIDE DEF new
<1>14. MintOK(r, new)
  BY <1>6, <1>10, <1>11, <1>13 DEF MintOK
<1>15. MembersNamed' /\ CollectionsCounted'
  BY <1>1, <1>6, NewMintMembers
<1> QED BY <1>1, <1>12, <1>14, <1>15, OneMintChanges

\* A verification adds one member to the collection that is named, and counts it.
LEMMA VerifyOK ==
  ASSUME MintsOK, NEW pda, NEW m \in Mints, NEW c \in Mints, Verify(pda, m, c)
  PROVE  MintsOK'
<1> DEFINE rm == [minted[m] EXCEPT !.verified = TRUE]
           checked == [minted EXCEPT ![m] = rm]
           k == IF minted[c].sized THEN 1 ELSE 0
           rc == [checked[c] EXCEPT !.members = @ + k]
<1>1. /\ minted[m].collection = c /\ ~minted[m].verified
      /\ minted[c].authority = Edition
      /\ minted' = [checked EXCEPT ![c] = rc] /\ UNCHANGED tokens
  BY DEF Verify
<1>2. \A x \in Mints : minted[x] \in MintRecs
  BY DEF MintsOK
<1>3. /\ rm \in MintRecs /\ rm.verified = TRUE
      /\ rm.authority = minted[m].authority /\ rm.supply = minted[m].supply
      /\ rm.collection = minted[m].collection /\ rm.sized = minted[m].sized
      /\ rm.members = minted[m].members
  BY <1>2 DEF MintRecs, RecsWith
<1> HIDE DEF rm
<1>4. /\ checked \in [Mints -> MintRecs]
      /\ checked[m] = rm /\ \A x \in Mints \ {m} : checked[x] = minted[x]
  BY <1>3 DEF MintsOK
<1> HIDE DEF checked
<1>5. k \in Nat
  OBVIOUS
<1> HIDE DEF k
<1>6. /\ rc \in MintRecs /\ rc.verified = checked[c].verified
      /\ rc.authority = checked[c].authority /\ rc.supply = checked[c].supply
      /\ rc.collection = checked[c].collection /\ rc.sized = checked[c].sized
      /\ rc.members = checked[c].members + k
  <2>1. checked[c] \in MintRecs
    BY <1>4
  <2> QED BY <2>1, <1>5 DEF MintRecs, RecsWith
<1> HIDE DEF rc
<1>7. /\ minted' \in [Mints -> MintRecs]
      /\ minted'[c] = rc /\ \A x \in Mints \ {c} : minted'[x] = checked[x]
  BY <1>1, <1>4, <1>6
<1>8. ASSUME NEW x \in Mints
      PROVE  /\ minted'[x].authority = minted[x].authority
             /\ minted'[x].supply = minted[x].supply
             /\ minted'[x].collection = minted[x].collection
             /\ minted'[x].sized = minted[x].sized
             /\ minted'[x].verified <=> (minted[x].verified \/ x = m)
             /\ x # c => minted'[x].members = minted[x].members
             /\ x = c => minted'[x].members = minted[c].members + k
  <2>1. minted[x].verified \in BOOLEAN /\ minted'[x].verified \in BOOLEAN
    BY <1>2, <1>7 DEF MintRecs, RecsWith
  <2>2. /\ checked[x].authority = minted[x].authority
        /\ checked[x].supply = minted[x].supply
        /\ checked[x].collection = minted[x].collection
        /\ checked[x].sized = minted[x].sized /\ checked[x].members = minted[x].members
        /\ checked[x].verified <=> (minted[x].verified \/ x = m)
    BY <1>3, <1>4
  <2> QED BY <2>2, <1>6, <1>7
<1>9. Backed' /\ OneOfEach'
  BY <1>1, <1>8 DEF MintsOK, Backed, OneOfEach
<1>10. MembersNamed'
  BY <1>1, <1>8 DEF MintsOK, MembersNamed
<1>11. \A d \in Mints : minted[d].sized => minted[d].members = Cardinality(VerifiedOf(d))
  BY DEF MintsOK, CollectionsCounted, VerifiedOf
<1>12. ASSUME NEW d \in Mints, minted'[d].sized
       PROVE  minted'[d].members = Cardinality(VerifiedOf(d)')
  <2>1. CASE d = c
    <3>1. VerifiedOf(d)' = VerifiedOf(d) \cup {m} /\ m \notin VerifiedOf(d)
      BY <2>1, <1>1, <1>8 DEF VerifiedOf
    <3>2. IsFiniteSet(VerifiedOf(d))
      BY MintAssumption, FS_Subset DEF VerifiedOf
    <3>3. Cardinality(VerifiedOf(d)') = Cardinality(VerifiedOf(d)) + 1
      BY <3>1, <3>2, FS_AddElement
    <3>4. k = 1 /\ minted[d].members = Cardinality(VerifiedOf(d))
      BY <2>1, <1>8, <1>11, <1>12 DEF k
    <3> QED BY <2>1, <3>3, <3>4, <1>8
  <2>2. CASE d # c
    <3>1. VerifiedOf(d)' = VerifiedOf(d)
      BY <2>2, <1>1, <1>8 DEF VerifiedOf
    <3> QED BY <2>2, <3>1, <1>8, <1>11, <1>12
  <2> QED BY <2>1, <2>2
<1>13. CollectionsCounted'
  BY <1>12 DEF CollectionsCounted, VerifiedOf
<1> QED BY <1>1, <1>7, <1>9, <1>10, <1>13 DEF MintsOK

LEMMA PrefundOK ==
  ASSUME MintsOK, NEW m \in Mints, NEW w \in Holders, Prefund(m, w)
  PROVE  MintsOK'
<1> DEFINE row == tokens[m]
           new == [row EXCEPT ![w] = Prefunded]
<1>1. row[w] = Absent /\ tokens' = [tokens EXCEPT ![m] = new] /\ UNCHANGED minted
  BY DEF Prefund, MintsOK
<1>2. row \in Rows
  BY DEF MintsOK
<1>3. new \in Rows
  BY <1>2, MintAssumption DEF Rows, Absent, Prefunded
<1>4. \A x \in Holders : Held(new[x]) = Held(row[x])
  BY <1>1, <1>2 DEF Held, Absent, Prefunded, Rows
<1> HIDE DEF new, row
<1>5. RowHeld(new) = RowHeld(row)
  BY <1>4 DEF RowHeld
<1>6. MintOK(minted[m], row)
  BY DEF MintsOK, MintOK, Backed, OneOfEach, row
<1>7. MintOK(minted[m], new)
  BY <1>3, <1>5, <1>6 DEF MintOK
<1>8. minted' = [minted EXCEPT ![m] = minted[m]]
  BY <1>1 DEF MintsOK
<1>9. MembersNamed' /\ CollectionsCounted'
  BY <1>1 DEF MintsOK, MembersNamed, CollectionsCounted
<1> QED BY <1>1, <1>7, <1>8, <1>9, OneMintChanges

-----------------------------------------------------------------------------
(* The programs' steps *)

\* Amounts asked for are numbers, scaled or not.
LEMMA AmountsAreNumbers ==
  ASSUME MintsOK, NEW n \in MintedAmounts, NEW m \in Mints
  PROVE  /\ n \in Nat /\ n * Scale[minted[m].decimals] \in Nat
         /\ n * Scale[AnchorDecimals] \in Nat
<1>1. n \in Nat
  BY MintAssumption
<1>2. minted[m].decimals \in MintDecimals \cup {AnchorDecimals}
  BY DEF MintsOK, MintRecs, RecsWith
<1>3. Scale[minted[m].decimals] \in Nat /\ Scale[AnchorDecimals] \in Nat
  BY <1>2, MintAssumption
<1>4. \A k \in Nat : n * k \in Nat
  BY <1>1
<1> QED BY <1>1, <1>3, <1>4

LEMMA MakersOK ==
  ASSUME MintsOK, NEW w \in Holders, NEW m \in TokenMints, NEW d \in MintDecimals,
         \/ CreateTokenNative(w, m, d) \/ CreateTokenAnchor(w, m, d)
         \/ CreateTokenPinocchio(w, m, d) \/ CreateNative(w, m, d)
         \/ CreateAnchor(w, m)
  PROVE  MintsOK'
<1>1. m \in Mints /\ d \in MintDecimals \cup {AnchorDecimals}
  BY DEF Mints
<1>2. ASSUME NEW b \in Holders, NEW f \in {b, None},
             NEW e \in MintDecimals \cup {AnchorDecimals},
             Make(m, Described(Initialized(b, f, e)))
      PROVE  MintsOK'
  BY <1>1, <1>2, MadeFor DEF Make
<1>3. CASE CreateTokenNative(w, m, d) \/ CreateTokenPinocchio(w, m, d)
           \/ CreateNative(w, m, d)
  BY <1>1, <1>2, <1>3 DEF CreateTokenNative, CreateTokenPinocchio, CreateNative
<1>4. CASE CreateTokenAnchor(w, m, d)
  BY <1>1, <1>2, <1>4 DEF CreateTokenAnchor
<1>5. CASE CreateAnchor(w, m)
  BY <1>2, <1>5 DEF CreateAnchor
<1> QED BY <1>3, <1>4, <1>5

LEMMA IssuersOK ==
  ASSUME MintsOK, NEW w \in Holders, NEW m \in TokenMints, NEW payer \in Holders,
         NEW to \in Holders, NEW n \in MintedAmounts,
         \/ MintSpl(w, m, payer, to, n) \/ MintTokenAnchor(w, m, to, n)
         \/ MintTokensPinocchio(w, m, to, n)
  PROVE  MintsOK'
<1>1. m \in Mints
  BY DEF Mints
<1>2. n \in Nat /\ n * Scale[minted[m].decimals] \in Nat
  BY <1>1, AmountsAreNumbers
<1>3. CASE MintSpl(w, m, payer, to, n)
  <2>1. IssueTokens(m, w, to, IfEmpty(tokens[m][to]), n)
    BY <1>3 DEF MintSpl
  <2> QED BY <1>1, <1>2, <2>1, IssueTokensOK
<1>4. CASE MintTokenAnchor(w, m, to, n)
  <2> DEFINE k == n * Scale[minted[m].decimals]
  <2>1. IssueTokens(m, w, to, IfNeeded(tokens[m][to]), k) /\ k \in Nat
    BY <1>2, <1>4 DEF MintTokenAnchor
  <2> HIDE DEF k
  <2> QED BY <1>1, <2>1, IssueTokensOK
<1>5. CASE MintTokensPinocchio(w, m, to, n)
  <2>1. IssueTokens(m, w, to, IfNeeded(tokens[m][to]), n)
    BY <1>5 DEF MintTokensPinocchio
  <2> QED BY <1>1, <1>2, <2>1, IssueTokensOK
<1> QED BY <1>3, <1>4, <1>5

LEMMA MoversOK ==
  ASSUME MintsOK, NEW w \in Holders, NEW m \in TokenMints, NEW to \in Holders,
         NEW n \in MintedAmounts,
         \/ TransferNative(w, m, to, n) \/ TransferAnchor(w, m, to, n)
         \/ TransferPinocchio(w, m, to, n)
  PROVE  MintsOK'
<1>1. m \in Mints
  BY DEF Mints
<1>2. n \in Nat /\ n * Scale[minted[m].decimals] \in Nat
  BY <1>1, AmountsAreNumbers
<1>3. CASE TransferNative(w, m, to, n)
  <2>1. Move(m, w, to, IfEmpty(tokens[m][to]), n) /\ UNCHANGED minted
    BY <1>3 DEF TransferNative
  <2> QED BY <1>1, <1>2, <2>1, MoveOK
<1>4. CASE TransferAnchor(w, m, to, n)
  <2> DEFINE k == n * Scale[minted[m].decimals]
  <2>1. Move(m, w, to, IfNeeded(tokens[m][to]), k) /\ UNCHANGED minted /\ k \in Nat
    BY <1>2, <1>4 DEF TransferAnchor
  <2> HIDE DEF k
  <2> QED BY <1>1, <2>1, MoveOK
<1>5. CASE TransferPinocchio(w, m, to, n)
  <2>1. Move(m, w, to, IfNeeded(tokens[m][to]), n) /\ UNCHANGED minted
    BY <1>5 DEF TransferPinocchio
  <2> QED BY <1>1, <1>2, <2>1, MoveOK
<1> QED BY <1>3, <1>4, <1>5

LEMMA NftMintersOK ==
  ASSUME MintsOK, NEW w \in Holders, NEW m \in TokenMints, NEW payer \in Holders,
         NEW to \in Holders,
         \/ MintNftNative(w, m, payer, to) \/ MintPdaNative(m, payer, to)
         \/ MintPdaPinocchio(m, payer)
  PROVE  MintsOK'
<1>1. m \in Mints
  BY DEF Mints
<1>2. {"native_authority", "pinocchio_authority"} \subseteq MinterPDAs
  BY DEF MinterPDAs
<1>3. CASE MintNftNative(w, m, payer, to)
  <2>1. IssueNft(m, w, to, IfEmpty(tokens[m][to]))
    BY <1>3 DEF MintNftNative
  <2> QED BY <1>1, <2>1, IssueNftOK
<1>4. CASE MintPdaNative(m, payer, to)
  <2>1. IssueNft(m, "native_authority", to, IfEmpty(tokens[m][to]))
    BY <1>4 DEF MintPdaNative
  <2> QED BY <1>1, <1>2, <2>1, IssueNftOK
<1>5. CASE MintPdaPinocchio(m, payer)
  <2>1. IssueNft(m, "pinocchio_authority", payer, IfNeeded(tokens[m][payer]))
    BY <1>5 DEF MintPdaPinocchio
  <2> QED BY <1>1, <1>2, <2>1, IssueNftOK
<1> QED BY <1>3, <1>4, <1>5

LEMMA StillOK == MintsOK /\ UNCHANGED <<minted, tokens>> => MintsOK'
BY DEF MintsOK, Backed, OneOfEach, MembersNamed, CollectionsCounted

LEMMA TokensStep == MintsOK /\ TokensNext => MintsOK'
<1> SUFFICES ASSUME MintsOK, TokensNext PROVE MintsOK'
  OBVIOUS
<1>1. CASE \E m \in TokenMints, w \in Holders : Prefund(m, w)
  BY <1>1, PrefundOK DEF Mints
<1>2. CASE \/ \E w \in Holders, m \in TokenMints, d \in MintDecimals :
                \/ CreateTokenNative(w, m, d) \/ CreateTokenAnchor(w, m, d)
                \/ CreateTokenPinocchio(w, m, d) \/ CreateNative(w, m, d)
           \/ \E w \in Holders, m \in TokenMints : CreateAnchor(w, m)
           \/ \E a \in Holders \cup MinterPDAs, m \in TokenMints, d \in MintDecimals :
                CreatePinocchio(a, m, d)
  <2>1. \A w \in Holders, m \in TokenMints, d \in MintDecimals :
          \/ CreateTokenNative(w, m, d) \/ CreateTokenAnchor(w, m, d)
          \/ CreateTokenPinocchio(w, m, d) \/ CreateNative(w, m, d)
          \/ CreateAnchor(w, m)
          => MintsOK'
    BY MakersOK
  <2>2. \A a \in Holders \cup MinterPDAs, m \in TokenMints, d \in MintDecimals :
          CreatePinocchio(a, m, d) => MintsOK'
    <3> SUFFICES ASSUME NEW a \in Holders \cup MinterPDAs, NEW m \in TokenMints,
                        NEW d \in MintDecimals, CreatePinocchio(a, m, d)
                 PROVE  MintsOK'
      OBVIOUS
    <3>1. m \in Mints /\ d \in MintDecimals \cup {AnchorDecimals}
      BY DEF Mints
    <3> QED BY <3>1, MadeFor DEF CreatePinocchio, Make
  <2>3. 0 \in MintDecimals
    BY MintAssumption
  <2> QED BY <1>2, <2>1, <2>2, <2>3
<1>3. CASE \E w, payer, to \in Holders, m \in TokenMints : MintNftNative(w, m, payer, to)
  BY <1>3, NftMintersOK
<1>4. CASE \E w, to \in Holders, m \in TokenMints, n \in MintedAmounts :
             \/ \E payer \in Holders : MintSpl(w, m, payer, to, n)
             \/ MintTokenAnchor(w, m, to, n) \/ MintTokensPinocchio(w, m, to, n)
             \/ TransferNative(w, m, to, n) \/ TransferAnchor(w, m, to, n)
             \/ TransferPinocchio(w, m, to, n)
  BY <1>4, IssuersOK, MoversOK
<1>5. CASE InitNative \/ InitPinocchio
  BY <1>5, StillOK DEF InitNative, InitPinocchio
<1>6. CASE \E m \in TokenMints : CreatePdaNative(m) \/ CreatePdaPinocchio(m)
  <2>1. \A m \in Mints, b \in MinterPDAs : Make(m, Described(Initialized(b, b, 0))) => MintsOK'
    BY MintAssumption, MadeFor DEF Make
  <2> QED BY <1>6, <2>1 DEF CreatePdaNative, CreatePdaPinocchio, MinterPDAs, Mints
<1>7. CASE \E m \in TokenMints, payer, to \in Holders : MintPdaNative(m, payer, to)
  BY <1>7, NftMintersOK
<1>8. CASE \E m \in TokenMints, payer \in Holders : MintPdaPinocchio(m, payer)
  BY <1>8, NftMintersOK
<1>9. CASE \E w \in Holders : CreateTokenPda(w)
  <2>1. PdaMint \in Mints /\ AnchorDecimals \in MintDecimals \cup {AnchorDecimals}
    BY DEF Mints
  <2> DEFINE r == Described(Initialized("mint", "mint", AnchorDecimals))
  <2>2. minted[PdaMint] = Unmade /\ minted' = [minted EXCEPT ![PdaMint] = r] /\ UNCHANGED tokens
    BY <1>9 DEF CreateTokenPda
  <2>3. /\ "mint" \in Holders \cup MinterPDAs \cup {"mint"} /\ "mint" \in {"mint", None}
        /\ r = Described(Initialized("mint", "mint", AnchorDecimals))
    OBVIOUS
  <2> HIDE DEF r
  <2> QED BY <2>1, <2>2, <2>3, MadeFor
<1>10. CASE \E w \in Holders, n \in MintedAmounts : MintTokenPda(w, n)
  <2>1. PICK w \in Holders, n \in MintedAmounts : MintTokenPda(w, n)
    BY <1>10
  <2> DEFINE k == n * Scale[AnchorDecimals]
  <2>2. PdaMint \in Mints
    BY DEF Mints
  <2>3. k \in Nat /\ IssueTokens(PdaMint, "mint", w, IfNeeded(tokens[PdaMint][w]), k)
    BY <2>1, <2>2, AmountsAreNumbers DEF MintTokenPda
  <2> HIDE DEF k
  <2> QED BY <2>2, <2>3, IssueTokensOK
<1> QED BY <1>1, <1>2, <1>3, <1>4, <1>5, <1>6, <1>7, <1>8, <1>9, <1>10 DEF TokensNext

LEMMA CollectionsStep == MintsOK /\ CollectionsNext => MintsOK'
<1> SUFFICES ASSUME MintsOK, CollectionsNext PROVE MintsOK'
  OBVIOUS
<1>0. /\ {"anchor_nft_authority", "pinocchio_nft_authority"} \subseteq CollectionPDAs
      /\ CollectionMints \subseteq Mints
  BY DEF CollectionPDAs, Mints
<1>1. CASE \E w \in Holders, m \in CollectionMints :
             CreateCollectionAnchor(w, m) \/ CreateCollectionPinocchio(w, m)
  <2>1. ASSUME NEW w \in Holders, NEW m \in Mints, NEW pda \in CollectionPDAs,
               NewNft(w, m, CollectionOf(pda))
        PROVE  MintsOK'
    BY <2>1, NewNftOK
  <2> QED BY <1>0, <1>1, <2>1 DEF CreateCollectionAnchor, CreateCollectionPinocchio
<1>2. CASE \E w \in Holders, m, c \in CollectionMints :
             MintNftAnchor(w, m, c) \/ MintNftPinocchio(w, m, c)
  <2>1. ASSUME NEW w \in Holders, NEW m \in Mints, NEW c \in Mints,
               NEW pda \in CollectionPDAs, NewNft(w, m, MemberOf(pda, c))
        PROVE  MintsOK'
    BY <2>1, NewNftOK
  <2> QED BY <1>0, <1>2, <2>1 DEF MintNftAnchor, MintNftPinocchio
<1>3. CASE \E m, c \in CollectionMints :
             VerifyCollectionAnchor(m, c) \/ VerifyCollectionPinocchio(m, c)
  BY <1>0, <1>3, VerifyOK DEF VerifyCollectionAnchor, VerifyCollectionPinocchio
<1> QED BY <1>1, <1>2, <1>3 DEF CollectionsNext

LEMMA MintsStart == MintInit => MintsOK
<1> SUFFICES ASSUME MintInit PROVE MintsOK
  OBVIOUS
<1>1. \A m \in Mints : minted[m] = Unmade /\ tokens[m] = [w \in Holders |-> Absent]
  BY DEF MintInit
<1>2. [w \in Holders |-> Absent] \in Rows
  BY MintAssumption DEF Rows, Absent
<1>3. minted \in [Mints -> MintRecs] /\ tokens \in [Mints -> Rows]
  BY <1>2, UnmadeFields DEF MintInit
<1>4. Backed
  BY <1>1, UnmadeFields, RowStart DEF Backed
<1>5. OneOfEach /\ MembersNamed /\ CollectionsCounted
  BY <1>1, UnmadeFields, NamesApart DEF OneOfEach, MembersNamed, CollectionsCounted
<1> QED BY <1>3, <1>4, <1>5 DEF MintsOK

\* The Anchor minter keeps one administrator at most.
LEMMA MinterKept == MinterOK /\ (TokensNext \/ CollectionsNext \/ UNCHANGED minter) => MinterOK'
<1> SUFFICES ASSUME MinterOK, TokensNext \/ CollectionsNext \/ UNCHANGED minter
             PROVE  MinterOK'
  OBVIOUS
<1>1. \/ UNCHANGED minter
      \/ minter' = [minter EXCEPT !.native = TRUE]
      \/ minter' = [minter EXCEPT !.pinocchio = TRUE]
      \/ \E w \in Holders : minter' = [minter EXCEPT !.admin = w]
  <2>1. CASE TokensNext
    <3>1. \A m, r : Make(m, r) => UNCHANGED minter
      BY DEF Make
    <3>2. \A m, w, d :
            \/ CreateTokenNative(w, m, d) \/ CreateTokenAnchor(w, m, d)
            \/ CreateTokenPinocchio(w, m, d) \/ CreateNative(w, m, d)
            \/ CreateAnchor(w, m) \/ CreatePinocchio(w, m, d)
            \/ CreatePdaNative(m) \/ CreatePdaPinocchio(m)
            => UNCHANGED minter
      BY <3>1 DEF CreateTokenNative, CreateTokenAnchor, CreateTokenPinocchio, CreateNative,
                  CreateAnchor, CreatePinocchio, CreatePdaNative, CreatePdaPinocchio
    <3>3. \A m, s, to, h, n : IssueTokens(m, s, to, h, n) \/ IssueNft(m, s, to, h)
            => UNCHANGED minter
      BY DEF IssueTokens, IssueNft
    <3>4. \A w, m, payer, to, n :
            \/ MintNftNative(w, m, payer, to) \/ MintSpl(w, m, payer, to, n)
            \/ MintTokenAnchor(w, m, to, n) \/ MintTokensPinocchio(w, m, to, n)
            \/ MintPdaNative(m, payer, to) \/ MintPdaPinocchio(m, payer)
            \/ MintTokenPda(w, n)
            => UNCHANGED minter
      BY <3>3 DEF MintNftNative, MintSpl, MintTokenAnchor, MintTokensPinocchio,
                  MintPdaNative, MintPdaPinocchio, MintTokenPda
    <3>5. \A w, m, to, n :
            \/ Prefund(m, w) \/ TransferNative(w, m, to, n)
            \/ TransferAnchor(w, m, to, n) \/ TransferPinocchio(w, m, to, n)
            => UNCHANGED minter
      BY DEF Prefund, TransferNative, TransferAnchor, TransferPinocchio
    <3>6. /\ InitNative => minter' = [minter EXCEPT !.native = TRUE]
          /\ InitPinocchio => minter' = [minter EXCEPT !.pinocchio = TRUE]
          /\ \A w : CreateTokenPda(w) => minter' = [minter EXCEPT !.admin = w]
      BY DEF InitNative, InitPinocchio, CreateTokenPda
    <3> QED BY <2>1, <3>2, <3>4, <3>5, <3>6 DEF TokensNext
  <2>2. CASE CollectionsNext
    BY <2>2
       DEF CollectionsNext, CreateCollectionAnchor, CreateCollectionPinocchio, NewNft,
           MintNftAnchor, MintNftPinocchio, VerifyCollectionAnchor,
           VerifyCollectionPinocchio, Verify
  <2> QED BY <2>1, <2>2
<1> QED BY <1>1 DEF MinterOK

LEMMA MintsKept == MintsOK /\ MinterOK /\ [Next]_nftVars => (MintsOK /\ MinterOK)'
<1> SUFFICES ASSUME MintsOK, MinterOK, [Next]_nftVars PROVE MintsOK' /\ MinterOK'
  OBVIOUS
<1>1. TokensNext \/ CollectionsNext \/ UNCHANGED mintVars
  BY DEF Next, nftVars
<1>2. CASE TokensNext
  BY <1>2, TokensStep, MinterKept
<1>3. CASE CollectionsNext
  BY <1>3, CollectionsStep, MinterKept
<1>4. CASE UNCHANGED mintVars
  BY <1>4, StillOK, MinterKept DEF mintVars
<1> QED BY <1>1, <1>2, <1>3, <1>4

LEMMA MintsAlwaysOK == Spec => [](MintsOK /\ MinterOK)
<1>1. Init => MintsOK /\ MinterOK
  BY MintsStart DEF Init, MintInit, MinterOK
<1> QED BY <1>1, MintsKept, PTL DEF Spec

LEMMA MintsTyped == MintsOK /\ MinterOK => MintTypeOK
<1> SUFFICES ASSUME MintsOK, MinterOK PROVE MintTypeOK
  OBVIOUS
<1>1. ASSUME NEW m \in Mints
      PROVE  /\ minted[m].authority \in Holders \cup MinterPDAs \cup {"unmade", "mint", Edition}
             /\ minted[m].supply \in 0 .. U64_MAX /\ minted[m].members \in Nat
             /\ minted[m].supply = SumFunction([w \in Holders |-> Held(tokens[m][w])])
  <2>1. minted[m] \in RecsWith(Settled) /\ minted[m].supply = RowHeld(tokens[m])
    BY DEF MintsOK, Backed, MintRecs
  <2>2. /\ minted[m].authority \in Settled /\ minted[m].supply \in 0 .. U64_MAX
        /\ minted[m].members \in Nat
    BY <2>1 DEF RecsWith
  <2> QED BY <2>1, <2>2 DEF RowHeld, Settled
<1> QED BY <1>1 DEF MintTypeOK, MintsOK, MinterOK, Rows

\* An NFT stays single although a program's PDA signs for everybody: while a PDA is a
\* mint's authority there is no token of it, once there is an edition exactly one
\* (nft-minter, nft-operations), for any mints, wallets and order of calls.
THEOREM AlwaysOneOfEach == Spec => []OneOfEach
<1>1. MintsOK => OneOfEach
  BY DEF MintsOK
<1> QED BY <1>1, MintsAlwaysOK, PTL

-----------------------------------------------------------------------------
(* The game: arithmetic of energy *)

LEMMA MinOfTwo ==
  ASSUME NEW a \in Int, NEW b \in Int
  PROVE  Min({a, b}) = IF a <= b THEN a ELSE b
<1> DEFINE least == IF a <= b THEN a ELSE b
           P(x) == x \in {a, b} /\ \A y \in {a, b} : x <= y
<1>1. least \in {a, b} /\ \A y \in {a, b} : least <= y
  OBVIOUS
<1>2. \A x \in {a, b} : (\A y \in {a, b} : x <= y) => x = least
  OBVIOUS
<1> HIDE DEF least
<1>3. Min({a, b}) = CHOOSE x \in {a, b} : \A y \in {a, b} : x <= y
  BY DEF Min
<1>4. (CHOOSE x \in {a, b} : \A y \in {a, b} : x <= y) = least
  BY <1>1, <1>2
<1> QED BY <1>3, <1>4 DEF least

\* The whole periods in a span of seconds.
LEMMA Periods ==
  ASSUME NEW s \in Nat, NEW t \in Nat \ {0}
  PROVE  /\ s \div t \in Nat /\ t * (s \div t) <= s
         /\ s < t * (s \div t) + t
OBVIOUS

LEMMA Multiples ==
  ASSUME NEW t \in Nat \ {0}, NEW a \in Int, NEW b \in Int
  PROVE  /\ t * a \in Int
         /\ a <= b => t * a <= t * b
         /\ a >= 0 => t * a >= 0
         /\ t * (a + b) = t * a + t * b
         /\ t * (a - 1) = t * a - t
         /\ t * (a + 1) = t * a + t
OBVIOUS

\* Whole multiples leave nothing.
LEMMA MultipleMod ==
  ASSUME NEW k \in Int, NEW t \in Nat \ {0}
  PROVE  (k * t) % t = 0
<1> DEFINE a == k * t
           q == a \div t
           r == a % t
           e == k - q
<1>1. a \in Int
  OBVIOUS
<1>2. q \in Int /\ r \in Int /\ 0 <= r /\ r < t /\ a = t * q + r
  <2> HIDE DEF a
  <2> QED BY <1>1
<1>3. e \in Int /\ r = t * e
  <2>1. t * (k - q) = t * k - t * q
    <3> HIDE DEF q, r
    <3> QED BY <1>2
  <2>2. a = t * k
    OBVIOUS
  <2> HIDE DEF a, q, r
  <2> QED BY <1>1, <1>2, <2>1, <2>2
<1> HIDE DEF a, q, r, e
<1>4. e >= 1 => t * e >= t
  BY <1>3
<1>5. e <= -1 => t * e <= -t
  BY <1>3
<1>6. e = 0
  BY <1>2, <1>3, <1>4, <1>5
<1>7. r = 0
  BY <1>3, <1>6
<1> QED BY <1>7 DEF a, r

-----------------------------------------------------------------------------
(* The game's invariant: time does not run back, wood comes in whole trees *)

PlayerRecs == [joined: BOOLEAN, energy: 0 .. MAX_ENERGY, wood: 0 .. MaxWood,
               last_login: 0 .. MaxTime]

Wood == SumFunction([p \in Players |-> player[p].wood])
Standing == SumFunction(game_data)

\* The players' wood and what was taken from the trees that stand differ by whole trees.
WholeTrees == \E k \in Int : Wood - Standing = k * (MAX_WOOD_PER_TREE + 1)

GameOK ==
  /\ GameTypeOK
  /\ \A p \in Players : /\ player[p].last_login <= clock
                        /\ ~player[p].joined => player[p].wood = 0
  /\ WholeTrees

LEMMA GameNumbers ==
  ASSUME GameTypeOK, NEW p \in Players
  PROVE  /\ player[p].energy \in Nat /\ player[p].energy <= MAX_ENERGY
         /\ player[p].wood \in Nat /\ player[p].wood <= MaxWood
         /\ player[p].last_login \in Nat /\ player[p].joined \in BOOLEAN
         /\ clock \in Nat /\ clock <= MaxTime /\ 1 <= clock
<1>1. player[p] \in PlayerRecs /\ clock \in 1 .. MaxTime
  BY DEF GameTypeOK, PlayerRecs
<1>2. /\ player[p].energy \in 0 .. MAX_ENERGY /\ player[p].wood \in 0 .. MaxWood
      /\ player[p].last_login \in 0 .. MaxTime /\ player[p].joined \in BOOLEAN
  BY <1>1 DEF PlayerRecs
<1> QED BY <1>1, <1>2, GameAssumption

\* update_energy: what a player gets when their energy is worked out.
LEMMA Refilling ==
  ASSUME GameTypeOK, NEW p \in Players, player[p].last_login <= clock
  PROVE  LET k == Refilled(p)
             since == clock - player[p].last_login
         IN /\ since \in Nat /\ k \in Nat
            /\ player[p].energy + k <= MAX_ENERGY
            /\ TIME_TO_REFILL_ENERGY * k <= since
            /\ player[p].energy + k < MAX_ENERGY =>
                 since < TIME_TO_REFILL_ENERGY * k + TIME_TO_REFILL_ENERGY
            /\ Stamp(p, k) \in 0 .. MaxTime /\ Stamp(p, k) <= clock
            /\ player[p].energy + k = MAX_ENERGY => Stamp(p, k) = clock
            /\ player[p].energy + k < MAX_ENERGY =>
                 Stamp(p, k) = player[p].last_login + TIME_TO_REFILL_ENERGY * k
<1> DEFINE k == Refilled(p)
           since == clock - player[p].last_login
           T == TIME_TO_REFILL_ENERGY
           q == since \div T
           room == MAX_ENERGY - player[p].energy
           E == player[p].energy
           L == player[p].last_login
<1>1. /\ E \in Nat /\ E <= MAX_ENERGY /\ L \in Nat /\ clock \in Nat /\ clock <= MaxTime
      /\ T \in Nat \ {0} /\ MAX_ENERGY \in Nat /\ MaxTime \in Nat
  BY GameNumbers, GameAssumption
<1>2. since \in Nat /\ room \in Nat /\ since = clock - L
  BY <1>1
<1>3. q \in Nat /\ T * q <= since /\ since < T * q + T
  <2> HIDE DEF since, T
  <2> QED BY <1>1, <1>2, Periods
<1>4. k = IF q <= room THEN q ELSE room
  <2>1. k = Min({q, room})
    BY DEF Refilled
  <2> HIDE DEF q, room, k
  <2> QED BY <1>2, <1>3, <2>1, MinOfTwo
<1>5. k \in Nat /\ k <= q /\ k <= room
  <2> HIDE DEF k, q, room
  <2> QED BY <1>2, <1>3, <1>4
<1>6. E + k <= MAX_ENERGY /\ (E + k < MAX_ENERGY => k = q)
  <2>1. room = MAX_ENERGY - E
    OBVIOUS
  <2> HIDE DEF k, q, room, E
  <2> QED BY <1>1, <1>2, <1>3, <1>4, <1>5, <2>1
<1>7. T * k \in Int /\ T * k <= T * q
  <2> HIDE DEF k, q, T
  <2> QED BY <1>1, <1>3, <1>5, Multiples
<1>8. T * k <= since /\ (E + k < MAX_ENERGY => since < T * k + T)
  <2> HIDE DEF k, q, since, T, E
  <2>1. T * q \in Int
    BY <1>1, <1>3, Multiples
  <2> QED BY <1>1, <1>2, <1>3, <1>6, <1>7, <2>1
<1>9. Stamp(p, k) = IF E + k >= MAX_ENERGY THEN clock ELSE L + T * k
  <2>1. k * TIME_TO_REFILL_ENERGY = T * k
    <3> HIDE DEF k
    <3> QED BY <1>1, <1>5
  <2> HIDE DEF k
  <2> QED BY <2>1 DEF Stamp
<1>10. T * k >= 0
  <2> HIDE DEF k, T
  <2> QED BY <1>1, <1>5, Multiples
<1>11. /\ Stamp(p, k) \in 0 .. MaxTime /\ Stamp(p, k) <= clock
       /\ E + k = MAX_ENERGY => Stamp(p, k) = clock
       /\ E + k < MAX_ENERGY => Stamp(p, k) = L + T * k
  <2> HIDE DEF k, T, E, L, since
  <2> QED BY <1>1, <1>2, <1>5, <1>6, <1>7, <1>8, <1>9, <1>10
<1> HIDE DEF k
<1>12. /\ since \in Nat /\ k \in Nat /\ player[p].energy + k <= MAX_ENERGY
       /\ TIME_TO_REFILL_ENERGY * k <= since
       /\ player[p].energy + k < MAX_ENERGY =>
            since < TIME_TO_REFILL_ENERGY * k + TIME_TO_REFILL_ENERGY
  BY <1>2, <1>5, <1>6, <1>8
<1> QED BY <1>11, <1>12 DEF k

\* The effect of one piece of wood: one more for the player, one off the level's tree.
LEMMA ChopEffect ==
  ASSUME GameOK, NEW s, NEW p \in Players, NEW l \in Levels, NEW m \in GameMints,
         ChopTree(s, p, l, m)
  PROVE  LET k == Refilled(p) IN
         /\ player[p].joined
         /\ player[p].energy + k >= 1
         /\ player'[p] = [joined |-> TRUE, energy |-> (player[p].energy + k) - 1,
                          wood |-> player[p].wood + 1, last_login |-> Stamp(p, k)]
         /\ \A x \in Players \ {p} : player'[x] = player[x]
         /\ UNCHANGED clock
         /\ GameTypeOK'
<1> DEFINE k == Refilled(p)
           r == [joined |-> TRUE, energy |-> (player[p].energy + k) - 1,
                 wood |-> player[p].wood + 1, last_login |-> Stamp(p, k)]
           wood == player[p].wood + 1
<1>1. /\ player[p].joined /\ player[p].energy + k >= 1 /\ wood <= MaxWood
      /\ player' = [player EXCEPT ![p] = r]
      /\ game_data' = [game_data EXCEPT ![l] = Chopped(@)]
      /\ nft' = [nft EXCEPT ![m].wood = wood]
      /\ UNCHANGED <<session, clock>>
  BY DEF ChopTree
<1>2. /\ player[p].last_login <= clock /\ GameTypeOK
      /\ player \in [Players -> PlayerRecs]
  BY DEF GameOK, GameTypeOK, PlayerRecs
<1>3. /\ k \in Nat /\ player[p].energy + k <= MAX_ENERGY
      /\ Stamp(p, k) \in 0 .. MaxTime
  BY <1>2, Refilling
<1>4. /\ player[p].energy \in Nat /\ player[p].wood \in Nat
      /\ MAX_ENERGY \in Nat /\ MaxWood \in Nat
  BY <1>2, GameNumbers, GameAssumption
<1>5. wood \in 0 .. MaxWood
  BY <1>1, <1>4
<1>6. (player[p].energy + k) - 1 \in 0 .. MAX_ENERGY
  <2> HIDE DEF k
  <2> QED BY <1>1, <1>3, <1>4
<1>7. r \in PlayerRecs
  BY <1>3, <1>5, <1>6 DEF PlayerRecs
<1>8. r = [joined |-> TRUE, energy |-> (player[p].energy + k) - 1,
           wood |-> player[p].wood + 1, last_login |-> Stamp(p, k)]
  OBVIOUS
<1> HIDE DEF k, r
<1>9. player' \in [Players -> PlayerRecs] /\ player'[p] = r
      /\ \A x \in Players \ {p} : player'[x] = player[x]
  BY <1>1, <1>2, <1>7
<1>10. game_data' \in [Levels -> 0 .. MAX_WOOD_PER_TREE]
  <2>1. game_data \in [Levels -> 0 .. MAX_WOOD_PER_TREE]
    BY <1>2 DEF GameTypeOK
  <2>2. Chopped(game_data[l]) \in 0 .. MAX_WOOD_PER_TREE
    BY <2>1, GameAssumption DEF Chopped
  <2> QED BY <1>1, <2>1, <2>2
<1> HIDE DEF wood
<1>11. nft' \in [GameMints -> [supply: 0 .. 1, wood: 0 .. MaxWood]]
  <2>1. nft \in [GameMints -> [supply: 0 .. 1, wood: 0 .. MaxWood]]
    BY <1>2 DEF GameTypeOK
  <2> QED BY <1>1, <1>5, <2>1
<1>12. GameTypeOK'
  BY <1>1, <1>2, <1>9, <1>10, <1>11 DEF GameTypeOK, PlayerRecs
<1> QED BY <1>1, <1>8, <1>9, <1>12 DEF k

\* A chop adds one to the players' wood, and one to what was taken from the standing
\* trees or, for a tree that is replaced, takes all of it away.
LEMMA ChopKeepsWhole ==
  ASSUME GameOK, NEW s, NEW p \in Players, NEW l \in Levels, NEW m \in GameMints,
         ChopTree(s, p, l, m)
  PROVE  WholeTrees'
<1> DEFINE f == [x \in Players |-> player[x].wood]
           g == [x \in Players |-> player'[x].wood]
           M == MAX_WOOD_PER_TREE
<1>1. /\ player'[p].wood = player[p].wood + 1
      /\ \A x \in Players \ {p} : player'[x] = player[x]
      /\ GameTypeOK /\ GameTypeOK'
  <2>1. /\ player'[p] = [joined |-> TRUE, energy |-> (player[p].energy + Refilled(p)) - 1,
                         wood |-> player[p].wood + 1,
                         last_login |-> Stamp(p, Refilled(p))]
        /\ \A x \in Players \ {p} : player'[x] = player[x] /\ GameTypeOK'
        /\ GameTypeOK'
    BY ChopEffect
  <2> QED BY <2>1 DEF GameOK
<1>2. game_data' = [game_data EXCEPT ![l] = Chopped(@)]
  BY DEF ChopTree
<1>3. IsFiniteSet(Players) /\ IsFiniteSet(Levels) /\ M \in Nat
  BY GameAssumption
<1>4. \A x \in Players : player[x].wood \in Int /\ player'[x].wood \in Int
  <2>1. \A x \in Players : player[x] \in PlayerRecs /\ player'[x] \in PlayerRecs
    BY <1>1 DEF GameTypeOK, PlayerRecs
  <2> QED BY <2>1, GameAssumption DEF PlayerRecs
<1>5. Wood' = Wood + 1 /\ Wood \in Int
  <2>1. f \in [Players -> Int] /\ g \in [Players -> Int]
    BY <1>4
  <2>2. g[p] = f[p] + 1 /\ \A x \in Players \ {p} : g[x] = f[x]
    BY <1>1
  <2>3. Wood = SumFunction(f) /\ Wood' = SumFunction(g)
    BY DEF Wood
  <2> HIDE DEF f, g
  <2>4. SumFunction(g) = SumFunction(f) + 1 /\ SumFunction(f) \in Int
    BY <1>3, <2>1, <2>2, SumMoves
  <2> QED BY <2>3, <2>4
<1>6. game_data \in [Levels -> 0 .. M] /\ game_data[l] \in 0 .. M
  BY <1>1 DEF GameTypeOK
<1>7. \E d \in {1, -M} : Standing' = Standing + d /\ Standing \in Int
  <2> DEFINE d == Chopped(game_data[l]) - game_data[l]
  <2>1. d \in {1, -M} /\ d \in Int /\ Chopped(game_data[l]) \in Int
    <3>1. game_data[l] >= M => game_data[l] = M
      BY <1>3, <1>6
    <3> QED BY <1>3, <1>6, <3>1 DEF Chopped
  <2>2. game_data \in [Levels -> Int] /\ game_data' \in [Levels -> Int]
    BY <1>2, <1>3, <1>6, <2>1
  <2>3. /\ game_data'[l] = Chopped(game_data[l])
        /\ \A x \in Levels \ {l} : game_data'[x] = game_data[x]
    BY <1>2, <2>2
  <2>4. game_data'[l] = game_data[l] + d
    BY <2>2, <2>3, <2>1
  <2> DEFINE h == game_data
             i == game_data'
  <2>5. /\ h \in [Levels -> Int] /\ i \in [Levels -> Int] /\ i[l] = h[l] + d
        /\ \A x \in Levels \ {l} : i[x] = h[x]
    BY <2>2, <2>3, <2>4
  <2>6. Standing = SumFunction(h) /\ Standing' = SumFunction(i)
    BY DEF Standing
  <2> HIDE DEF d, h, i
  <2>7. SumFunction(i) = SumFunction(h) + d /\ SumFunction(h) \in Int
    BY <1>3, <2>1, <2>5, SumMoves
  <2> QED BY <2>1, <2>6, <2>7
<1>8. PICK k \in Int : Wood - Standing = k * (M + 1)
  BY DEF GameOK, WholeTrees
<1>9. PICK d \in {1, -M} : Standing' = Standing + d /\ Standing \in Int
  BY <1>7
<1> DEFINE whole == k * (M + 1)
<1>10. /\ whole \in Int /\ (k + 1) * (M + 1) = whole + (M + 1)
  BY <1>3
<1>11. Wood - Standing = whole
  BY <1>8
<1> HIDE DEF whole, M
<1>12. CASE d = 1
  <2>1. Wood' - Standing' = whole
    BY <1>5, <1>9, <1>10, <1>11, <1>12
  <2> QED BY <2>1 DEF WholeTrees, whole, M
<1>13. CASE d = -M
  <2>1. Wood' - Standing' = whole + (M + 1)
    BY <1>3, <1>5, <1>9, <1>10, <1>11, <1>13
  <2>2. k + 1 \in Int /\ Wood' - Standing' = (k + 1) * (M + 1)
    BY <1>10, <2>1
  <2> QED BY <2>2 DEF WholeTrees, M
<1> QED BY <1>9, <1>12, <1>13

LEMMA GameStep == GameOK /\ GameNext => GameOK'
<1> SUFFICES ASSUME GameOK, GameNext PROVE GameOK'
  OBVIOUS
<1>0. /\ GameTypeOK /\ WholeTrees /\ player \in [Players -> PlayerRecs]
      /\ \A p \in Players : /\ player[p].last_login <= clock
                            /\ ~player[p].joined => player[p].wood = 0
  BY DEF GameOK, GameTypeOK, PlayerRecs
<1>1. ASSUME NEW p \in Players, InitPlayer(p) PROVE GameOK'
  <2> DEFINE r == [joined |-> TRUE, energy |-> MAX_ENERGY, wood |-> 0,
                   last_login |-> clock]
  <2>1. /\ ~player[p].joined /\ player' = [player EXCEPT ![p] = r]
        /\ UNCHANGED <<game_data, nft, session, clock>>
    BY <1>1 DEF InitPlayer
  <2>2. r \in PlayerRecs
    BY <1>0, GameAssumption DEF GameTypeOK, PlayerRecs
  <2>3. r.joined = TRUE /\ r.wood = 0 /\ r.last_login = clock
    OBVIOUS
  <2> HIDE DEF r
  <2>4. /\ player' \in [Players -> PlayerRecs] /\ player'[p] = r
        /\ \A x \in Players \ {p} : player'[x] = player[x]
    BY <1>0, <2>1, <2>2
  <2>5. GameTypeOK'
    BY <1>0, <2>1, <2>4 DEF GameTypeOK, PlayerRecs
  <2>6. clock \in Int /\ clock <= clock
    BY <1>0 DEF GameTypeOK
  <2>7. \A x \in Players : /\ player'[x].last_login <= clock'
                           /\ ~player'[x].joined => player'[x].wood = 0
                           /\ player'[x].wood = player[x].wood
    BY <1>0, <2>1, <2>3, <2>4, <2>6
  <2>8. Wood' = Wood /\ Standing' = Standing
    BY <2>1, <2>7 DEF Wood, Standing
  <2>9. WholeTrees'
    BY <1>0, <2>8 DEF WholeTrees
  <2> QED BY <2>5, <2>7, <2>9 DEF GameOK
<1>2. ASSUME NEW s, NEW p \in Players, NEW l \in Levels, NEW m \in GameMints,
             ChopTree(s, p, l, m)
      PROVE  GameOK'
  <2> DEFINE k == Refilled(p)
             r == [joined |-> TRUE, energy |-> (player[p].energy + k) - 1,
                   wood |-> player[p].wood + 1, last_login |-> Stamp(p, k)]
  <2>1. /\ player'[p] = r /\ \A x \in Players \ {p} : player'[x] = player[x]
        /\ UNCHANGED clock /\ GameTypeOK'
    BY <1>2, ChopEffect
  <2>2. r.joined = TRUE /\ r.last_login = Stamp(p, k)
    OBVIOUS
  <2>3. Stamp(p, k) <= clock
    BY <1>0, Refilling
  <2> HIDE DEF r, k
  <2>4. \A x \in Players : /\ player'[x].last_login <= clock'
                           /\ ~player'[x].joined => player'[x].wood = 0
    BY <1>0, <2>1, <2>2, <2>3
  <2>5. WholeTrees'
    BY <1>2, ChopKeepsWhole
  <2> QED BY <2>1, <2>4, <2>5 DEF GameOK
<1>3. ASSUME UNCHANGED <<player, game_data, clock>>, GameTypeOK' PROVE GameOK'
  <2>1. Wood' = Wood /\ Standing' = Standing
    BY <1>3 DEF Wood, Standing
  <2> QED BY <1>0, <1>3, <2>1 DEF GameOK, WholeTrees
<1>4. ASSUME NEW m \in GameMints, MintNft(m) PROVE GameOK'
  <2>1. /\ nft' = [nft EXCEPT ![m] = [supply |-> 1, wood |-> 0]]
        /\ UNCHANGED <<player, game_data, session, clock>>
    BY <1>4 DEF MintNft
  <2>2. [supply |-> 1, wood |-> 0] \in [supply: 0 .. 1, wood: 0 .. MaxWood]
    BY GameAssumption
  <2>3. GameTypeOK'
    BY <1>0, <2>1, <2>2 DEF GameTypeOK
  <2> QED BY <1>3, <2>1, <2>3
<1>5. ASSUME NEW p \in Players, NEW key \in SessionKeys, NEW t \in 0 .. MaxTime,
             session' = [session EXCEPT ![p][key] = t],
             UNCHANGED <<player, game_data, nft, clock>>
      PROVE  GameOK'
  <2>1. GameTypeOK'
    BY <1>0, <1>5 DEF GameTypeOK
  <2> QED BY <1>3, <1>5, <2>1
<1>6. ASSUME NEW p \in Players, NEW key \in SessionKeys, NEW t \in 1 .. MaxTime,
             OpenSession(p, key, t)
      PROVE  GameOK'
  <2>1. /\ session' = [session EXCEPT ![p][key] = t]
        /\ UNCHANGED <<player, game_data, nft, clock>>
    BY <1>6 DEF OpenSession
  <2>2. t \in 0 .. MaxTime
    OBVIOUS
  <2> QED BY <1>5, <2>1, <2>2
<1>7. ASSUME NEW p \in Players, NEW key \in SessionKeys, RevokeSession(p, key)
      PROVE  GameOK'
  <2>1. /\ session' = [session EXCEPT ![p][key] = 0]
        /\ UNCHANGED <<player, game_data, nft, clock>>
    BY <1>7 DEF RevokeSession, NoSession
  <2>2. 0 \in 0 .. MaxTime
    BY GameAssumption
  <2> QED BY <1>5, <2>1, <2>2
<1>8. ASSUME PassTime PROVE GameOK'
  <2>1. /\ clock < MaxTime /\ clock' = clock + 1
        /\ UNCHANGED <<player, game_data, nft, session>>
    BY <1>8 DEF PassTime
  <2>2. clock \in Nat /\ clock' \in 1 .. MaxTime
    BY <1>0, <2>1, GameAssumption DEF GameTypeOK
  <2>3. GameTypeOK'
    BY <1>0, <2>1, <2>2 DEF GameTypeOK
  <2>4. \A p \in Players : player[p].last_login \in Nat
    BY <1>0, GameNumbers
  <2>5. \A p \in Players : player'[p].last_login <= clock'
    BY <1>0, <2>1, <2>2, <2>4
  <2>6. Wood' = Wood /\ Standing' = Standing
    BY <2>1 DEF Wood, Standing
  <2> QED BY <1>0, <2>1, <2>3, <2>5, <2>6 DEF GameOK, WholeTrees
<1> QED BY <1>1, <1>2, <1>4, <1>6, <1>7, <1>8 DEF GameNext

LEMMA GameStart == GameInit => GameOK
<1> SUFFICES ASSUME GameInit PROVE GameOK
  OBVIOUS
<1>1. GameTypeOK
  <2>1. [joined |-> FALSE, energy |-> 0, wood |-> 0, last_login |-> 0] \in PlayerRecs
    BY GameAssumption DEF PlayerRecs
  <2>2. NoNFT \in [supply: 0 .. 1, wood: 0 .. MaxWood]
    BY GameAssumption DEF NoNFT
  <2>3. NoSession \in 0 .. MaxTime /\ clock \in 1 .. MaxTime
    BY GameAssumption DEF GameInit, NoSession
  <2> QED BY <2>1, <2>2, <2>3, GameAssumption DEF GameInit, GameTypeOK, PlayerRecs
<1>2. \A p \in Players : player[p].last_login = 0 /\ player[p].wood = 0 /\ clock = 1
  BY DEF GameInit
<1>3. Wood = 0
  <2> DEFINE f == [p \in Players |-> player[p].wood]
  <2>1. f = [p \in Players |-> 0]
    BY <1>2
  <2>2. IsFiniteSet(Players)
    BY GameAssumption
  <2> HIDE DEF f
  <2>3. SumFunction(f) = 0
    BY <2>1, <2>2, SumOfZeros
  <2> QED BY <2>3 DEF Wood, f
<1>4. Standing = 0
  <2>1. game_data = [l \in Levels |-> 0] /\ IsFiniteSet(Levels)
    BY GameAssumption DEF GameInit
  <2> DEFINE h == game_data
  <2>2. h = [l \in Levels |-> 0]
    BY <2>1
  <2>3. Standing = SumFunction(h)
    BY DEF Standing
  <2> HIDE DEF h
  <2> QED BY <2>1, <2>2, <2>3, SumOfZeros
<1>5. WholeTrees
  <2>1. 0 \in Int /\ Wood - Standing = 0 * (MAX_WOOD_PER_TREE + 1)
    BY <1>3, <1>4, GameAssumption
  <2> QED BY <2>1 DEF WholeTrees
<1> QED BY <1>1, <1>2, <1>5 DEF GameOK

LEMMA GameKept == GameOK /\ [Next]_nftVars => GameOK'
<1> SUFFICES ASSUME GameOK, [Next]_nftVars PROVE GameOK'
  OBVIOUS
<1>1. GameNext \/ UNCHANGED gameVars
  BY DEF Next, nftVars
<1>2. CASE UNCHANGED gameVars
  BY <1>2 DEF gameVars, GameOK, GameTypeOK, WholeTrees, Wood, Standing
<1> QED BY <1>1, <1>2, GameStep

LEMMA WholeTreesDivide == GameOK => WoodFromTrees
<1> SUFFICES ASSUME GameOK PROVE WoodFromTrees
  OBVIOUS
<1>1. PICK k \in Int : Wood - Standing = k * (MAX_WOOD_PER_TREE + 1)
  BY DEF GameOK, WholeTrees
<1>2. MAX_WOOD_PER_TREE + 1 \in Nat \ {0}
  BY GameAssumption
<1>3. (k * (MAX_WOOD_PER_TREE + 1)) % (MAX_WOOD_PER_TREE + 1) = 0
  BY <1>2, MultipleMod
<1>4. (Wood - Standing) % (MAX_WOOD_PER_TREE + 1) = 0
  BY <1>1, <1>3
<1> QED BY <1>4 DEF WoodFromTrees, Wood, Standing

\* What NFTs show of the wood: players' wood only grows, and a chop writes what the
\* player has after it.
LEMMA WoodStaysShown == GameOK /\ WoodShown /\ [Next]_nftVars => WoodShown'
<1> SUFFICES ASSUME GameOK, WoodShown, [Next]_nftVars PROVE WoodShown'
  OBVIOUS
<1>1. GameNext \/ UNCHANGED gameVars
  BY DEF Next, nftVars
<1>2. /\ \A x \in Players : player[x].wood \in Nat
      /\ \A q \in GameMints : nft[q].wood \in Nat
      /\ nft \in [GameMints -> [supply: 0 .. 1, wood: 0 .. MaxWood]]
      /\ player \in [Players -> PlayerRecs]
      /\ \A x \in Players : ~player[x].joined => player[x].wood = 0
  <2>1. /\ player \in [Players -> PlayerRecs]
        /\ nft \in [GameMints -> [supply: 0 .. 1, wood: 0 .. MaxWood]]
        /\ \A x \in Players : ~player[x].joined => player[x].wood = 0
    BY DEF GameOK, GameTypeOK, PlayerRecs
  <2>2. \A x \in Players : player[x] \in PlayerRecs
    BY <2>1
  <2>3. \A q \in GameMints : nft[q] \in [supply: 0 .. 1, wood: 0 .. MaxWood]
    BY <2>1
  <2>4. \A x \in Players : player[x].wood \in Nat
    BY <2>2, GameAssumption DEF PlayerRecs
  <2>5. \A q \in GameMints : nft[q].wood \in Nat
    BY <2>3, GameAssumption
  <2> QED BY <2>1, <2>4, <2>5
<1>3. ASSUME NEW p \in Players, InitPlayer(p) PROVE WoodShown'
  <2> DEFINE r == [joined |-> TRUE, energy |-> MAX_ENERGY, wood |-> 0,
                   last_login |-> clock]
  <2>1. ~player[p].joined /\ player' = [player EXCEPT ![p] = r] /\ nft' = nft
    BY <1>3 DEF InitPlayer
  <2>2. r.wood = 0
    OBVIOUS
  <2> HIDE DEF r
  <2>3. \A x \in Players : player'[x].wood = player[x].wood
    BY <1>2, <2>1, <2>2
  <2> QED BY <2>1, <2>3 DEF WoodShown
<1>4. ASSUME NEW s, NEW p \in Players, NEW l \in Levels, NEW m \in GameMints,
             ChopTree(s, p, l, m)
      PROVE  WoodShown'
  <2> DEFINE r == [joined |-> TRUE, energy |-> (player[p].energy + Refilled(p)) - 1,
                   wood |-> player[p].wood + 1, last_login |-> Stamp(p, Refilled(p))]
             w == player[p].wood + 1
  <2>1. player'[p] = r /\ \A x \in Players \ {p} : player'[x] = player[x]
    BY <1>4, ChopEffect
  <2>2. nft' = [nft EXCEPT ![m].wood = w]
    BY <1>4 DEF ChopTree
  <2>3. nft'[m].wood = w /\ \A q \in GameMints \ {m} : nft'[q] = nft[q]
    BY <1>2, <2>2
  <2>4. r.wood = w /\ w \in Nat /\ w >= player[p].wood
    BY <1>2
  <2> HIDE DEF r, w
  <2>5. \A x \in Players : player'[x].wood \in Nat /\ player'[x].wood >= player[x].wood
    BY <1>2, <2>1, <2>4
  <2> SUFFICES ASSUME NEW q \in GameMints, nft'[q].wood > 0
               PROVE  \E x \in Players : nft'[q].wood <= player'[x].wood
    BY DEF WoodShown
  <2>6. CASE q = m
    BY <2>1, <2>3, <2>4, <2>6
  <2>7. CASE q # m
    <3>1. nft'[q].wood = nft[q].wood
      BY <2>3, <2>7
    <3>2. PICK x \in Players : nft[q].wood <= player[x].wood
      BY <3>1 DEF WoodShown
    <3> QED BY <1>2, <2>5, <3>1, <3>2
  <2> QED BY <2>6, <2>7
<1>5. ASSUME NEW m \in GameMints, MintNft(m) PROVE WoodShown'
  <2>1. player' = player /\ nft' = [nft EXCEPT ![m] = [supply |-> 1, wood |-> 0]]
    BY <1>5 DEF MintNft
  <2>2. nft'[m].wood = 0 /\ \A q \in GameMints \ {m} : nft'[q] = nft[q]
    BY <1>2, <2>1
  <2> QED BY <2>1, <2>2 DEF WoodShown
<1>6. ASSUME UNCHANGED <<player, nft>> PROVE WoodShown'
  BY <1>6 DEF WoodShown
<1>7. ASSUME NEW p \in Players, NEW key \in SessionKeys, NEW t \in 1 .. MaxTime,
             OpenSession(p, key, t)
      PROVE  WoodShown'
  BY <1>6, <1>7 DEF OpenSession
<1>8. ASSUME NEW p \in Players, NEW key \in SessionKeys, RevokeSession(p, key)
      PROVE  WoodShown'
  BY <1>6, <1>8 DEF RevokeSession
<1>9. CASE PassTime \/ UNCHANGED gameVars
  BY <1>6, <1>9 DEF PassTime, gameVars
<1> QED BY <1>1, <1>3, <1>4, <1>5, <1>7, <1>8, <1>9 DEF GameNext

LEMMA NothingShown == GameInit => WoodShown
BY DEF GameInit, NoNFT, WoodShown

\* What is counted twice is counted alike, for any players, trees, mints, wallets and
\* collections: the wood players have, what the trees gave (on_tree_chopped) and what an
\* NFT shows (chop_tree), a mint's supply and what its accounts hold, a collection's size
\* and its verified members (verify_collection).
THEOREM CountsAlwaysAgree == Spec => []CountsAgree
<1>1. Init => GameOK /\ WoodShown /\ ForestOK(tree)
  BY GameStart, NothingShown, CompressionStart DEF Init
<1>2. GameOK => GameTypeOK
  BY DEF GameOK
<1>3. ForestOK(tree) => CompressionTypeOK
  BY DEF ForestOK, Forests, Placed, CompressionTypeOK
<1>4. MintsOK => CollectionsCounted
  BY DEF MintsOK
<1> QED BY <1>1, <1>2, <1>3, <1>4, GameKept, WoodStaysShown, TreesKept, MintsAlwaysOK,
           MintsTyped, WholeTreesDivide, PTL DEF Spec, CountsAgree, TypeOK

-----------------------------------------------------------------------------
(* The bucket that fills by the second *)

Buckets ==
  [p \in Players |->
     IF player[p].joined
     THEN Min({TIME_TO_REFILL_ENERGY * player[p].energy + clock - player[p].last_login,
               TIME_TO_REFILL_ENERGY * MAX_ENERGY})
     ELSE -1]
Earned == [p \in Players |-> player[p].wood]

FullBucket == TIME_TO_REFILL_ENERGY * MAX_ENERGY
Filled(p) == TIME_TO_REFILL_ENERGY * player[p].energy + (clock - player[p].last_login)

\* A player's bucket, as far as it is filled.
BucketShape ==
  \A p \in Players :
    /\ Filled(p) \in Nat /\ FullBucket \in Nat
    /\ Buckets[p] = IF player[p].joined
                    THEN IF Filled(p) <= FullBucket THEN Filled(p) ELSE FullBucket
                    ELSE -1

LEMMA BucketIs == GameOK => BucketShape
<1> SUFFICES ASSUME GameOK, NEW p \in Players
             PROVE  /\ Filled(p) \in Nat /\ FullBucket \in Nat
                    /\ Buckets[p] = IF player[p].joined
                                    THEN IF Filled(p) <= FullBucket THEN Filled(p)
                                         ELSE FullBucket
                                    ELSE -1
  BY DEF BucketShape
<1> DEFINE e == TIME_TO_REFILL_ENERGY * player[p].energy
<1>1. /\ player[p].energy \in Nat /\ player[p].last_login \in Nat /\ clock \in Nat
      /\ player[p].last_login <= clock
  BY GameNumbers DEF GameOK
<1>2. e \in Nat /\ FullBucket \in Nat
  <2>1. \A n \in Nat : TIME_TO_REFILL_ENERGY * n \in Nat
    BY GameAssumption
  <2> QED BY <1>1, <2>1, GameAssumption DEF FullBucket
<1> HIDE DEF e
<1>3. e + (clock - player[p].last_login) \in Nat
  BY <1>1, <1>2
<1>4. Filled(p) = e + (clock - player[p].last_login)
  BY DEF Filled, e
<1>5. e + clock - player[p].last_login = Filled(p)
  BY <1>1, <1>2, <1>4
<1>6. Buckets[p] = IF player[p].joined THEN Min({Filled(p), FullBucket}) ELSE -1
  BY <1>5 DEF Buckets, FullBucket, e
<1>7. Min({Filled(p), FullBucket}) =
        IF Filled(p) <= FullBucket THEN Filled(p) ELSE FullBucket
  BY <1>2, <1>3, <1>4, MinOfTwo
<1> QED BY <1>2, <1>3, <1>4, <1>6, <1>7

LEMMA BucketsNext ==
  /\ \A p \in Players : Bucket!Join(p) => Bucket!BucketNext
  /\ \A p \in Players : Bucket!Spend(p) => Bucket!BucketNext
  /\ Bucket!Drip => Bucket!BucketNext
BY DEF Bucket!BucketNext

LEMMA JoinIs ==
  ASSUME NEW p \in Players, Buckets[p] = -1, Earned' = Earned,
         Buckets' = [Buckets EXCEPT ![p] = FullBucket]
  PROVE  Bucket!Join(p)
BY DEF Bucket!Join, Bucket!Unjoined, Bucket!Full, Buckets, Earned, FullBucket

LEMMA SpendIs ==
  ASSUME NEW p \in Players, Buckets[p] >= TIME_TO_REFILL_ENERGY,
         Buckets' = [Buckets EXCEPT ![p] = @ - TIME_TO_REFILL_ENERGY],
         Earned' = [Earned EXCEPT ![p] = @ + 1]
  PROVE  Bucket!Spend(p)
BY DEF Bucket!Spend, Buckets, Earned

LEMMA DripIs ==
  ASSUME Earned' = Earned,
         Buckets' = [p \in Players |->
                       IF Buckets[p] \in {-1, FullBucket} THEN Buckets[p] ELSE Buckets[p] + 1]
  PROVE  Bucket!Drip
BY DEF Bucket!Drip, Bucket!Unjoined, Bucket!Full, Buckets, Earned, FullBucket

LEMMA BucketIsNext == GameOK' => BucketShape'
BY BucketIs, PTL

\* init_player: a full bucket.
LEMMA InitPlayerJoins ==
  ASSUME GameOK, GameOK', NEW p \in Players, InitPlayer(p)
  PROVE  Bucket!BucketNext
<1> DEFINE r == [joined |-> TRUE, energy |-> MAX_ENERGY, wood |-> 0, last_login |-> clock]
<1>1. /\ ~player[p].joined /\ player' = [player EXCEPT ![p] = r] /\ UNCHANGED clock
  BY DEF InitPlayer
<1>2. /\ player \in [Players -> PlayerRecs] /\ clock \in Nat
      /\ player[p].wood = 0
  BY <1>1 DEF GameOK, GameTypeOK, PlayerRecs
<1>3. /\ r.joined = TRUE /\ r.energy = MAX_ENERGY /\ r.wood = 0 /\ r.last_login = clock
  OBVIOUS
<1> HIDE DEF r
<1>4. player'[p] = r /\ \A x \in Players \ {p} : player'[x] = player[x]
  BY <1>1, <1>2
<1>5. BucketShape /\ BucketShape'
  BY BucketIs, BucketIsNext
<1>6. Buckets[p] = -1
  BY <1>1, <1>5 DEF BucketShape
<1>7. Filled(p)' = FullBucket + (clock - clock)
  BY <1>1, <1>3, <1>4 DEF Filled, FullBucket
<1>8. FullBucket' = FullBucket /\ FullBucket \in Nat
  BY <1>5 DEF BucketShape, FullBucket
<1>9. Buckets'[p] = FullBucket
  BY <1>2, <1>3, <1>4, <1>5, <1>7, <1>8 DEF BucketShape
<1>10. \A x \in Players \ {p} : Buckets'[x] = Buckets[x]
  BY <1>1, <1>4 DEF Buckets
<1>11. Buckets' = [Buckets EXCEPT ![p] = FullBucket]
  BY <1>9, <1>10 DEF Buckets
<1>12. Earned' = Earned
  BY <1>2, <1>3, <1>4 DEF Earned
<1>13. Bucket!Join(p)
  BY <1>6, <1>11, <1>12, JoinIs
<1> QED BY <1>13, BucketsNext

\* chop_tree: update_energy's whole periods and a unit for the wood are a unit out of
\* the bucket.
LEMMA ChopTreeSpends ==
  ASSUME GameOK, GameOK', NEW s, NEW p \in Players, NEW l \in Levels, NEW m \in GameMints,
         ChopTree(s, p, l, m)
  PROVE  Bucket!BucketNext
<1> DEFINE k == Refilled(p)
           E == player[p].energy
           L == player[p].last_login
           S == Stamp(p, k)
           T == TIME_TO_REFILL_ENERGY
           since == clock - L
           r == [joined |-> TRUE, energy |-> (E + k) - 1, wood |-> player[p].wood + 1,
                 last_login |-> S]
<1>1. /\ player[p].joined /\ E + k >= 1
      /\ player'[p] = r /\ \A x \in Players \ {p} : player'[x] = player[x]
      /\ UNCHANGED clock
  BY ChopEffect
<1>2. GameTypeOK /\ L <= clock /\ player \in [Players -> PlayerRecs]
  BY DEF GameOK, GameTypeOK, PlayerRecs
<1>3. /\ since \in Nat /\ k \in Nat /\ E + k <= MAX_ENERGY /\ T * k <= since
      /\ E + k < MAX_ENERGY => since < T * k + T
      /\ S \in 0 .. MaxTime /\ S <= clock
      /\ E + k = MAX_ENERGY => S = clock
      /\ E + k < MAX_ENERGY => S = L + T * k
  BY <1>2, Refilling
<1>4. /\ E \in Nat /\ L \in Nat /\ clock \in Nat /\ MaxTime \in Nat
      /\ T \in Nat \ {0} /\ MAX_ENERGY \in Nat \ {0} /\ player[p].wood \in Nat
  BY <1>2, GameNumbers, GameAssumption
<1>5. /\ r.joined = TRUE /\ r.energy = (E + k) - 1 /\ r.wood = player[p].wood + 1
      /\ r.last_login = S
  OBVIOUS
<1>6. BucketShape /\ BucketShape'
  BY BucketIs, BucketIsNext
<1>7. Filled(p) = T * E + since
  BY DEF Filled
<1> HIDE DEF r
<1>8. Filled(p)' = T * ((E + k) - 1) + (clock - S)
  BY <1>1, <1>5 DEF Filled
<1>9. since = clock - L
  OBVIOUS
<1>10. FullBucket = T * MAX_ENERGY
  BY DEF FullBucket
<1> HIDE DEF k, E, L, S, T, since
<1> DEFINE te == T * E
           tk == T * k
           tm == T * MAX_ENERGY
<1>11. te \in Int /\ tk \in Int /\ tm \in Int
  BY <1>3, <1>4, Multiples
<1>12. /\ T * (E + k) = te + tk
       /\ T * ((E + k) - 1) = te + tk - T
  <2>1. T * (E + k) = te + tk
    BY <1>3, <1>4, Multiples
  <2>2. E + k \in Int
    BY <1>3, <1>4
  <2>3. T * ((E + k) - 1) = T * (E + k) - T
    BY <1>4, <2>2, Multiples
  <2>4. (E + k) - 1 = (E + k) - 1
    BY <1>3, <1>4
  <2> HIDE DEF te, tk
  <2> QED BY <1>4, <1>11, <2>1, <2>3, <2>4
<1>13. T <= te + tk
  <2>1. T * 1 <= T * (E + k)
    BY <1>1, <1>3, <1>4, Multiples
  <2>2. T * 1 = T
    BY <1>4
  <2> QED BY <1>12, <2>1, <2>2
<1>14. E + k = MAX_ENERGY => te + tk = tm
  BY <1>12
<1>15. E + k < MAX_ENERGY => te + tk + T <= tm
  <2> SUFFICES ASSUME E + k < MAX_ENERGY PROVE te + tk + T <= tm
    OBVIOUS
  <2>1. E + k \in Int /\ (E + k) + 1 \in Int /\ (E + k) + 1 <= MAX_ENERGY
    BY <1>3, <1>4
  <2>2. T * ((E + k) + 1) <= tm
    BY <1>4, <2>1, Multiples
  <2>3. T * ((E + k) + 1) = T * (E + k) + T
    BY <1>4, <2>1, Multiples
  <2> HIDE DEF te, tk, tm
  <2> QED BY <1>4, <1>11, <1>12, <2>2, <2>3
<1>16. te + tk <= tm
  <2> HIDE DEF te, tk, tm
  <2> QED BY <1>3, <1>4, <1>11, <1>14, <1>15
<1>17. /\ Filled(p) = te + since /\ FullBucket = tm
       /\ Filled(p)' = (te + tk - T) + (clock - S)
       /\ FullBucket' = tm
  <2>1. FullBucket' = FullBucket
    BY DEF FullBucket
  <2> QED BY <1>7, <1>8, <1>10, <1>12, <2>1
<1>18. /\ Buckets[p] = IF Filled(p) <= FullBucket THEN Filled(p) ELSE FullBucket
       /\ Buckets'[p] = IF Filled(p)' <= FullBucket' THEN Filled(p)' ELSE FullBucket'
  BY <1>1, <1>5, <1>6 DEF BucketShape
<1> HIDE DEF te, tk, tm
<1>a. tk <= since /\ (E + k < MAX_ENERGY => since < tk + T)
  BY <1>3 DEF tk
<1> DEFINE now == te + since
           next == (te + tk - T) + (clock - S)
<1>19. Buckets[p] >= T /\ Buckets'[p] = Buckets[p] - T
  <2>1. CASE E + k = MAX_ENERGY
    <3>1. S = clock /\ te + tk = tm
      BY <1>3, <1>14, <2>1
    <3>2. next = tm - T /\ now >= tm /\ now \in Int
      BY <1>a, <1>3, <1>4, <1>11, <3>1
    <3>3. Buckets[p] = tm /\ Buckets'[p] = tm - T
      BY <1>4, <1>11, <1>17, <1>18, <3>2
    <3> QED BY <3>3, <3>1, <1>13, <1>4, <1>11
  <2>2. CASE E + k < MAX_ENERGY
    <3>1. /\ S = L + tk /\ since < tk + T /\ te + tk + T <= tm
      BY <1>a, <1>3, <1>15, <2>2 DEF tk
    <3>2. now < tm /\ next = now - T /\ now >= T /\ now \in Int
      BY <1>a, <1>3, <1>4, <1>9, <1>11, <1>13, <3>1
    <3>3. Buckets[p] = now /\ Buckets'[p] = now - T
      BY <1>4, <1>11, <1>17, <1>18, <3>2
    <3> QED BY <3>2, <3>3
  <2> QED BY <1>3, <1>4, <2>1, <2>2
<1>20. \A x \in Players \ {p} : Buckets'[x] = Buckets[x]
  BY <1>1 DEF Buckets
<1>21. Buckets' = [Buckets EXCEPT ![p] = @ - TIME_TO_REFILL_ENERGY]
  BY <1>19, <1>20 DEF Buckets, T
<1>22. Earned' = [Earned EXCEPT ![p] = @ + 1]
  <2>1. Earned'[p] = Earned[p] + 1 /\ \A x \in Players \ {p} : Earned'[x] = Earned[x]
    BY <1>1, <1>5 DEF Earned
  <2> QED BY <2>1 DEF Earned
<1>23. Bucket!Spend(p)
  BY <1>19, <1>21, <1>22, SpendIs DEF T
<1> QED BY <1>23, BucketsNext

\* A second fills every bucket that has room.
LEMMA PassTimeDrips ==
  ASSUME GameOK, GameOK', PassTime
  PROVE  Bucket!BucketNext
<1>1. clock' = clock + 1 /\ UNCHANGED player
  BY DEF PassTime
<1>2. BucketShape /\ BucketShape'
  BY BucketIs, BucketIsNext
<1>3. ASSUME NEW p \in Players
      PROVE  Buckets'[p] =
               IF Buckets[p] \in {-1, FullBucket} THEN Buckets[p] ELSE Buckets[p] + 1
  <2> DEFINE f == Filled(p)
             full == FullBucket
  <2>1. /\ player[p].energy \in Nat /\ player[p].last_login \in Nat /\ clock \in Nat
        /\ player[p].last_login <= clock
    BY GameNumbers DEF GameOK
  <2>2. TIME_TO_REFILL_ENERGY * player[p].energy \in Int
    BY <2>1, GameAssumption, Multiples
  <2>3. Filled(p)' = f + 1 /\ FullBucket' = full
    <3>1. Filled(p)' = TIME_TO_REFILL_ENERGY * player[p].energy
                         + ((clock + 1) - player[p].last_login)
      BY <1>1 DEF Filled
    <3>2. FullBucket' = full
      BY DEF FullBucket
    <3> DEFINE e == TIME_TO_REFILL_ENERGY * player[p].energy
    <3>3. f = e + (clock - player[p].last_login)
      BY DEF Filled
    <3>4. Filled(p)' = e + ((clock + 1) - player[p].last_login) /\ e \in Int
      BY <2>2, <3>1
    <3> HIDE DEF e, f, full
    <3> QED BY <2>1, <3>2, <3>3, <3>4
  <2>4. /\ f \in Nat /\ full \in Nat
        /\ Buckets[p] = IF player[p].joined THEN IF f <= full THEN f ELSE full ELSE -1
        /\ Buckets'[p] = IF player[p].joined
                         THEN IF f + 1 <= full THEN f + 1 ELSE full ELSE -1
    BY <1>1, <1>2, <2>3 DEF BucketShape
  <2>5. FullBucket = full
    OBVIOUS
  <2> HIDE DEF f, full
  <2> QED BY <2>4, <2>5
<1>4. Buckets' = [p \in Players |->
                    IF Buckets[p] \in {-1, FullBucket} THEN Buckets[p] ELSE Buckets[p] + 1]
  BY <1>3 DEF Buckets
<1>5. Earned' = Earned
  BY <1>1 DEF Earned
<1>6. Bucket!Drip
  BY <1>4, <1>5, DripIs
<1> QED BY <1>6, BucketsNext

\* Wood is no cheaper and no dearer for when it is chopped: update_energy, which works
\* the energy out afterwards, is a bucket that fills by the second, for any capacity,
\* any time to refill, any players, sessions and order of calls.
THEOREM EnergyIsByTheSecond == Spec => EnergyByTheSecond
<1>1. Init => GameOK /\ Bucket!BucketInit
  <2>1. Init => GameOK
    BY GameStart DEF Init
  <2>2. GameInit => Bucket!BucketInit
    BY DEF GameInit, Bucket!BucketInit, Bucket!Unjoined
  <2> QED BY <2>1, <2>2 DEF Init
<1>2. GameOK /\ GameOK' /\ [Next]_nftVars => [Bucket!BucketNext]_<<Buckets, Earned>>
  <2> SUFFICES ASSUME GameOK, GameOK', [Next]_nftVars
               PROVE  Bucket!BucketNext \/ UNCHANGED <<Buckets, Earned>>
    OBVIOUS
  <2>1. GameNext \/ UNCHANGED gameVars
    BY DEF Next, nftVars
  <2>2. UNCHANGED <<player, clock>> => UNCHANGED <<Buckets, Earned>>
    BY DEF Buckets, Earned
  <2>3. CASE UNCHANGED gameVars
    BY <2>2, <2>3 DEF gameVars
  <2>4. CASE GameNext
    <3>1. CASE \E p \in Players : InitPlayer(p)
      BY <3>1, InitPlayerJoins
    <3>2. CASE \E s \in Players \cup SessionKeys, p \in Players, l \in Levels,
                  m \in GameMints : ChopTree(s, p, l, m)
      BY <3>2, ChopTreeSpends
    <3>3. CASE \/ \E m \in GameMints : MintNft(m)
               \/ \E p \in Players, k \in SessionKeys, t \in 1 .. MaxTime :
                    OpenSession(p, k, t)
               \/ \E p \in Players, k \in SessionKeys : RevokeSession(p, k)
      <4>1. UNCHANGED <<player, clock>>
        BY <3>3 DEF MintNft, OpenSession, RevokeSession
      <4> QED BY <4>1, <2>2
    <3>4. CASE PassTime
      BY <3>4, PassTimeDrips
    <3> QED BY <2>4, <3>1, <3>2, <3>3, <3>4 DEF GameNext
  <2> QED BY <2>1, <2>3, <2>4
<1> QED BY <1>1, <1>2, GameKept, PTL
        DEF Spec, EnergyByTheSecond, Bucket!BucketSpec, Buckets, Earned
=============================================================================
