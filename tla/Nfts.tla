-------------------------------- MODULE Nfts --------------------------------
(***************************************************************************)
(* The programs that make NFTs or keep them: the tree game of Token-2022,  *)
(* the compressed NFTs of compression/, and the minting programs of        *)
(* tokens/, the NFTs and collections of nft-operations apart from the rest.*)
(* A behaviour is that of one of these four.                               *)
(***************************************************************************)
EXTENDS TreeGame, Compression, MintPrograms

VARIABLE shown          \* the programs looked at, the same throughout

nftVars == <<gameVars, tree, mintVars, shown>>

Init ==
  /\ shown \in {"game", "compression", "tokens", "collections"}
  /\ GameInit /\ CompressionInit /\ MintInit

Next ==
  \/ /\ shown = "game"
     /\ GameNext
     /\ UNCHANGED <<tree, mintVars, shown>>
  \/ /\ shown = "compression"
     /\ CompressionNext
     /\ UNCHANGED <<gameVars, mintVars, shown>>
  \/ /\ shown = "tokens"
     /\ TokensNext
     /\ UNCHANGED <<gameVars, tree, shown>>
  \/ /\ shown = "collections"
     /\ CollectionsNext
     /\ UNCHANGED <<gameVars, tree, shown>>

Spec == Init /\ [][Next]_nftVars

-----------------------------------------------------------------------------

\* Every variable holds a value of its type, and mints' supplies are what is held.
TypeOK == GameTypeOK /\ CompressionTypeOK /\ MintTypeOK

\* What is counted twice is counted alike: wood, trees and what NFTs show of it, supplies
\* and accounts, the members of a collection and its size.
CountsAgree == TypeOK /\ WoodFromTrees /\ WoodShown /\ CollectionsCounted

\* A proof accepted speaks of the present, and a withdrawal does not spoil another's.
ProofsHold == VerifiedHolds /\ PairsCanLeave
=============================================================================
