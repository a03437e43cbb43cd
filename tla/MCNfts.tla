------------------------------- MODULE MCNfts -------------------------------
(* Small instances of the NFT programs for TLC.                               *)
EXTENDS Nfts, TLC

CONSTANTS ann, bob, key, oak, elm, nft1, t1, t2, vault, burger, m1, pm, c1, c2, c3

\* A factor of two stands for 10^9.
ScaleUsed == (0 :> 1) @@ (1 :> 2)
=============================================================================
