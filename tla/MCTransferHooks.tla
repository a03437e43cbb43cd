-------------------------- MODULE MCTransferHooks --------------------------
(* Small instances of the transfer hooks for TLC.                             *)
EXTENDS TransferHooks, TLC

CONSTANTS amy, ben, guy, a1, a2, a3, m1, m2, k

Owners == (a1 :> amy) @@ (a2 :> ben) @@ (a3 :> amy)
Tokens == (a1 :> 2) @@ (a2 :> 0) @@ (a3 :> 1)
WrappedUsed == (amy :> 2) @@ (ben :> 1) @@ (guy :> 0)

PermanentUsed == {Nobody, guy}
ApprovalsUsed == {<<a1, ben>>, <<a1, guy>>}
NewOwnersUsed == {<<a3, ben>>, <<a3, amy>>}

\* Metadata of mints that were not made by init_mint: none, one key, the other first.
MetadataUsed ==
  { << >>, <<Field("AB", "Block")>>, <<Field("threshold", 2), Field("AB", "Mixed")>> }
=============================================================================
