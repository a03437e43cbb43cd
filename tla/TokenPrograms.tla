--------------------------- MODULE TokenPrograms ---------------------------
(***************************************************************************)
(* Five programs of tokens/ that keep tokens of others: the market maker,  *)
(* the fundraiser, the airdrop, the delegate and the mint with fees.  They *)
(* do not call each other and share no account, so a behaviour is that of  *)
(* one of them, and what is stated here is stated of all.                  *)
(***************************************************************************)
EXTENDS TokenSwap, Fundraiser, MerkleClaimer, DelegateMaster, TransferFee

VARIABLE deployed       \* the program looked at, the same throughout

programVars == <<swapVars, fundVars, claimVars, delegateVars, feeVars, deployed>>

Programs == {"swap", "fundraiser", "claimer", "delegate", "fee"}

Init ==
  /\ deployed \in Programs
  /\ SwapInit /\ FundInit /\ ClaimInit /\ DelegateInit /\ FeeInit

Next ==
  \/ /\ deployed = "swap"
     /\ SwapNext
     /\ UNCHANGED <<fundVars, claimVars, delegateVars, feeVars, deployed>>
  \/ /\ deployed = "fundraiser"
     /\ FundNext
     /\ UNCHANGED <<swapVars, claimVars, delegateVars, feeVars, deployed>>
  \/ /\ deployed = "claimer"
     /\ ClaimNext
     /\ UNCHANGED <<swapVars, fundVars, delegateVars, feeVars, deployed>>
  \/ /\ deployed = "delegate"
     /\ DelegateNext
     /\ UNCHANGED <<swapVars, fundVars, claimVars, feeVars, deployed>>
  \/ /\ deployed = "fee"
     /\ FeeNext
     /\ UNCHANGED <<swapVars, fundVars, claimVars, delegateVars, deployed>>

Spec == Init /\ [][Next]_programVars

-----------------------------------------------------------------------------

\* Every variable of every program holds a value of its type.
TypeOK == SwapTypeOK /\ FundTypeOK /\ ClaimTypeOK /\ DelegateTypeOK /\ FeeTypeOK

\* What a program owes it holds: the shares of a pool, the contributions that can
\* be taken back, the claims that are left, of which each is paid once, and the
\* tokens and fees of a mint's holders.
Solvent ==
  /\ TypeOK
  /\ SharesBacked /\ RefundsCovered /\ ClaimsCovered /\ PaidAsListed /\ FeesKept

\* The market maker's arithmetic refuses no swap and takes no more than was offered,
\* and a mint's holders pay no fee they could not have known of.
FairTerms == NoSwapIsRejected /\ DepositsWithinOffer /\ FeeOnNotice

\* Nobody's tokens are stuck, and nobody's claim is lost to what others do.
NobodyShutOut == NobodyLocked /\ ListedCanClaim
=============================================================================
